----------------------------- MODULE MCGuestCode -----------------------------
(***************************************************************************)
(* An instance of GuestExecutions for TLC, beside one of GuestFunctions:   *)
(* who keeps a guest's code, and what the code computes.  The two share no *)
(* state: a behaviour exercises the one or the other.                      *)
(***************************************************************************)
EXTENDS MCGuestExecutions, MCGuestFunctions

VARIABLE part    \* the part exercised

GuestCodeInit ==
    /\ part \in {"executions", "functions"}
    /\ Init
    /\ FuncsInit
    /\ part = "executions" => profile = 1

GuestCodeNext ==
    \/ part = "executions" /\ Next /\ UNCHANGED <<part, funcVars>>
    \/ part = "functions" /\ FuncsNext /\ UNCHANGED <<part, vars>>

GuestCodeSpec == GuestCodeInit /\ [][GuestCodeNext]_<<part, vars, funcVars>>
==============================================================================
