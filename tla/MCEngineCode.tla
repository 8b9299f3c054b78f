---------------------------- MODULE MCEngineCode ----------------------------
(***************************************************************************)
(* An instance of EngineCache for TLC, beside one of GuestFunctions: which *)
(* compiled code a module gets, and what the code computes.  The two share *)
(* no state: a behaviour exercises the one or the other.                   *)
(***************************************************************************)
EXTENDS MCEngineCache, MCGuestVectors

VARIABLE part    \* the part exercised

EngineCodeInit ==
    /\ part \in {"cache", "functions"}
    /\ Init
    /\ FuncsInit
    /\ part = "cache" => profile = 1

EngineCodeNext ==
    \/ part = "cache" /\ Next /\ UNCHANGED <<part, funcVars>>
    \/ part = "functions" /\ FuncsNext /\ UNCHANGED <<part, vars>>

EngineCodeSpec == EngineCodeInit /\ [][EngineCodeNext]_<<part, vars, funcVars>>
=============================================================================
