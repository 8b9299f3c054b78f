----------------------------- MODULE MCGuestStops -----------------------------
(***************************************************************************)
(* An instance of MemoryWait for TLC, beside one of GuestFunctions with    *)
(* guests that may run for ever: what must eventually go on, and what must *)
(* eventually stop.  The two share no state: a behaviour exercises the one *)
(* or the other.                                                           *)
(***************************************************************************)
EXTENDS MCMemoryWait, MCGuestFunctions

VARIABLE part    \* the part exercised

StopsInit ==
    /\ part \in {"wait", "functions"}
    /\ Init
    /\ FuncsInit
    /\ part = "functions" => value = AnyValue

StopsNext ==
    \/ part = "wait" /\ Next /\ UNCHANGED <<part, funcVars>>
    \/ part = "functions" /\ FuncsNext /\ UNCHANGED <<part, vars>>

(* The other part is at rest, where its fairness asks for nothing. *)
StopsFairness == FuncsFairness /\ \A t \in Threads : WF_vars(Step(t)) /\ WF_vars(WaitExpire(t))

StopsSpec == StopsInit /\ [][StopsNext]_<<part, vars, funcVars>> /\ StopsFairness
===============================================================================
