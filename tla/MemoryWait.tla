----------------------------- MODULE MemoryWait -----------------------------
(***************************************************************************)
(* memory.atomic.wait and memory.atomic.notify on one address of a shared  *)
(* memory (MemoryInstance.Wait32, Wait64, wait, getWaiters and Notify in   *)
(* internal/wasm/memory.go).  Waiters of other addresses are in other      *)
(* lists and do not interact.                                              *)
(*                                                                         *)
(* The entry of the sync.Map is a *waiters object, named here after the    *)
(* thread that stored it.  A critical section of waiters.mux reads the     *)
(* address at most once, so it is one step; the memory itself is written   *)
(* without that mutex.                                                     *)
(***************************************************************************)
EXTENDS Naturals, FiniteSets, SequencesExt

CONSTANTS
    Threads,     \* agents: goroutines whose guests share the memory
    Values,      \* values of the address
    NoWaiters,   \* no entry in the sync.Map
    WaiterLimit  \* 2^32 in the code: so many waiters trap

ASSUME WaitAssumption ==
    /\ IsFiniteSet(Threads) /\ NoWaiters \notin Threads
    /\ Values # {}
    /\ WaiterLimit \in Nat \ {0}

VARIABLES
    value,     \* what the address holds
    waiters,   \* entry of MemoryInstance.waiters for the address
    list,      \* waiters.l of each *waiters object, front first
    pc,
    handle,    \* local w of Wait32 and Notify
    exp,       \* argument: the expected value
    finite,    \* argument: timeout >= 0
    count,     \* argument of Notify
    ready,     \* threads whose channel is closed
    canceled   \* threads whose call's context is done

locals == <<handle, exp, finite, count, ready, canceled>>
vars == <<value, waiters, list, pc, locals>>

Labels == {"idle", "load", "store", "enqueue", "parked", "expired", "written",
           "notify"}

(* A *waiters object, or none. *)
Object == Threads \cup {NoWaiters}

TypeOK ==
    /\ value \in Values
    /\ waiters \in Object
    /\ list \in [Threads -> Seq(Threads)]
    /\ pc \in [Threads -> Labels]
    /\ handle \in [Threads -> Object]
    /\ exp \in [Threads -> Values]
    /\ finite \in [Threads -> BOOLEAN]
    /\ count \in [Threads -> Nat]
    /\ ready \in SUBSET Threads
    /\ canceled \in SUBSET Threads

AnyValue == CHOOSE v \in Values : TRUE

Init ==
    /\ value \in Values
    /\ waiters = NoWaiters
    /\ list = [t \in Threads |-> <<>>]
    /\ pc = [t \in Threads |-> "idle"]
    /\ handle = [t \in Threads |-> NoWaiters]
    /\ exp = [t \in Threads |-> AnyValue]
    /\ finite = [t \in Threads |-> FALSE]
    /\ count = [t \in Threads |-> 0]
    /\ ready = {}
    /\ canceled = {}

At(t, l) == pc[t] = l

Goto(t, l) == pc' = [pc EXCEPT ![t] = l]

(* The call returns and its locals go out of scope. *)
Return(t) ==
    /\ Goto(t, "idle")
    /\ handle' = [handle EXCEPT ![t] = NoWaiters]
    /\ exp' = [exp EXCEPT ![t] = AnyValue]
    /\ finite' = [finite EXCEPT ![t] = FALSE]
    /\ count' = [count EXCEPT ![t] = 0]
    /\ canceled' = canceled \ {t}
----------------------------------------------------------------------------
(* Waiting.                                                                *)

StartWait(t, v, f) ==
    /\ At(t, "idle")
    /\ Goto(t, "load")
    /\ exp' = [exp EXCEPT ![t] = v]
    /\ finite' = [finite EXCEPT ![t] = f]
    /\ UNCHANGED <<value, waiters, list, handle, count, ready, canceled>>

(* getWaiters: Load, and LoadOrStore of a new object if there was none.    *)
WaitLoad(t) ==
    /\ At(t, "load")
    /\ handle' = [handle EXCEPT ![t] = waiters]
    /\ Goto(t, IF waiters = NoWaiters THEN "store" ELSE "enqueue")
    /\ UNCHANGED <<value, waiters, list, exp, finite, count, ready, canceled>>

(* Mutant of LoadOrStore: the last to store wins. *)
StoreAlways(t) == t

LoadOrStore(t) == IF waiters = NoWaiters THEN t ELSE waiters

WaitStore(t) ==
    /\ At(t, "store")
    /\ waiters' = LoadOrStore(t)
    /\ handle' = [handle EXCEPT ![t] = LoadOrStore(t)]
    /\ Goto(t, "enqueue")
    /\ UNCHANGED <<value, list, exp, finite, count, ready, canceled>>

(* Mutant of Unequal: the value was compared before the mutex was taken.   *)
UnequalBefore(t) == FALSE

(* Wait32 compares under the mutex and returns 1, wait traps when there    *)
(* are too many, or appends to the list.                                   *)
Unequal(t) == value # exp[t]

TooMany(t) == Len(list[handle[t]]) + 1 = WaiterLimit

WaitEnqueue(t) ==
    /\ At(t, "enqueue")
    /\ IF Unequal(t) \/ TooMany(t)
       THEN Return(t) /\ UNCHANGED list
       ELSE /\ list' = [list EXCEPT ![handle[t]] = Append(@, t)]
            /\ Goto(t, "parked")
            /\ UNCHANGED <<handle, exp, finite, count, canceled>>
    /\ UNCHANGED <<value, waiters, ready>>

(* The channel was closed: return 0. *)
WaitWoken(t) ==
    /\ At(t, "parked") /\ t \in ready
    /\ ready' = ready \ {t}
    /\ Return(t)
    /\ UNCHANGED <<value, waiters, list>>

(* The timer fires; select may prefer it to a channel that is closed too.  *)
WaitExpire(t) ==
    /\ At(t, "parked") /\ finite[t]
    /\ Goto(t, "expired")
    /\ UNCHANGED <<value, waiters, list, locals>>

(* Return 2; list.Remove does nothing if Notify removed the element.       *)
WaitRemove(t) ==
    /\ At(t, "expired")
    /\ list' = [list EXCEPT ![handle[t]] = RemoveFirst(@, t)]
    /\ ready' = ready \ {t}
    /\ Return(t)
    /\ UNCHANGED <<value, waiters>>

(* The context is done while t sleeps: under WithCloseOnContextDone the    *)
(* watcher of the call sets Closed, which nothing reads during the wait.   *)
ContextDone(t) ==
    /\ At(t, "parked") /\ t \notin canceled
    /\ canceled' = canceled \cup {t}
    /\ UNCHANGED <<value, waiters, list, pc, handle, exp, finite, count, ready>>
----------------------------------------------------------------------------
(* Notifying.                                                              *)

(* The guest stores to the address, then notifies all. *)
StartPublish(t, v) ==
    /\ At(t, "idle")
    /\ value' = v
    /\ count' = [count EXCEPT ![t] = Cardinality(Threads)]
    /\ Goto(t, "written")
    /\ UNCHANGED <<waiters, list, handle, exp, finite, ready, canceled>>

(* Mutant of StartNotify: the count is one less. *)
StartNotifyFewer(t, c) ==
    /\ At(t, "idle")
    /\ count' = [count EXCEPT ![t] = c - 1]
    /\ Goto(t, "written")
    /\ UNCHANGED <<value, waiters, list, handle, exp, finite, ready, canceled>>

(* The guest notifies at most c waiters. *)
StartNotify(t, c) ==
    /\ At(t, "idle")
    /\ count' = [count EXCEPT ![t] = c]
    /\ Goto(t, "written")
    /\ UNCHANGED <<value, waiters, list, handle, exp, finite, ready, canceled>>

(* Notify returns at once if nobody ever waited. *)
NotifyLoad(t) ==
    /\ At(t, "written")
    /\ IF waiters = NoWaiters
       THEN Return(t)
       ELSE /\ handle' = [handle EXCEPT ![t] = waiters]
            /\ Goto(t, "notify")
            /\ UNCHANGED <<exp, finite, count, canceled>>
    /\ UNCHANGED <<value, waiters, list, ready>>

(* Mutant of Woken: one waiter at most, whatever the count. *)
WokenOne(t) == IF list[handle[t]] = <<>> \/ count[t] = 0 THEN 0 ELSE 1

(* The first "count" waiters leave the list and their channels are closed. *)
Woken(t) ==
    LET l == list[handle[t]]
    IN  IF count[t] < Len(l) THEN count[t] ELSE Len(l)

NotifyWake(t) ==
    /\ At(t, "notify")
    /\ LET l == list[handle[t]]
       IN  /\ ready' = ready \cup {l[i] : i \in 1 .. Woken(t)}
           /\ list' = [list EXCEPT ![handle[t]] = SubSeq(l, Woken(t) + 1, Len(l))]
    /\ Return(t)
    /\ UNCHANGED <<value, waiters>>
----------------------------------------------------------------------------
Step(t) ==
    \/ WaitLoad(t) \/ WaitStore(t) \/ WaitEnqueue(t) \/ WaitWoken(t)
    \/ WaitRemove(t) \/ NotifyLoad(t) \/ NotifyWake(t)

Choice(t) ==
    \/ \E v \in Values : StartPublish(t, v)
                         \/ \E f \in BOOLEAN : StartWait(t, v, f)
    \/ \E c \in {0, 1} : StartNotify(t, c)
    \/ WaitExpire(t) \/ ContextDone(t)

Next == \E t \in Threads : Step(t) \/ Choice(t)

Spec == Init /\ [][Next]_vars

(* Goroutines are scheduled and timers fire. *)
FairSpec ==
    Spec /\ \A t \in Threads : WF_vars(Step(t)) /\ WF_vars(WaitExpire(t))
----------------------------------------------------------------------------
(* Properties.                                                             *)

Waiting(t) == At(t, "parked") /\ t \notin ready

InList(t, l) == \E i \in DOMAIN l : l[i] = t

(* No wake-up is lost: a waiter sleeps on a value that is no longer there  *)
(* only as long as the one that replaced it has not notified yet.          *)
NoLostWakeup ==
    \A t \in Threads : Waiting(t) /\ value # exp[t] =>
        \E u \in Threads : pc[u] \in {"written", "notify"} /\ count[u] > 1

(* Whoever sleeps is once in the list that Notify finds, even when several *)
(* agents race to create it, and nobody else is: no notification is spent  *)
(* on a waiter that is gone.                                               *)
ListExact ==
    /\ \A t \in Threads : Waiting(t) =>
          /\ waiters # NoWaiters
          /\ Cardinality({i \in DOMAIN list[waiters] : list[waiters][i] = t}) = 1
    /\ \A w, t \in Threads : InList(t, list[w]) =>
          w = waiters /\ (Waiting(t) \/ At(t, "expired"))

(* A waiter whose value was replaced does not sleep for ever. *)
PublishedWakes ==
    \A t \in Threads : (Waiting(t) /\ value # exp[t]) ~> ~ Waiting(t)

(* WithCloseOnContextDone "ensures the executions of functions to be       *)
(* terminated" when the context is canceled (config.go).                   *)
CanceledReturns == \A t \in Threads : t \in canceled ~> At(t, "idle")
=============================================================================
