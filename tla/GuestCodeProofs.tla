-------------------------- MODULE GuestCodeProofs --------------------------
(***************************************************************************)
(* Proofs about what guest code relies on: GuestFunctions, for any         *)
(* functions and modules, and MemoryWait, for any number of agents, any    *)
(* values and any limit of waiters.  The two share no state.               *)
(*                                                                         *)
(* A function that is validated compiles (ValidatedCompiles).  The body    *)
(* grows while it is validated: what the validator has become is what it   *)
(* becomes by reading the body so far (Checked), so that CompilerProofs    *)
(* applies once it is complete.                                            *)
(*                                                                         *)
(* Wait and notify lose no wake-up.  NoLostWakeup is not inductive: that   *)
(* the one who replaced the value wakes everybody needs that it looks into *)
(* the list the sleepers are in (OneObject, SleepersListed), that the list *)
(* has no stale or double elements, so that its length is at most the      *)
(* count (ListedWait, NoneTwice), and that a count above one is the count  *)
(* of a guest that notifies all (Counts).                                  *)
(***************************************************************************)
EXTENDS MemoryWait, GuestFunctions, CompilerProofs, FiniteSetTheorems

----------------------------------------------------------------------------
(* Wait and notify.                                                        *)

(* The goroutines that looked the entry up have the one that is there:     *)
(* LoadOrStore never replaces an object.                                   *)
OneObject ==
    /\ \A t \in Threads : pc[t] \in {"enqueue", "parked", "expired", "notify"} =>
          handle[t] = waiters /\ waiters # NoWaiters
    /\ \A w \in Threads : w # waiters => list[w] = <<>>

NoneTwice == \A w \in Threads : Distinct(list[w])

(* Who is in a list waits, or has timed out and not removed itself.        *)
ListedWait ==
    \A w, t \in Threads : Occurs(t, list[w]) =>
        pc[t] \in {"parked", "expired"} /\ t \notin ready

(* A channel that was closed is of somebody who has not returned. *)
ReadyWait == \A t \in ready : pc[t] \in {"parked", "expired"}

SleepersListed ==
    \A t \in Threads : Waiting(t) => Occurs(t, list[waiters])

Counts ==
    \A t \in Threads : pc[t] \in {"written", "notify"} =>
        count[t] \in {0, 1, Cardinality(Threads)}

WaitInv ==
    /\ TypeOK /\ OneObject /\ NoneTwice /\ ListedWait /\ ReadyWait
    /\ SleepersListed /\ Counts /\ NoLostWakeup
----------------------------------------------------------------------------
(* The threads can be counted. *)
LEMMA ThreadsNat == Cardinality(Threads) \in Nat
  BY WaitAssumption, FS_CardinalityType

(* Some agent exists besides another one: there are two at least.          *)
LEMMA TwoThreads ==
    ASSUME NEW t \in Threads, NEW u \in Threads, t # u
    PROVE  Cardinality(Threads) > 1
  <1>1. IsFiniteSet({t}) /\ Cardinality({t}) = 1
    BY FS_Singleton
  <1>2. IsFiniteSet({t} \cup {u}) /\ Cardinality({t} \cup {u}) = 2
    BY <1>1, FS_AddElement
  <1>3. Cardinality({t} \cup {u}) <= Cardinality(Threads)
    BY <1>2, WaitAssumption, FS_Subset, {t} \cup {u} \in SUBSET Threads
  <1> QED
    BY <1>2, <1>3, ThreadsNat

(* A list without repetitions is no longer than there are agents. *)
LEMMA ListFits ==
    ASSUME NEW l \in Seq(Threads), Distinct(l)
    PROVE  Len(l) <= Cardinality(Threads)
  <1>1. l \in Injection(1 .. Len(l), Threads)
    <2>1. l \in [1 .. Len(l) -> Threads]
      BY LenProperties
    <2> QED
      BY <2>1 DEF Injection, IsInjective, Distinct
  <1>2. Cardinality(1 .. Len(l)) <= Cardinality(Threads)
    BY <1>1, WaitAssumption, FS_Injection
  <1>3. Cardinality(1 .. Len(l)) = Len(l)
    <2>1. Len(l) \in Nat
      OBVIOUS
    <2>2. Cardinality(1 .. Len(l)) = IF 1 > Len(l) THEN 0 ELSE Len(l) - 1 + 1
      BY <2>1, FS_Interval
    <2> QED
      BY <2>1, <2>2
  <1> QED
    BY <1>2, <1>3

(* At first nobody waits. *)
LEMMA InitWaitInv == Init => WaitInv
  <1> SUFFICES ASSUME Init PROVE WaitInv
    OBVIOUS
  <1>1. AnyValue \in Values
    BY WaitAssumption DEF AnyValue
  <1>2. TypeOK
    BY <1>1 DEF Init, TypeOK, Object, Labels
  <1>3. \A w \in Threads : list[w] = <<>> /\ Len(list[w]) = 0
    BY DEF Init
  <1>4. NoneTwice /\ ListedWait
    BY <1>3 DEF NoneTwice, ListedWait, Distinct, Occurs
  <1>5. OneObject /\ ReadyWait /\ SleepersListed /\ Counts /\ NoLostWakeup
    BY <1>3 DEF Init, OneObject, ReadyWait, SleepersListed, Counts,
          NoLostWakeup, Waiting, At
  <1> QED
    BY <1>2, <1>4, <1>5 DEF WaitInv
----------------------------------------------------------------------------
(* The steps.  Most leave the list, the entry and the closed channels      *)
(* alone and only move one agent.                                          *)

(* memory.atomic.wait is called. *)
LEMMA StartWaitInv ==
    ASSUME WaitInv, NEW t \in Threads, NEW v \in Values, NEW f \in BOOLEAN, StartWait(t, v, f)
    PROVE  WaitInv'
  <1> USE DEF WaitInv
  <1>0. AnyValue \in Values
    BY WaitAssumption DEF AnyValue
  <1>1. TypeOK'
    BY <1>0, WaitAssumption, ThreadsNat DEF TypeOK, Labels, Object, StartWait, Goto, At
  <1>2. OneObject'
    BY WaitAssumption DEF OneObject, TypeOK, Object, StartWait, Goto, At
  <1>3. NoneTwice'
    BY DEF NoneTwice, StartWait, Goto, At
  <1>4. ListedWait' /\ ReadyWait'
    BY DEF ListedWait, ReadyWait, TypeOK, StartWait, Goto, At
  <1>5. SleepersListed'
    BY DEF SleepersListed, Waiting, TypeOK, StartWait, Goto, At
  <1>6. Counts'
    BY DEF Counts, TypeOK, StartWait, Goto, At
  <1>7. NoLostWakeup'
    BY DEF NoLostWakeup, Waiting, TypeOK, StartWait, Goto, At
  <1> QED
    BY <1>1, <1>2, <1>3, <1>4, <1>5, <1>6, <1>7

(* getWaiters loads the entry. *)
LEMMA WaitLoadInv ==
    ASSUME WaitInv, NEW t \in Threads, WaitLoad(t)
    PROVE  WaitInv'
  <1> USE DEF WaitInv
  <1>0. AnyValue \in Values
    BY WaitAssumption DEF AnyValue
  <1>1. TypeOK'
    BY <1>0, WaitAssumption, ThreadsNat DEF TypeOK, Labels, Object, WaitLoad, Goto, At
  <1>2. OneObject'
    BY WaitAssumption DEF OneObject, TypeOK, Object, WaitLoad, Goto, At
  <1>3. NoneTwice'
    BY DEF NoneTwice, WaitLoad, Goto, At
  <1>4. ListedWait' /\ ReadyWait'
    BY DEF ListedWait, ReadyWait, TypeOK, WaitLoad, Goto, At
  <1>5. SleepersListed'
    BY DEF SleepersListed, Waiting, TypeOK, WaitLoad, Goto, At
  <1>6. Counts'
    BY DEF Counts, TypeOK, WaitLoad, Goto, At
  <1>7. NoLostWakeup'
    BY DEF NoLostWakeup, Waiting, TypeOK, WaitLoad, Goto, At
  <1> QED
    BY <1>1, <1>2, <1>3, <1>4, <1>5, <1>6, <1>7

(* A timer fires. *)
LEMMA WaitExpireInv ==
    ASSUME WaitInv, NEW t \in Threads, WaitExpire(t)
    PROVE  WaitInv'
  <1> USE DEF WaitInv
  <1>0. AnyValue \in Values
    BY WaitAssumption DEF AnyValue
  <1>1. TypeOK'
    BY <1>0, WaitAssumption, ThreadsNat DEF TypeOK, Labels, Object, WaitExpire, Goto, At, locals
  <1>2. OneObject'
    BY WaitAssumption DEF OneObject, TypeOK, Object, WaitExpire, Goto, At, locals
  <1>3. NoneTwice'
    BY DEF NoneTwice, WaitExpire, Goto, At, locals
  <1>4. ListedWait' /\ ReadyWait'
    BY DEF ListedWait, ReadyWait, TypeOK, WaitExpire, Goto, At, locals
  <1>5. SleepersListed'
    BY DEF SleepersListed, Waiting, TypeOK, WaitExpire, Goto, At, locals
  <1>6. Counts'
    BY DEF Counts, TypeOK, WaitExpire, Goto, At, locals
  <1>7. NoLostWakeup'
    BY DEF NoLostWakeup, Waiting, TypeOK, WaitExpire, Goto, At, locals
  <1> QED
    BY <1>1, <1>2, <1>3, <1>4, <1>5, <1>6, <1>7

(* The context of a sleeper is done. *)
LEMMA ContextDoneInv ==
    ASSUME WaitInv, NEW t \in Threads, ContextDone(t)
    PROVE  WaitInv'
  <1> USE DEF WaitInv
  <1>0. AnyValue \in Values
    BY WaitAssumption DEF AnyValue
  <1>1. TypeOK'
    BY <1>0, WaitAssumption, ThreadsNat DEF TypeOK, Labels, Object, ContextDone, Goto, At
  <1>2. OneObject'
    BY WaitAssumption DEF OneObject, TypeOK, Object, ContextDone, Goto, At
  <1>3. NoneTwice'
    BY DEF NoneTwice, ContextDone, Goto, At
  <1>4. ListedWait' /\ ReadyWait'
    BY DEF ListedWait, ReadyWait, TypeOK, ContextDone, Goto, At
  <1>5. SleepersListed'
    BY DEF SleepersListed, Waiting, TypeOK, ContextDone, Goto, At
  <1>6. Counts'
    BY DEF Counts, TypeOK, ContextDone, Goto, At
  <1>7. NoLostWakeup'
    BY DEF NoLostWakeup, Waiting, TypeOK, ContextDone, Goto, At
  <1> QED
    BY <1>1, <1>2, <1>3, <1>4, <1>5, <1>6, <1>7

(* memory.atomic.notify is called with a small count. *)
LEMMA StartNotifyInv ==
    ASSUME WaitInv, NEW t \in Threads, NEW c \in {0, 1}, StartNotify(t, c)
    PROVE  WaitInv'
  <1> USE DEF WaitInv
  <1>0. AnyValue \in Values
    BY WaitAssumption DEF AnyValue
  <1>1. TypeOK'
    BY <1>0, WaitAssumption, ThreadsNat DEF TypeOK, Labels, Object, StartNotify, Goto, At
  <1>2. OneObject'
    BY WaitAssumption DEF OneObject, TypeOK, Object, StartNotify, Goto, At
  <1>3. NoneTwice'
    BY DEF NoneTwice, StartNotify, Goto, At
  <1>4. ListedWait' /\ ReadyWait'
    BY DEF ListedWait, ReadyWait, TypeOK, StartNotify, Goto, At
  <1>5. SleepersListed'
    BY DEF SleepersListed, Waiting, TypeOK, StartNotify, Goto, At
  <1>6. Counts'
    BY DEF Counts, TypeOK, StartNotify, Goto, At
  <1>7. NoLostWakeup'
    BY DEF NoLostWakeup, Waiting, TypeOK, StartNotify, Goto, At
  <1> QED
    BY <1>1, <1>2, <1>3, <1>4, <1>5, <1>6, <1>7

(* The value is replaced: whoever sleeps on the old one is another agent,  *)
(* so the count is above one.                                              *)
LEMMA StartPublishInv ==
    ASSUME WaitInv, NEW t \in Threads, NEW v \in Values, StartPublish(t, v)
    PROVE  WaitInv'
  <1> USE DEF WaitInv
  <1>0. AnyValue \in Values
    BY WaitAssumption DEF AnyValue
  <1>1. TypeOK'
    BY <1>0, WaitAssumption, ThreadsNat DEF TypeOK, Labels, Object, StartPublish, Goto, At
  <1>2. OneObject'
    BY WaitAssumption DEF OneObject, TypeOK, Object, StartPublish, Goto, At
  <1>3. NoneTwice'
    BY DEF NoneTwice, StartPublish, Goto, At
  <1>4. ListedWait' /\ ReadyWait'
    BY DEF ListedWait, ReadyWait, TypeOK, StartPublish, Goto, At
  <1>5. SleepersListed'
    BY DEF SleepersListed, Waiting, TypeOK, StartPublish, Goto, At
  <1>6. Counts'
    BY DEF Counts, TypeOK, StartPublish, Goto, At
  <1>7. NoLostWakeup'
    <2> SUFFICES ASSUME NEW u \in Threads, Waiting(u)' PROVE count'[t] > 1
      BY DEF NoLostWakeup, StartPublish, Goto, At, TypeOK
    <2>1. u # t
      BY DEF Waiting, StartPublish, Goto, At, TypeOK
    <2> QED
      BY <2>1, TwoThreads DEF StartPublish, TypeOK
  <1> QED
    BY <1>1, <1>2, <1>3, <1>4, <1>5, <1>6, <1>7

(* LoadOrStore: the entry is only written when there was none, and then    *)
(* nobody waits.                                                           *)
LEMMA WaitStoreInv ==
    ASSUME WaitInv, NEW t \in Threads, WaitStore(t)
    PROVE  WaitInv'
  <1> USE DEF WaitInv
  <1>1. TypeOK'
    BY DEF TypeOK, Labels, Object, WaitStore, LoadOrStore, Goto, At
  <1>2. OneObject'
    BY WaitAssumption DEF OneObject, TypeOK, Object, WaitStore, LoadOrStore, Goto, At
  <1>3. NoneTwice'
    BY DEF NoneTwice, WaitStore
  <1>4. ListedWait' /\ ReadyWait'
    BY DEF ListedWait, ReadyWait, TypeOK, WaitStore, Goto, At
  <1>5. SleepersListed'
    BY DEF SleepersListed, OneObject, Waiting, TypeOK, WaitStore, LoadOrStore, Goto, At
  <1>6. Counts'
    BY DEF Counts, TypeOK, WaitStore, Goto, At
  <1>7. NoLostWakeup'
    BY DEF NoLostWakeup, Waiting, TypeOK, WaitStore, Goto, At
  <1> QED
    BY <1>1, <1>2, <1>3, <1>4, <1>5, <1>6, <1>7

(* The waiter compared the value under the mutex: what it sleeps on is     *)
(* still there.                                                            *)
LEMMA WaitEnqueueInv ==
    ASSUME WaitInv, NEW t \in Threads, WaitEnqueue(t)
    PROVE  WaitInv'
  <1> USE DEF WaitInv
  <1>0. AnyValue \in Values /\ handle[t] = waiters /\ waiters \in Threads
    BY WaitAssumption DEF AnyValue, WaitEnqueue, At, OneObject, TypeOK, Object
  <1>1. CASE Unequal(t) \/ TooMany(t)
    <2>0. /\ pc[t] = "enqueue"
          /\ Return(t)
          /\ UNCHANGED <<value, waiters, list, ready>>
      BY <1>1 DEF WaitEnqueue, At
    <2> USE DEF Return, Goto, At
    <2>1. TypeOK'
      BY <1>0, <2>0 DEF TypeOK, Labels, Object
    <2>2. OneObject'
      BY <2>0, WaitAssumption DEF OneObject, TypeOK, Object
    <2>3. NoneTwice' /\ ListedWait' /\ ReadyWait'
      BY <2>0 DEF NoneTwice, ListedWait, ReadyWait, TypeOK
    <2>4. SleepersListed' /\ Counts'
      BY <2>0 DEF SleepersListed, Counts, Waiting, TypeOK
    <2>5. NoLostWakeup'
      BY <2>0 DEF NoLostWakeup, Waiting, TypeOK
    <2> QED
      BY <2>1, <2>2, <2>3, <2>4, <2>5
  <1>2. CASE ~ (Unequal(t) \/ TooMany(t))
    <2> DEFINE l == list[waiters]
    <2>0. /\ list' = [list EXCEPT ![waiters] = Append(l, t)]
          /\ pc' = [pc EXCEPT ![t] = "parked"]
          /\ pc[t] = "enqueue"
          /\ value = exp[t]
          /\ UNCHANGED <<value, waiters, ready, handle, exp, finite, count, canceled>>
      BY <1>0, <1>2 DEF WaitEnqueue, Unequal, Goto, At
    <2>1. l \in Seq(Threads) /\ Distinct(l) /\ ~ Occurs(t, l) /\ t \notin ready
      BY <1>0, <2>0 DEF TypeOK, NoneTwice, ListedWait, ReadyWait
    <2>2. /\ Append(l, t) \in Seq(Threads)
          /\ Distinct(Append(l, t))
          /\ \A y : Occurs(y, Append(l, t)) <=> Occurs(y, l) \/ y = t
      BY <2>1, AppendOccurs
    <2>3. \A w \in Threads : list'[w] = IF w = waiters THEN Append(l, t) ELSE list[w]
      BY <1>0, <2>0 DEF TypeOK
    <2> HIDE DEF l
    <2>4. TypeOK'
      BY <1>0, <2>0, <2>2 DEF TypeOK, Labels, Object
    <2>5. OneObject'
      BY <1>0, <2>0, <2>3 DEF OneObject, TypeOK
    <2>6. NoneTwice'
      BY <2>2, <2>3 DEF NoneTwice
    <2>7. ListedWait'
      <3> SUFFICES ASSUME NEW w \in Threads, NEW u \in Threads, Occurs(u, list'[w])
                   PROVE  pc'[u] \in {"parked", "expired"} /\ u \notin ready'
        BY DEF ListedWait
      <3>1. CASE u = t
        BY <2>0, <2>1, <3>1 DEF TypeOK
      <3>2. CASE u # t
        <4>1. Occurs(u, list[w])
          BY <2>2, <2>3, <3>2 DEF l
        <4> QED
          BY <2>0, <3>2, <4>1 DEF ListedWait, TypeOK
      <3> QED
        BY <3>1, <3>2
    <2>8. SleepersListed'
      <3> SUFFICES ASSUME NEW u \in Threads, Waiting(u)'
                   PROVE  Occurs(u, list'[waiters'])
        BY DEF SleepersListed
      <3>1. u # t => Occurs(u, l)
        BY <2>0 DEF SleepersListed, Waiting, At, TypeOK, l
      <3> QED
        BY <1>0, <2>0, <2>2, <2>3, <3>1
    <2>9. Counts' /\ ReadyWait'
      BY <2>0 DEF Counts, ReadyWait, TypeOK
    <2>10. NoLostWakeup'
      BY <2>0 DEF NoLostWakeup, Waiting, At, TypeOK
    <2> QED
      BY <2>4, <2>5, <2>6, <2>7, <2>8, <2>9, <2>10
  <1> QED
    BY <1>1, <1>2

(* A woken waiter is in no list any more. *)
LEMMA WaitWokenInv ==
    ASSUME WaitInv, NEW t \in Threads, WaitWoken(t)
    PROVE  WaitInv'
  <1> USE DEF WaitInv, WaitWoken, Return, Goto, At
  <1>0. AnyValue \in Values
    BY WaitAssumption DEF AnyValue
  <1>1. TypeOK'
    BY <1>0 DEF TypeOK, Labels, Object
  <1>2. OneObject'
    BY WaitAssumption DEF OneObject, TypeOK, Object
  <1>3. NoneTwice'
    BY DEF NoneTwice
  <1>4. ListedWait' /\ ReadyWait'
    BY DEF ListedWait, ReadyWait, TypeOK
  <1>5. SleepersListed' /\ Counts'
    BY DEF SleepersListed, Counts, Waiting, TypeOK
  <1>6. NoLostWakeup'
    BY DEF NoLostWakeup, Waiting, TypeOK
  <1> QED
    BY <1>1, <1>2, <1>3, <1>4, <1>5, <1>6

(* One that timed out leaves the list it is in, and no other waiter does.  *)
LEMMA WaitRemoveInv ==
    ASSUME WaitInv, NEW t \in Threads, WaitRemove(t)
    PROVE  WaitInv'
  <1> USE DEF WaitInv
  <1> DEFINE l == list[waiters]
             r == RemoveFirst(l, t)
  <1>0. AnyValue \in Values /\ handle[t] = waiters /\ waiters \in Threads
    BY WaitAssumption DEF AnyValue, WaitRemove, At, OneObject, TypeOK, Object
  <1>1. /\ list' = [list EXCEPT ![waiters] = r]
        /\ pc[t] = "expired"
        /\ ready' = ready \ {t}
        /\ UNCHANGED <<value, waiters>>
        /\ Return(t)
    BY <1>0 DEF WaitRemove, At
  <1>2. l \in Seq(Threads) /\ Distinct(l)
    BY <1>0 DEF TypeOK, NoneTwice
  <1>3. /\ r \in Seq(Threads)
        /\ Distinct(r)
        /\ \A y : Occurs(y, r) <=> Occurs(y, l) /\ y # t
    BY <1>2, RemoveFirstProperties
  <1>4. \A w \in Threads : list'[w] = IF w = waiters THEN r ELSE list[w]
    BY <1>0, <1>1 DEF TypeOK
  <1>5. \A w, u \in Threads : Occurs(u, list'[w]) <=> Occurs(u, list[w]) /\ u # t
    <2>1. \A w \in Threads : w # waiters => list[w] = <<>>
      BY DEF OneObject
    <2>2. \A u : ~ Occurs(u, <<>>)
      BY DEF Occurs
    <2> QED
      BY <1>3, <1>4, <2>1, <2>2
  <1> HIDE DEF l, r
  <1>6. TypeOK'
    BY <1>0, <1>1, <1>3 DEF TypeOK, Labels, Object, Return, Goto
  <1>7. OneObject'
    BY <1>0, <1>1, <1>4 DEF OneObject, TypeOK, Object, Return, Goto
  <1>8. NoneTwice'
    BY <1>3, <1>4 DEF NoneTwice
  <1>9. ListedWait'
    BY <1>1, <1>5 DEF ListedWait, TypeOK, Return, Goto
  <1>10. SleepersListed'
    BY <1>0, <1>1, <1>5 DEF SleepersListed, Waiting, At, TypeOK, Return, Goto
  <1>11. Counts' /\ ReadyWait'
    BY <1>1 DEF Counts, ReadyWait, TypeOK, Return, Goto
  <1>12. NoLostWakeup'
    BY <1>1 DEF NoLostWakeup, Waiting, At, TypeOK, Return, Goto
  <1> QED
    BY <1>6, <1>7, <1>8, <1>9, <1>10, <1>11, <1>12

(* Notify finds no entry only if nobody sleeps. *)
LEMMA NotifyLoadInv ==
    ASSUME WaitInv, NEW t \in Threads, NotifyLoad(t)
    PROVE  WaitInv'
  <1> USE DEF WaitInv, NotifyLoad, Return, Goto, At
  <1>0. AnyValue \in Values
    BY WaitAssumption DEF AnyValue
  <1>1. TypeOK'
    <2>1. CASE waiters = NoWaiters
      <3>1. Return(t) /\ UNCHANGED <<value, waiters, list, ready>>
        BY <2>1
      <3> QED
        BY <1>0, <3>1 DEF TypeOK, Labels, Object
    <2>2. CASE waiters # NoWaiters
      BY <2>2 DEF TypeOK, Labels, Object
    <2> QED
      BY <2>1, <2>2
  <1>2. OneObject'
    BY WaitAssumption DEF OneObject, TypeOK, Object
  <1>3. NoneTwice'
    BY DEF NoneTwice
  <1>4. ListedWait' /\ ReadyWait'
    BY DEF ListedWait, ReadyWait, TypeOK
  <1>5. SleepersListed' /\ Counts'
    BY DEF SleepersListed, Counts, Waiting, TypeOK
  <1>6. CASE waiters = NoWaiters
    <2>1. \A u \in Threads : ~ Waiting(u)'
      BY <1>6 DEF Waiting, OneObject, TypeOK
    <2>2. NoLostWakeup'
      BY <2>1 DEF NoLostWakeup
    <2> QED
      BY <1>1, <1>2, <1>3, <1>4, <1>5, <2>2
  <1>7. CASE waiters # NoWaiters
    <2>1. NoLostWakeup'
      BY <1>7 DEF NoLostWakeup, Waiting, TypeOK
    <2> QED
      BY <1>1, <1>2, <1>3, <1>4, <1>5, <2>1
  <1> QED
    BY <1>6, <1>7

(* Notify empties the list if its count is the number of agents, and       *)
(* otherwise it is not the one a lost wake-up would be blamed on.          *)
LEMMA NotifyWakeInv ==
    ASSUME WaitInv, NEW t \in Threads, NotifyWake(t)
    PROVE  WaitInv'
  <1> USE DEF WaitInv
  <1> DEFINE l == list[waiters]
             n == Woken(t)
             r == SubSeq(l, n + 1, Len(l))
             out == {l[i] : i \in 1 .. n}
  <1>0. AnyValue \in Values /\ handle[t] = waiters /\ waiters \in Threads
    BY WaitAssumption DEF AnyValue, NotifyWake, At, OneObject, TypeOK, Object
  <1>1. /\ list' = [list EXCEPT ![waiters] = r]
        /\ pc[t] = "notify"
        /\ ready' = ready \cup out
        /\ UNCHANGED <<value, waiters>>
        /\ Return(t)
    BY <1>0 DEF NotifyWake, At
  <1>2. l \in Seq(Threads) /\ Distinct(l) /\ Len(l) \in Nat /\ count[t] \in Nat
    BY <1>0 DEF TypeOK, NoneTwice
  <1>3. n = IF count[t] < Len(l) THEN count[t] ELSE Len(l)
    BY <1>0 DEF Woken
  <1> HIDE DEF n
  <1>4. n \in 0 .. Len(l)
    BY <1>2, <1>3
  <1>5. /\ r \in Seq(Threads)
        /\ Distinct(r)
        /\ \A y : Occurs(y, r) <=> Occurs(y, l) /\ y \notin out
    BY <1>2, <1>4, SuffixOccurs
  <1>6. \A u \in out : Occurs(u, l) /\ u \in Threads
    BY <1>2, <1>4 DEF Occurs
  <1> HIDE DEF out, r
  <1>7. \A w \in Threads : list'[w] = IF w = waiters THEN r ELSE list[w]
    BY <1>0, <1>1 DEF TypeOK
  <1>8. \A w, u \in Threads :
           Occurs(u, list'[w]) <=> Occurs(u, list[w]) /\ u \notin out
    <2>1. \A w \in Threads : w # waiters => list[w] = <<>>
      BY DEF OneObject
    <2>2. \A u : ~ Occurs(u, <<>>)
      BY DEF Occurs
    <2> QED
      BY <1>5, <1>7, <2>1, <2>2
  <1>9. \A u \in out : u # t
    BY <1>0, <1>1, <1>6 DEF ListedWait
  <1>10. TypeOK'
    BY <1>0, <1>1, <1>5, <1>6 DEF TypeOK, Labels, Object, Return, Goto
  <1>11. OneObject'
    BY <1>0, <1>1, <1>7 DEF OneObject, TypeOK, Object, Return, Goto
  <1>12. NoneTwice'
    BY <1>5, <1>7 DEF NoneTwice
  <1>13. ListedWait'
    BY <1>1, <1>8 DEF ListedWait, TypeOK, Return, Goto
  <1>14. SleepersListed'
    BY <1>0, <1>1, <1>8 DEF SleepersListed, Waiting, At, TypeOK, Return, Goto
  <1>15. Counts' /\ ReadyWait'
    <2>1. \A u \in out : pc[u] \in {"parked", "expired"}
      BY <1>0, <1>6 DEF ListedWait, l
    <2> QED
      BY <1>1, <1>9, <2>1 DEF Counts, ReadyWait, TypeOK, Return, Goto
  <1>16. NoLostWakeup'
    <2>1. CASE count[t] > 1
      <3>1. count[t] = Cardinality(Threads)
        BY <1>1, <2>1 DEF Counts
      <3>2. n = Len(l)
        BY <1>2, <1>3, <3>1, ListFits, ThreadsNat
      <3>3. \A u : Occurs(u, l) => u \in out
        BY <1>2, <3>2 DEF Occurs, out
      <3>4. \A u \in Threads : ~ Waiting(u)'
        BY <1>1, <3>3 DEF SleepersListed, Waiting, At, TypeOK, Return, Goto
      <3> QED
        BY <3>4 DEF NoLostWakeup
    <2>2. CASE ~ (count[t] > 1)
      BY <1>1, <2>2 DEF NoLostWakeup, Waiting, At, TypeOK, Return, Goto
    <2> QED
      BY <2>1, <2>2
  <1> QED
    BY <1>10, <1>11, <1>12, <1>13, <1>14, <1>15, <1>16

(* Nothing happens to WaitInv if nothing happens. *)
LEMMA StutterWaitInv ==
    ASSUME WaitInv, UNCHANGED vars
    PROVE  WaitInv'
  <1> USE DEF WaitInv, vars, locals
  <1>1. TypeOK' /\ OneObject' /\ NoneTwice'
    BY DEF TypeOK, OneObject, NoneTwice
  <1>2. ListedWait' /\ ReadyWait' /\ SleepersListed' /\ Counts' /\ NoLostWakeup'
    BY DEF ListedWait, ReadyWait, SleepersListed, Counts, NoLostWakeup, Waiting, At
  <1> QED
    BY <1>1, <1>2

(* Every step of a waiter, a notifier or a timer keeps WaitInv. *)
LEMMA NextWaitInv ==
    ASSUME WaitInv, [Next]_vars
    PROVE  WaitInv'
  <1>1. ASSUME NEW t \in Threads, Step(t) PROVE WaitInv'
    BY <1>1, WaitLoadInv, WaitStoreInv, WaitEnqueueInv, WaitWokenInv,
       WaitRemoveInv, NotifyLoadInv, NotifyWakeInv DEF Step
  <1>2. ASSUME NEW t \in Threads, Choice(t) PROVE WaitInv'
    BY <1>2, StartPublishInv, StartWaitInv, StartNotifyInv, WaitExpireInv,
       ContextDoneInv DEF Choice
  <1> QED
    BY <1>1, <1>2, StutterWaitInv DEF Next

(* The waiters' list and the goroutines that sleep, notify or time out     *)
(* agree after every step of any of them: the inductive invariant.         *)
THEOREM WaitInvariance == Spec => []WaitInv
  <1>1. WaitInv /\ [Next]_vars => WaitInv'
    BY NextWaitInv
  <1> QED
    BY <1>1, InitWaitInv, PTL DEF Spec

(* The variables of every agent have their types: a handle is the entry or *)
(* none and a list holds agents only.                                      *)
THEOREM WaitTypeCorrect == Spec => []TypeOK
  <1>1. WaitInv => TypeOK
    BY DEF WaitInv
  <1> QED
    BY <1>1, WaitInvariance, PTL

(* Whatever the interleaving of waits, timeouts and notifications of any   *)
(* number of agents, a waiter sleeps on a value that is gone only as long  *)
(* as the one that replaced it still has to notify.                        *)
THEOREM NoWakeupIsLost == Spec => []NoLostWakeup
  <1>1. WaitInv => NoLostWakeup
    BY DEF WaitInv
  <1> QED
    BY <1>1, WaitInvariance, PTL

(* Whoever sleeps is once in the list Notify will find, and nobody else is *)
(* in any list but a waiter about to remove itself.                        *)
THEOREM WaitersListedOnce == Spec => []ListExact
  <1>1. ASSUME WaitInv PROVE ListExact
    <2> USE <1>1 DEF WaitInv
    <2>1. ASSUME NEW t \in Threads, Waiting(t)
          PROVE  /\ waiters # NoWaiters
                 /\ Cardinality({i \in DOMAIN list[waiters] : list[waiters][i] = t}) = 1
      <3> DEFINE l == list[waiters]
      <3>1. waiters # NoWaiters /\ waiters \in Threads
        BY <2>1 DEF OneObject, Waiting, At, TypeOK, Object
      <3>2. l \in Seq(Threads) /\ Distinct(l) /\ Occurs(t, l)
        BY <2>1, <3>1 DEF TypeOK, NoneTwice, SleepersListed
      <3>3. DOMAIN l = 1 .. Len(l)
        BY <3>2, LenProperties
      <3>4. PICK k \in 1 .. Len(l) : l[k] = t
        BY <3>2 DEF Occurs
      <3>5. {i \in DOMAIN l : l[i] = t} = {k}
        BY <3>2, <3>3, <3>4 DEF Distinct
      <3> QED
        BY <3>1, <3>5, FS_Singleton
    <2>2. ASSUME NEW w \in Threads, NEW t \in Threads, InList(t, list[w])
          PROVE  w = waiters /\ (Waiting(t) \/ At(t, "expired"))
      <3>1. list[w] \in Seq(Threads)
        BY DEF TypeOK
      <3>2. Occurs(t, list[w])
        BY <2>2, <3>1, LenProperties DEF InList, Occurs
      <3>3. w = waiters
        BY <3>2 DEF OneObject, Occurs
      <3> QED
        BY <3>2, <3>3 DEF ListedWait, Waiting, At
    <2> QED
      BY <2>1, <2>2 DEF ListExact
  <1> QED
    BY <1>1, WaitInvariance, PTL


-----------------------------------------------------------------------------
(* What a run keeps: the module is the one of its profile, and so are the  *)
(* functions but for the body of the first, which grows by instructions    *)
(* the validator accepts and is complete when it is compiled.              *)
Alphabet == Profiles[profile].alphabet \cup Range(Profiles[profile].prefix)

OfProfile ==
    LET p == Profiles[profile]
    IN  /\ profile \in DOMAIN Profiles
        /\ {"functions", "mod"} \subseteq DOMAIN program
        /\ program.mod = p.mod
        /\ DOMAIN program.functions = DOMAIN p.functions
        /\ \A n \in DOMAIN p.functions \ {1} : Func(n) = p.functions[n]
        /\ DecodedFunction(Func(1))
        /\ BodyOf(1) \in Seq(Alphabet)

Checked ==
    /\ fnPhase = "body" => Reaches(program.mod, Func(1), checked)
    /\ fnPhase = "valid" => Approved(program.mod, Func(1))

CompilesInv == OfProfile /\ Checked /\ Compiles

(* The constants of a run. *)
LEMMA ProfileIs ==
    ASSUME profile \in DOMAIN Profiles
    PROVE  LET p == Profiles[profile]
           IN  /\ DecodedModule(p.mod)
               /\ 1 \in DOMAIN p.functions
               /\ p.functions[1].body = <<>>
               /\ \A k \in DOMAIN p.functions : DecodedFunction(p.functions[k])
               /\ \A k \in DOMAIN p.functions \ {1} : Accepted(p.mod, p.functions[k])
               /\ \A i \in Alphabet : Decoded(i)
  BY ProfilesAssumption, Zenon DEF Alphabet

(* Function 1 with another body. *)
LEMMA OtherBody ==
    ASSUME NEW f, DecodedFunction(f), NEW S, NEW b \in Seq(S), \A i \in S : Decoded(i)
    PROVE  LET g == [f EXCEPT !.body = b]
           IN  DecodedFunction(g) /\ SameTypes(f, g) /\ g.body = b
  <1> DEFINE g == [f EXCEPT !.body = b]
  <1>0. {"params", "results", "locals", "body"} \subseteq DOMAIN f
    BY Zenon DEF DecodedFunction
  <1>1. g.params = f.params /\ g.results = f.results /\ g.locals = f.locals /\ g.body = b /\ DOMAIN g = DOMAIN f
    BY <1>0
  <1> HIDE DEF g
  <1>2. Len(b) \in Nat /\ DOMAIN b = 1 .. Len(b) /\ \A n \in DOMAIN b : b[n] \in S
    OBVIOUS
  <1>3. DecodedFunction(g)
    BY <1>0, <1>1, <1>2, Zenon DEF DecodedFunction
  <1>4. SameTypes(f, g)
    BY <1>1, Zenon DEF SameTypes
  <1> QED
    BY <1>1, <1>3, <1>4 DEF g

(* Function 1 gets another body. *)
LEMMA OfProfileNext ==
    ASSUME OfProfile, NEW b \in Seq(Alphabet), program' = [program EXCEPT !.functions[1].body = b], profile' = profile
    PROVE  /\ OfProfile'
           /\ SameTypes(Func(1), Func(1)') /\ BodyOf(1)' = b
           /\ program'.mod = program.mod
  <1> DEFINE p == Profiles[profile]
             f == Func(1)
             g == [f EXCEPT !.body = b]
  <1>1. 1 \in DOMAIN p.functions /\ \A i \in Alphabet : Decoded(i)
    BY ProfileIs, Zenon DEF OfProfile
  <1>2. /\ {"functions", "mod"} \subseteq DOMAIN program
        /\ program.mod = p.mod
        /\ DOMAIN program.functions = DOMAIN p.functions
        /\ \A n \in DOMAIN p.functions \ {1} : program.functions[n] = p.functions[n]
    BY Zenon DEF OfProfile, Func
  <1>3. DecodedFunction(f)
    BY Zenon DEF OfProfile
  <1>4. DecodedFunction(g) /\ SameTypes(f, g) /\ g.body = b
    BY <1>1, <1>3, OtherBody
  <1>5. program' = [program EXCEPT !.functions = [program.functions EXCEPT ![1] = g]]
    BY DEF Func
  <1> HIDE DEF g
  <1>6. /\ program'.functions = [program.functions EXCEPT ![1] = g] /\ program'.mod = program.mod
        /\ DOMAIN program' = DOMAIN program
    BY <1>2, <1>5
  <1>7. /\ DOMAIN program'.functions = DOMAIN p.functions
        /\ program'.functions[1] = g
        /\ \A n \in DOMAIN p.functions \ {1} : program'.functions[n] = p.functions[n]
    BY <1>1, <1>2, <1>6
  <1>8. Func(1)' = g /\ BodyOf(1)' = b /\ Alphabet' = Alphabet
    BY <1>4, <1>7 DEF Func, BodyOf, Alphabet
  <1>9. OfProfile'
    BY <1>2, <1>4, <1>6, <1>7, <1>8 DEF OfProfile, Func
  <1> QED
    BY <1>4, <1>6, <1>8, <1>9

(* The profiles begin with an empty body, which the validator has read. *)
LEMMA BeginsCompiling ==
    ASSUME FuncsInit
    PROVE  CompilesInv
  <1> DEFINE p == Profiles[profile]
  <1>0. profile \in DOMAIN Profiles /\ program = [functions |-> p.functions, mod |-> p.mod]
    BY DEF FuncsInit
  <1>1. 1 \in DOMAIN p.functions /\ p.functions[1].body = <<>> /\ DecodedFunction(p.functions[1])
    BY <1>0, ProfileIs, Zenon
  <1>2. Func(1) = p.functions[1] /\ BodyOf(1) = <<>>
    BY <1>0, <1>1 DEF Func, BodyOf
  <1>3. OfProfile
    <2>1. <<>> \in Seq(Alphabet)
      OBVIOUS
    <2>2. {"functions", "mod"} \subseteq DOMAIN program /\ program.mod = p.mod /\ program.functions = p.functions
      BY <1>0
    <2> QED
      BY <1>0, <1>1, <1>2, <2>1, <2>2, Zenon DEF OfProfile, Func
  <1>4. Checked
    <2>1. Reaches(program.mod, Func(1), reset(Func(1)))
      BY <1>2, ReachesFirst DEF BodyOf
    <2>2. fnPhase = "body" /\ checked = reset(Func(1))
      BY DEF FuncsInit
    <2> QED
      BY <2>1, <2>2 DEF Checked
  <1>5. Compiles
    BY DEF FuncsInit, Compiles
  <1> QED
    BY <1>3, <1>4, <1>5 DEF CompilesInv

(* One instruction more, or none when it is rejected. *)
LEMMA ValidatesNext ==
    ASSUME CompilesInv, NEW i \in Alphabet, ValidateNext(i)
    PROVE  CompilesInv'
  <1> DEFINE mod == program.mod
             f == Func(1)
             v == Validate(checked, mod, f, i)
             rejected == v.status # "ok"
             b == IF rejected THEN <<>> ELSE Append(BodyOf(1), i)
  <1>0. fnPhase = "body" /\ Validated(i, v) /\ profile' = profile /\ fnCode' = fnCode
    BY Zenon DEF ValidateNext
  <1>1. OfProfile /\ Reaches(mod, f, checked) /\ Compiles /\ BodyOf(1) \in Seq(Alphabet)
    BY <1>0 DEF CompilesInv, Checked, OfProfile
  <1>2. program' = [program EXCEPT !.functions[1].body = b]
    BY <1>0 DEF Validated, BodyOf, Func
  <1>3. /\ fnPhase' = IF rejected THEN IF v.status = "panic" THEN "panicked" ELSE "rejected"
                      ELSE IF v.cs = <<>> THEN "valid" ELSE "body"
        /\ checked' = IF rejected \/ v.cs = <<>> THEN reset(Func(1)) ELSE v
    BY <1>0, Zenon DEF Validated
  <1>4. b \in Seq(Alphabet)
    BY <1>1
  <1>5. OfProfile' /\ SameTypes(f, Func(1)') /\ BodyOf(1)' = b /\ program'.mod = mod
    <2> HIDE DEF b
    <2> QED
      BY <1>0, <1>1, <1>2, <1>4, OfProfileNext
  <1>6. Checked'
    <2>1. CASE rejected
      <3>1. fnPhase' \notin {"body", "valid"}
        <4> HIDE DEF v
        <4> QED
          BY <1>3, <2>1
      <3> QED
        BY <3>1 DEF Checked
    <2>2. CASE v.status = "ok"
      <3>1. b = Append(f.body, i) /\ Func(1)'.body = Append(f.body, i) /\ f.body \in Seq(Alphabet)
        BY <1>1, <1>5, <2>2 DEF BodyOf
      <3>2. Reaches(mod, Func(1)', v)
        BY <1>1, <1>5, <2>2, <3>1, ReachesNext
      <3> HIDE DEF v
      <3>3. CASE v.cs = <<>>
        <4>1. fnPhase' = "valid"
          BY <1>3, <2>2, <3>3
        <4>2. Approved(mod, Func(1)')
          BY <3>2, <3>3 DEF Approved
        <4> QED
          BY <1>5, <4>1, <4>2 DEF Checked
      <3>4. CASE v.cs # <<>>
        <4>1. fnPhase' = "body" /\ checked' = v
          BY <1>3, <2>2, <3>4
        <4> QED
          BY <1>5, <3>2, <4>1 DEF Checked
      <3> QED
        BY <3>3, <3>4
    <2> QED
      BY <2>1, <2>2
  <1>7. Compiles'
    BY <1>0, <1>1 DEF Compiles
  <1> QED
    BY <1>5, <1>6, <1>7 DEF CompilesInv

(* CompileFunctions compiles only what was approved: function 1 in this run and *)
(* the others in the profile's assumption.                                       *)
LEMMA CompilesNext ==
    ASSUME CompilesInv, CompileFunctions
    PROVE  CompilesInv'
  <1> DEFINE p == Profiles[profile]
             code(n) == lowerIR(compile(program.mod, Func(n), n, p.ensureTermination))
  <1>0. OfProfile /\ Checked
    BY DEF CompilesInv
  <1>1. /\ fnPhase = "valid" /\ fnPhase' = "compiled" /\ profile' = profile /\ program' = program
        /\ fnCode' = [n \in DOMAIN program.functions |-> code(n)]
    BY Zenon DEF CompileFunctions
  <1>2. /\ DecodedModule(program.mod)
        /\ \A n \in DOMAIN program.functions : DecodedFunction(Func(n))
        /\ \A n \in DOMAIN program.functions \ {1} : Accepted(program.mod, Func(n))
    <2>1. profile \in DOMAIN Profiles
      BY <1>0, Zenon DEF OfProfile
    <2> HIDE DEF p
    <2>2. /\ DecodedModule(p.mod)
          /\ \A k \in DOMAIN p.functions : DecodedFunction(p.functions[k])
          /\ \A k \in DOMAIN p.functions \ {1} : Accepted(p.mod, p.functions[k])
      BY <2>1, ProfileIs, Zenon DEF p
    <2>3. /\ program.mod = p.mod /\ DOMAIN program.functions = DOMAIN p.functions
          /\ \A n \in DOMAIN p.functions \ {1} : Func(n) = p.functions[n]
          /\ DecodedFunction(Func(1))
      BY <1>0, Zenon DEF OfProfile, p
    <2> QED
      BY <2>2, <2>3
  <1>3. Approved(program.mod, Func(1))
    BY <1>0, <1>1 DEF Checked
  <1>4. ASSUME NEW n \in DOMAIN program.functions
        PROVE  Complete(code(n))
    <2>1. CASE n = 1
      BY <1>2, <1>3, <2>1, ApprovedCompiles
    <2>2. CASE n # 1
      BY <1>2, <2>2, AcceptedCompiles
    <2> QED
      BY <2>1, <2>2
  <1> HIDE DEF code
  <1>5. Compiles'
    BY <1>1, <1>4 DEF Compiles
  <1>6. OfProfile'
    BY <1>0, <1>1 DEF OfProfile, Alphabet, BodyOf, Func
  <1>7. Checked'
    BY <1>1 DEF Checked
  <1> QED
    BY <1>5, <1>6, <1>7 DEF CompilesInv

(* Whatever the guest does once it is compiled, its code stays. *)
LEMMA CompiledStays ==
    ASSUME CompilesInv, UNCHANGED <<profile, program, fnCode>>,
           (UNCHANGED <<fnPhase, checked>>) \/ fnPhase' \notin {"body", "valid"}
    PROVE  CompilesInv'
  <1>1. OfProfile' /\ Compiles'
    BY DEF CompilesInv, OfProfile, Alphabet, BodyOf, Func, Compiles
  <1>2. Checked'
    BY DEF CompilesInv, Checked, Func
  <1> QED
    BY <1>1, <1>2 DEF CompilesInv

(* Every step of the specification keeps the invariant. *)
LEMMA CompilesStep ==
    ASSUME CompilesInv, [FuncsNext]_funcVars
    PROVE  CompilesInv'
  <1>1. CASE \E i \in Alphabet : ValidateNext(i)
    BY <1>1, ValidatesNext
  <1>2. CASE CompileFunctions
    BY <1>2, CompilesNext
  <1>3. CASE InstantiateModule
    <2>1. (UNCHANGED <<profile, program, fnCode>>) /\ fnPhase' \notin {"body", "valid"}
      BY <1>3 DEF InstantiateModule
    <2> QED
      BY <2>1, CompiledStays
  <1>4. CASE \E args \in Profiles[profile].args : CallExport(args)
    <2>1. (UNCHANGED <<profile, program, fnCode>>) /\ fnPhase' \notin {"body", "valid"}
      BY <1>4 DEF CallExport
    <2> QED
      BY <2>1, CompiledStays
  <1>5. CASE ExecuteNext
    BY <1>5, CompiledStays DEF ExecuteNext
  <1>6. CASE CloseModule
    BY <1>6, CompiledStays DEF CloseModule
  <1>7. CASE UNCHANGED funcVars
    BY <1>7, CompiledStays DEF funcVars
  <1> QED
    BY <1>1, <1>2, <1>3, <1>4, <1>5, <1>6, <1>7, Zenon DEF FuncsNext, Alphabet

(* A function the validator accepts compiles, in every run of whatever     *)
(* functions and modules.                                                  *)
THEOREM ValidatedCompiles == FuncsSpec => []Compiles
  <1>1. FuncsInit => CompilesInv
    BY BeginsCompiling
  <1>2. CompilesInv /\ [FuncsNext]_funcVars => CompilesInv'
    BY CompilesStep
  <1>3. CompilesInv => Compiles
    BY DEF CompilesInv
  <1> QED
    BY <1>1, <1>2, <1>3, PTL DEF FuncsSpec
============================================================================
