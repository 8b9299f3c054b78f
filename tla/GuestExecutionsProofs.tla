------------------------ MODULE GuestExecutionsProofs ------------------------
(* Proofs that GuestExecutions frees no memory a call in flight can reach,  *)
(* frees each once, releases exactly the modules that nothing open reaches, *)
(* and leaves nothing that is released unfreed when no call is in flight.   *)
(* IInv (GuestExecutionsInv) is inductive: one lemma per conjunct shows     *)
(* that every action of a thread t preserves it.                            *)
EXTENDS GuestExecutionsInv, TLAPS, FiniteSetTheorems, SequenceTheorems

USE ConstantsAssumption DEF At, Goto, epochVars, graphVars, memVars, workVars, threadVars

(* An action of t touches the locals of no other thread. *)
OthersSame(t) ==
    \A u \in Threads \ {t} :
        /\ pc'[u] = pc[u] /\ entry'[u] = entry[u] /\ epoch'[u] = epoch[u]
        /\ target'[u] = target[u] /\ resume'[u] = resume[u]
        /\ freeing'[u] = freeing[u]

(* t pins what it pinned before. *)
PinKept(t) ==
    (Pinned(t)' <=> Pinned(t)) /\ (Pinned(t) => epoch'[t] = epoch[t])

(* EndExecution returns to one of its three callers. *)
LEMMA AfterEndLabel ==
  \A l \in Unpinning : AfterEnd(l) \in {"load", "fail", "idle"}
  BY DEF Unpinning, AfterEnd

(***************************************************************************)
(* What the actions on epochs do, pointwise.                               *)
(***************************************************************************)
(* BeginFirst makes the first epoch, with no pin, current. *)
LEMMA BeginFirstEffect ==
  ASSUME NEW t \in Threads, EpochTypeOK, EpochInv, BeginFirst(t)
  PROVE  /\ EpochTypeOK'
         /\ current = 0 /\ current' = 1 /\ queue' = queue
         /\ Len(active') = 1 /\ active'[1] = 0
         /\ Len(retired') = 1 /\ retired'[1] = {}
  <1>1. current = 0 /\ Len(active) = 0 /\ Len(retired) = 0
    BY DEF BeginFirst, EpochInv
  <1>2. active' = Append(active, 0) /\ active \in Seq(Nat)
    BY DEF BeginFirst, EpochTypeOK
  <1>3. retired' = Append(retired, {}) /\ retired \in Seq(SUBSET Owners)
    BY DEF BeginFirst, EpochTypeOK
  <1>4. current' = Len(active) + 1 /\ queue' = queue /\ queue \in Seq(Nat)
    BY DEF BeginFirst, EpochTypeOK
  <1>5. active' \in Seq(Nat) /\ Len(active') = 1 /\ active'[1] = 0
    BY ONLY <1>1, <1>2
  <1>6. retired' \in Seq(SUBSET Owners) /\ Len(retired') = 1 /\ retired'[1] = {}
    BY ONLY <1>1, <1>3
  <1> QED BY <1>1, <1>4, <1>5, <1>6 DEF EpochTypeOK

(* BeginPin adds one to the count of the epoch of t, nothing else. *)
LEMMA PinEffect ==
  ASSUME NEW t \in Threads, EpochTypeOK, EpochInv, PinOK(t), BeginPin(t)
  PROVE  /\ EpochTypeOK' /\ UNCHANGED <<current, retired, queue>>
         /\ epoch[t] \in 1 .. current
         /\ Len(active') = Len(active)
         /\ \A e \in 1 .. current :
              active'[e] = IF e = epoch[t] THEN active[e] + 1 ELSE active[e]
  <1>1. epoch[t] \in 1 .. current /\ current = Len(active)
    BY DEF BeginPin, PinOK, EpochInv
  <1>2. active' = [active EXCEPT ![epoch[t]] = @ + 1] /\ active \in Seq(Nat)
    BY DEF BeginPin, EpochTypeOK
  <1>3. /\ active' \in Seq(Nat) /\ Len(active') = Len(active)
        /\ \A e \in 1 .. current :
              active'[e] = IF e = epoch[t] THEN active[e] + 1 ELSE active[e]
    BY ONLY <1>1, <1>2
  <1> QED BY <1>1, <1>3 DEF BeginPin, EpochTypeOK

(* The epochs of threads that pin are counted, so active does not wrap. *)
LEMMA UnpinEffect ==
  ASSUME NEW t \in Threads, EpochTypeOK, EpochInv, PinInv, EndUnpin(t)
  PROVE  /\ EpochTypeOK' /\ UNCHANGED <<current, retired, queue>>
         /\ epoch[t] \in 1 .. current
         /\ t \in Pinners(epoch[t])
         /\ Len(active') = Len(active)
         /\ \A e \in 1 .. current :
              active'[e] = IF e = epoch[t] THEN active[e] - 1 ELSE active[e]
  <1>1. /\ epoch[t] \in 1 .. current /\ current = Len(active)
        /\ t \in Pinners(epoch[t])
    BY DEF EndUnpin, PinInv, PinOK, Pinned, Pinners, EpochInv
  <1>2. active[epoch[t]] = Cardinality(Pinners(epoch[t]))
    BY <1>1 DEF PinInv
  <1>3. IsFiniteSet(Pinners(epoch[t]))
    BY FS_Subset DEF Pinners
  <1>4. active[epoch[t]] - 1 \in Nat
    <2>1. Cardinality(Pinners(epoch[t])) \in Nat /\ Cardinality(Pinners(epoch[t])) # 0
      BY <1>1, <1>3, FS_EmptySet, FS_CardinalityType
    <2> QED BY ONLY <1>2, <2>1
  <1>5. active' = [active EXCEPT ![epoch[t]] = @ - 1] /\ active \in Seq(Nat)
    BY DEF EndUnpin, EpochTypeOK
  <1>6. /\ active' \in Seq(Nat) /\ Len(active') = Len(active)
        /\ \A e \in 1 .. current :
              active'[e] = IF e = epoch[t] THEN active[e] - 1 ELSE active[e]
    BY ONLY <1>1, <1>4, <1>5
  <1> QED BY <1>1, <1>6 DEF EndUnpin, EpochTypeOK

(* Drain takes the first epoch not drained, nobody pins it. *)
LEMMA DrainEffect ==
  ASSUME NEW t \in Threads, EpochTypeOK, EpochInv, Drain(t)
  PROVE  /\ EpochTypeOK' /\ UNCHANGED <<current, active>>
         /\ Head(queue) = Base /\ Base \in 1 .. current /\ Base < current
         /\ active[Base] = 0
         /\ Len(queue') = Len(queue) - 1
         /\ \A i \in 1 .. Len(queue') : queue'[i] = queue[i + 1]
         /\ Len(retired') = Len(retired)
         /\ \A e \in 1 .. current :
              retired'[e] = IF e = Base THEN {} ELSE retired[e]
         /\ freeing' = [freeing EXCEPT ![t] = @ \cup retired[Base]]
  <1>1. queue # <<>> /\ queue \in Seq(Nat) /\ active[Head(queue)] = 0
    BY DEF Drain, HeadIdle, EpochTypeOK
  <1>2. Len(queue) \in Nat \ {0} /\ Head(queue) = queue[1]
    BY ONLY <1>1
  <1>3. Head(queue) = Base /\ Base \in 1 .. current /\ Base < current
    BY <1>2 DEF EpochInv, EpochTypeOK, Base
  <1>4. /\ queue' \in Seq(Nat)
        /\ Len(queue') = Len(queue) - 1
        /\ \A i \in 1 .. Len(queue') : queue'[i] = queue[i + 1]
    <2>1. queue' = Tail(queue)
      BY DEF Drain
    <2> QED BY ONLY <1>1, <2>1
  <1>5. /\ retired' \in Seq(SUBSET Owners) /\ Len(retired') = Len(retired)
        /\ \A e \in 1 .. current :
              retired'[e] = IF e = Base THEN {} ELSE retired[e]
    <2>1. /\ retired' = [retired EXCEPT ![Base] = {}]
          /\ retired \in Seq(SUBSET Owners) /\ Len(retired) = current
      BY <1>3 DEF Drain, EpochTypeOK, EpochInv
    <2> QED BY ONLY <1>3, <2>1
  <1> QED BY <1>1, <1>3, <1>4, <1>5 DEF Drain, EpochTypeOK

(* Seal gives the batch to the epoch it seals and makes the next one       *)
(* current.                                                                *)
LEMMA SealEffect ==
  ASSUME NEW t \in Threads, EpochTypeOK, EpochInv, batch \in SUBSET Owners, Seal(t)
  PROVE  LET sealed == current' - 1
         IN  /\ EpochTypeOK' /\ current' \in Nat
             /\ current = 0 => current' = 2
             /\ current # 0 => current' = current + 1
             /\ current' = Len(active')
             /\ \A e \in 1 .. current : active'[e] = active[e]
             /\ \A e \in 1 .. current' : e > current => active'[e] = 0
             /\ Len(retired') = Len(active')
             /\ \A e \in 1 .. sealed :
                  retired'[e] = IF e = sealed THEN batch ELSE retired[e]
             /\ retired'[current'] = {}
             /\ Len(queue') = Len(queue) + 1
             /\ \A i \in 1 .. Len(queue) : queue'[i] = queue[i]
             /\ queue'[Len(queue) + 1] = sealed
  <1>1. /\ active \in Seq(Nat) /\ retired \in Seq(SUBSET Owners)
        /\ queue \in Seq(Nat) /\ Len(active) = current
        /\ Len(retired) = current /\ current \in Nat
    BY DEF EpochTypeOK, EpochInv
  <1>2. CASE current = 0
    <2>1. /\ active' = Append(Append(active, 0), 0)
          /\ retired' = Append(Append(retired, batch), {})
          /\ queue' = Append(queue, Len(active) + 1)
          /\ current' = Len(active')
      BY <1>2 DEF Seal
    <2>2. /\ active' \in Seq(Nat) /\ Len(active') = 2
          /\ active'[1] = 0 /\ active'[2] = 0
      BY ONLY <1>1, <1>2, <2>1
    <2>3. /\ retired' \in Seq(SUBSET Owners) /\ Len(retired') = 2
          /\ retired'[1] = batch /\ retired'[2] = {}
      BY ONLY <1>1, <1>2, <2>1, batch \in SUBSET Owners
    <2>4. /\ queue' \in Seq(Nat) /\ Len(queue') = Len(queue) + 1
          /\ \A i \in 1 .. Len(queue) : queue'[i] = queue[i]
          /\ queue'[Len(queue) + 1] = 1
      BY ONLY <1>1, <1>2, <2>1
    <2> QED BY <1>1, <1>2, <2>1, <2>2, <2>3, <2>4 DEF EpochTypeOK
  <1>3. CASE current # 0
    <2>1. /\ active' = Append(active, 0)
          /\ retired' = Append([retired EXCEPT ![current] = batch], {})
          /\ queue' = Append(queue, current)
          /\ current' = Len(active')
      BY <1>3 DEF Seal
    <2>2. /\ active' \in Seq(Nat) /\ Len(active') = current + 1
          /\ active'[current + 1] = 0
          /\ \A e \in 1 .. current : active'[e] = active[e]
      BY ONLY <1>1, <2>1
    <2>3. /\ retired' \in Seq(SUBSET Owners) /\ Len(retired') = current + 1
          /\ \A e \in 1 .. current :
                retired'[e] = IF e = current THEN batch ELSE retired[e]
          /\ retired'[current + 1] = {}
      BY ONLY <1>1, <1>3, <2>1, batch \in SUBSET Owners
    <2>4. /\ queue' \in Seq(Nat) /\ Len(queue') = Len(queue) + 1
          /\ \A i \in 1 .. Len(queue) : queue'[i] = queue[i]
          /\ queue'[Len(queue) + 1] = current
      BY ONLY <1>1, <2>1
    <2>5. current' = current + 1 /\ current' - 1 = current /\ current' \in Nat
      BY ONLY <1>1, <2>1, <2>2
    <2>6. \A e \in 1 .. current' : e > current => active'[e] = 0
      BY ONLY <1>1, <2>2, <2>5
    <2>7. EpochTypeOK'
      BY ONLY <2>2, <2>3, <2>4, <2>5 DEF EpochTypeOK
    <2> QED BY ONLY <1>3, <2>1, <2>2, <2>3, <2>4, <2>5, <2>6, <2>7
  <1> QED BY <1>2, <1>3

(* Every action of t leaves the locals of the other threads alone. *)
LEMMA OthersStep ==
  ASSUME NEW t \in Threads, TypeOK,
         Step(t) \/ Choice(t)
  PROVE  OthersSame(t)
<1> USE DEF OthersSame, TypeOK, ThreadTypeOK
<1>1. CASE BeginFirst(t) \/ BeginLoad(t) \/ BeginPin(t)
    \/ BeginConfirm(t) \/ BeginCheck(t) \/ Return(t)
  BY <1>1 DEF BeginFirst, BeginLoad, BeginPin, BeginConfirm, BeginCheck,
      Return
<1>2. CASE Trap(t) \/ ReturnFailIfClosed(t) \/ RefusedFailIfClosed(t)
    \/ EndUnpin(t) \/ EndCheck(t) \/ EndLock(t)
  BY <1>2 DEF Trap, ReturnFailIfClosed, RefusedFailIfClosed, EndUnpin,
      EndCheck, EndLock
<1>3. CASE Drain(t) \/ DrainDone(t) \/ FreeDone(t)
    \/ CloseSetExitCode(t) \/ RetireLock(t) \/ WorkDone(t)
  BY <1>3 DEF Drain, DrainDone, FreeDone, CloseSetExitCode, RetireLock,
      WorkDone
<1>4. CASE SealNothing(t) \/ Seal(t) \/ LinkDone(t) \/ LinkFail(t)
  BY <1>4 DEF SealNothing, Seal, LinkDone, LinkFail
<1>5. ASSUME NEW o \in Owners, Free(t, o) PROVE  OthersSame(t)
  BY <1>5 DEF Free
<1>6. ASSUME NEW m \in Modules, Work(t, m) PROVE  OthersSame(t)
  BY <1>6 DEF Work
<1>7. ASSUME NEW m \in Modules, StartCall(t, m) PROVE  OthersSame(t)
  BY <1>7 DEF StartCall
<1>8. ASSUME NEW m \in Modules, StartClose(t, m) PROVE  OthersSame(t)
  BY <1>8 DEF StartClose
<1>9. ASSUME NEW m \in Modules, StartInstantiate(t, m) PROVE  OthersSame(t)
  BY <1>9 DEF StartInstantiate
<1>10. ASSUME NEW b \in Modules, ResolveImport(t, b) PROVE  OthersSame(t)
  BY <1>10 DEF ResolveImport, Retainable, retainImport
<1>11. ASSUME NEW b \in Modules, ResolveTable(t, b) PROVE  OthersSame(t)
  BY <1>11 DEF ResolveTable, Retainable, retainImport
<1>12. ASSUME NEW b \in Modules, AsyncClose(t, b) PROVE  OthersSame(t)
  BY <1>12 DEF AsyncClose
<1> QED
  BY <1>1, <1>2, <1>3, <1>4, <1>5, <1>6, <1>7, <1>8, <1>9, <1>10, <1>11, <1>12
  DEF Step, Choice

(* Control flow keeps the locals of t in the ranges its labels promise. *)
LEMMA LocalStep ==
  ASSUME NEW t \in Threads, TypeOK, LocalOK(t),
         Step(t) \/ Choice(t)
  PROVE  LocalOK(t)'
<1> USE DEF TypeOK, ThreadTypeOK, LocalOK, CallLabels, Nested, Unpinning
<1>1. CASE BeginFirst(t) \/ BeginLoad(t) \/ BeginPin(t)
    \/ BeginConfirm(t) \/ BeginCheck(t) \/ Return(t)
  BY <1>1 DEF BeginFirst, BeginLoad, BeginPin, BeginConfirm, BeginCheck,
      Return
<1>2. CASE Trap(t) \/ ReturnFailIfClosed(t) \/ RefusedFailIfClosed(t)
    \/ EndCheck(t) \/ EndLock(t) \/ Drain(t)
  BY <1>2 DEF Trap, ReturnFailIfClosed, RefusedFailIfClosed, EndCheck,
      EndLock, Drain
<1>3. CASE DrainDone(t) \/ FreeDone(t) \/ CloseSetExitCode(t)
    \/ RetireLock(t) \/ WorkDone(t) \/ SealNothing(t)
  BY <1>3 DEF DrainDone, FreeDone, CloseSetExitCode, RetireLock, WorkDone,
      SealNothing
<1>4. CASE Seal(t) \/ LinkDone(t) \/ LinkFail(t)
  BY <1>4 DEF Seal, LinkDone, LinkFail
<1>5. CASE EndUnpin(t)
  <2>1. AfterEnd(pc[t]) \in {"load", "fail", "idle"}
    BY <1>5, AfterEndLabel DEF EndUnpin
  <2>2. CASE active[epoch[t]] = 1
    BY <1>5, <2>1, <2>2 DEF EndUnpin
  <2>3. CASE active[epoch[t]] # 1
    BY <1>5, <2>1, <2>3 DEF EndUnpin
  <2> QED BY <2>2, <2>3
<1>6. ASSUME NEW o \in Owners, Free(t, o) PROVE  LocalOK(t)'
  BY <1>6 DEF Free
<1>7. ASSUME NEW m \in Modules, Work(t, m) PROVE  LocalOK(t)'
  BY <1>7 DEF Work
<1>8. ASSUME NEW m \in Modules, StartCall(t, m) PROVE  LocalOK(t)'
  BY <1>8 DEF StartCall
<1>9. ASSUME NEW m \in Modules, StartClose(t, m) PROVE  LocalOK(t)'
  BY <1>9 DEF StartClose
<1>10. ASSUME NEW m \in Modules, StartInstantiate(t, m) PROVE  LocalOK(t)'
  BY <1>10 DEF StartInstantiate
<1>11. ASSUME NEW b \in Modules, ResolveImport(t, b) PROVE  LocalOK(t)'
  BY <1>11 DEF ResolveImport, Retainable, retainImport
<1>12. ASSUME NEW b \in Modules, ResolveTable(t, b) PROVE  LocalOK(t)'
  BY <1>12 DEF ResolveTable, Retainable, retainImport
<1>13. ASSUME NEW b \in Modules, AsyncClose(t, b) PROVE  LocalOK(t)'
  BY <1>13 DEF AsyncClose
<1> QED
  BY <1>1, <1>2, <1>3, <1>4, <1>5, <1>6, <1>7, <1>8, <1>9, <1>10, <1>11,
      <1>12, <1>13
  DEF Step, Choice

(* The locals of the threads keep their types. *)
LEMMA ThreadTypeStep ==
  ASSUME NEW t \in Threads, ThreadTypeOK, LocalOK(t), current \in Nat,
      HeadIdle => retired[Head(queue)] \in SUBSET Owners,
         Step(t) \/ Choice(t)
  PROVE  ThreadTypeOK'
<1> USE DEF ThreadTypeOK, LocalOK, CallLabels, Labels, Nested, Unpinning
<1>1. CASE Trap(t) \/ LinkDone(t) \/ LinkFail(t)
  BY <1>1 DEF Trap, LinkDone, LinkFail
<1>2. CASE BeginFirst(t)
  BY <1>2 DEF BeginFirst
<1>3. CASE BeginLoad(t)
  BY <1>3 DEF BeginLoad
<1>4. CASE BeginPin(t)
  BY <1>4 DEF BeginPin
<1>5. CASE BeginConfirm(t)
  BY <1>5 DEF BeginConfirm
<1>6. CASE BeginCheck(t)
  BY <1>6 DEF BeginCheck
<1>7. CASE Return(t)
  BY <1>7 DEF Return
<1>8. CASE ReturnFailIfClosed(t)
  BY <1>8 DEF ReturnFailIfClosed
<1>9. CASE RefusedFailIfClosed(t)
  BY <1>9 DEF RefusedFailIfClosed
<1>10. CASE EndUnpin(t)
  <2>1. AfterEnd(pc[t]) \in {"load", "fail", "idle"}
    BY <1>10, AfterEndLabel DEF EndUnpin
  <2>2. CASE active[epoch[t]] = 1
    BY <1>10, <2>1, <2>2 DEF EndUnpin
  <2>3. CASE active[epoch[t]] # 1
    BY <1>10, <2>1, <2>3 DEF EndUnpin
  <2> QED BY <2>2, <2>3
<1>11. CASE EndCheck(t)
  BY <1>11 DEF EndCheck
<1>12. CASE EndLock(t)
  BY <1>12 DEF EndLock
<1>13. CASE Drain(t)
  BY <1>13 DEF Drain
<1>14. CASE DrainDone(t)
  BY <1>14 DEF DrainDone
<1>15. CASE FreeDone(t)
  BY <1>15 DEF FreeDone
<1>16. CASE CloseSetExitCode(t)
  BY <1>16 DEF CloseSetExitCode
<1>17. CASE RetireLock(t)
  BY <1>17 DEF RetireLock
<1>18. CASE WorkDone(t)
  BY <1>18 DEF WorkDone
<1>19. CASE SealNothing(t)
  BY <1>19 DEF SealNothing
<1>20. CASE Seal(t)
  BY <1>20 DEF Seal
<1>21. ASSUME NEW o \in Owners, Free(t, o) PROVE  ThreadTypeOK'
  BY <1>21 DEF Free
<1>22. ASSUME NEW m \in Modules, Work(t, m) PROVE  ThreadTypeOK'
  BY <1>22 DEF Work
<1>23. ASSUME NEW m \in Modules, StartCall(t, m) PROVE  ThreadTypeOK'
  BY <1>23 DEF StartCall
<1>24. ASSUME NEW m \in Modules, StartClose(t, m) PROVE  ThreadTypeOK'
  BY <1>24 DEF StartClose
<1>25. ASSUME NEW m \in Modules, StartInstantiate(t, m) PROVE  ThreadTypeOK'
  BY <1>25 DEF StartInstantiate
<1>26. ASSUME NEW b \in Modules, ResolveImport(t, b) PROVE  ThreadTypeOK'
  BY <1>26 DEF ResolveImport, Retainable, retainImport
<1>27. ASSUME NEW b \in Modules, ResolveTable(t, b) PROVE  ThreadTypeOK'
  BY <1>27 DEF ResolveTable, Retainable, retainImport
<1>28. ASSUME NEW b \in Modules, AsyncClose(t, b) PROVE  ThreadTypeOK'
  BY <1>28 DEF AsyncClose
<1> QED
  BY <1>1, <1>2, <1>3, <1>4, <1>5, <1>6, <1>7, <1>8, <1>9, <1>10, <1>11,
      <1>12, <1>13, <1>14, <1>15, <1>16, <1>17, <1>18, <1>19, <1>20, <1>21,
      <1>22, <1>23, <1>24, <1>25, <1>26, <1>27, <1>28
  DEF Step, Choice

(* The buffers, the counts of Free and the locals of retireMemory keep     *)
(* theirs.                                                                 *)
LEMMA MemoryTypeStep ==
  ASSUME NEW t \in Threads, TypeOK, LocalOK(t),
         Step(t) \/ Choice(t)
  PROVE  MemoryTypeOK'
<1> USE DEF TypeOK, ThreadTypeOK, MemoryTypeOK, LocalOK
<1>1. CASE UNCHANGED <<expBuffer, freed, ready, batch>>
  BY <1>1
<1>2. CASE DrainDone(t) \/ RetireLock(t) \/ Seal(t)
  BY <1>2 DEF DrainDone, RetireLock, Seal
<1>3. ASSUME NEW o \in Owners, Free(t, o) PROVE  MemoryTypeOK'
  BY <1>3 DEF Free
<1>4. ASSUME NEW m \in Modules, Work(t, m) PROVE  MemoryTypeOK'
  BY <1>4 DEF Work
<1> QED
  BY <1>1, <1>2, <1>3, <1>4
  DEF Step, Choice, BeginFirst, BeginLoad, BeginPin, BeginConfirm,
      BeginCheck, Return, Trap, ReturnFailIfClosed, RefusedFailIfClosed,
      EndUnpin, EndCheck, EndLock, Drain, FreeDone, CloseSetExitCode,
      WorkDone, SealNothing, LinkDone, LinkFail, StartCall, StartClose,
      StartInstantiate, ResolveImport, ResolveTable, AsyncClose

(* The fields of the modules keep theirs: no importer count underflows. *)
LEMMA ModuleTypeStep ==
  ASSUME NEW t \in Threads, TypeOK, LocalOK(t), GraphInv,
         Step(t) \/ Choice(t)
  PROVE  ModuleTypeOK'
<1> USE DEF TypeOK, ModuleTypeOK, ThreadTypeOK, LocalOK, CallLabels
<1>1. CASE UNCHANGED graphVars
  BY <1>1
<1>2. CASE CloseSetExitCode(t) \/ RetireLock(t) \/ LinkDone(t)
  BY <1>2 DEF CloseSetExitCode, RetireLock, LinkDone
<1>3. ASSUME NEW m \in Modules, Work(t, m) PROVE  ModuleTypeOK'
  <2>1. \A a, b \in Modules : importers[b][a] - importedModules[a][b] = 0
    BY DEF GraphInv
  <2>2. importers' \in [Modules -> [Modules -> Nat]]
    BY <1>3, <2>1 DEF Work
  <2>3. importedModules' \in [Modules -> [Modules -> Nat]]
    BY <1>3 DEF Work, NoImports
  <2>4. releasedAt' \in [Modules -> Nat] /\ memoryReleased' \in [Modules -> BOOLEAN]
    BY <1>3 DEF Work, EpochTypeOK
  <2> QED BY <1>3, <2>2, <2>3, <2>4 DEF Work
<1>4. ASSUME NEW m \in Modules, StartInstantiate(t, m) PROVE  ModuleTypeOK'
  BY <1>4 DEF StartInstantiate
<1>5. ASSUME NEW b \in Modules, ResolveImport(t, b) PROVE  ModuleTypeOK'
  <2>1. CASE Retainable(b)
    <3>1. /\ importers' = [importers EXCEPT ![b][entry[t]] = @ + 1]
          /\ importedModules' = [importedModules EXCEPT ![entry[t]][b] = @ + 1]
          /\ links' = links \cup {<<entry[t], b>>}
      BY <1>5, <2>1 DEF ResolveImport, retainImport
    <3>2. /\ importers' \in [Modules -> [Modules -> Nat]]
          /\ importedModules' \in [Modules -> [Modules -> Nat]]
      <4>1. /\ entry[t] \in Modules /\ b \in Modules
            /\ importers \in [Modules -> [Modules -> Nat]]
            /\ importedModules \in [Modules -> [Modules -> Nat]]
        BY <1>5 DEF ResolveImport
      <4> QED BY ONLY <3>1, <4>1
    <3> QED BY <1>5, <2>1, <3>1, <3>2 DEF ResolveImport
  <2>2. CASE ~ Retainable(b)
    BY <1>5, <2>2 DEF ResolveImport
  <2> QED BY <2>1, <2>2
<1>6. ASSUME NEW b \in Modules, ResolveTable(t, b) PROVE  ModuleTypeOK'
  <2>1. CASE Retainable(entry[t])
    <3>1. /\ importers' = [importers EXCEPT ![entry[t]][b] = @ + 1]
          /\ importedModules' = [importedModules EXCEPT ![b][entry[t]] = @ + 1]
          /\ links' = links \cup {<<b, entry[t]>>}
      BY <1>6, <2>1 DEF ResolveTable, retainImport
    <3>2. /\ importers' \in [Modules -> [Modules -> Nat]]
          /\ importedModules' \in [Modules -> [Modules -> Nat]]
      <4>1. /\ entry[t] \in Modules /\ b \in Modules
            /\ importers \in [Modules -> [Modules -> Nat]]
            /\ importedModules \in [Modules -> [Modules -> Nat]]
        BY <1>6 DEF ResolveTable
      <4> QED BY ONLY <3>1, <4>1
    <3> QED BY <1>6, <2>1, <3>1, <3>2 DEF ResolveTable
  <2>2. CASE ~ Retainable(entry[t])
    BY <1>6, <2>2 DEF ResolveTable
  <2> QED BY <2>1, <2>2
<1>7. ASSUME NEW b \in Modules, AsyncClose(t, b) PROVE  ModuleTypeOK'
  BY <1>7 DEF AsyncClose
<1> QED
  BY <1>1, <1>2, <1>3, <1>4, <1>5, <1>6, <1>7
  DEF Step, Choice, BeginFirst, BeginLoad, BeginPin, BeginConfirm,
      BeginCheck, Return, Trap, ReturnFailIfClosed, RefusedFailIfClosed,
      EndUnpin, EndCheck, EndLock, Drain, DrainDone, FreeDone, WorkDone,
      SealNothing, Seal, LinkFail, Free, StartCall, StartClose

(* Epochs are sealed in the order in which they were current and drained   *)
(* in that order: the queue holds Base .. current - 1.                      *)
LEMMA EpochStep ==
  ASSUME NEW t \in Threads, TypeOK, EpochInv, PinInv,
         Step(t) \/ Choice(t)
  PROVE  EpochTypeOK' /\ EpochInv'
<1> USE DEF TypeOK
<1>1. CASE UNCHANGED epochVars
  BY <1>1 DEF EpochInv, EpochTypeOK, Base
<1>2. CASE BeginFirst(t)
  <2>1. /\ EpochTypeOK'
        /\ current = 0 /\ current' = 1 /\ queue' = queue
        /\ Len(active') = 1 /\ Len(retired') = 1 /\ retired'[1] = {}
    BY <1>2, BeginFirstEffect
  <2>2. current \in Nat /\ Len(queue) \in Nat
    BY DEF EpochTypeOK
  <2> QED BY <2>1, <2>2 DEF EpochInv, Base
<1>3. CASE BeginPin(t)
  <2>1. /\ EpochTypeOK' /\ UNCHANGED <<current, retired, queue>>
        /\ Len(active') = Len(active)
    BY <1>3, PinEffect DEF PinInv
  <2>2. current \in Nat /\ Len(queue) \in Nat
    BY DEF EpochTypeOK
  <2> QED BY <2>1, <2>2 DEF EpochInv, Base
<1>4. CASE EndUnpin(t)
  <2>1. /\ EpochTypeOK' /\ UNCHANGED <<current, retired, queue>>
        /\ Len(active') = Len(active)
    BY <1>4, UnpinEffect
  <2>2. current \in Nat /\ Len(queue) \in Nat
    BY DEF EpochTypeOK
  <2> QED BY <2>1, <2>2 DEF EpochInv, Base
<1>5. CASE Drain(t)
  <2>1. /\ EpochTypeOK' /\ UNCHANGED <<current, active>>
        /\ Base \in 1 .. current /\ Base < current
        /\ Len(queue') = Len(queue) - 1
        /\ \A i \in 1 .. Len(queue') : queue'[i] = queue[i + 1]
        /\ Len(retired') = Len(retired)
        /\ \A e \in 1 .. current :
              retired'[e] = IF e = Base THEN {} ELSE retired[e]
    BY <1>5, DrainEffect
  <2>2. current \in Nat /\ Len(queue) \in Nat
    BY DEF EpochTypeOK
  <2>3. Base' = Base + 1 /\ Base \in Int
    BY ONLY <2>1, <2>2 DEF Base
  <2>4. \A i \in 1 .. Len(queue') : queue'[i] = Base' + i - 1
    <3>1. \A i \in 1 .. Len(queue) : queue[i] = Base + i - 1
      BY DEF EpochInv
    <3>2. \A n \in Nat : \A i \in 1 .. n - 1 : i + 1 \in 1 .. n
      OBVIOUS
    <3>3. \A i \in 1 .. Len(queue') : queue'[i] = Base + (i + 1) - 1
      BY ONLY <2>1, <2>2, <3>1, <3>2
    <3>4. \A b \in Int : \A i \in Int : b + (i + 1) - 1 = b + 1 + i - 1
      OBVIOUS
    <3> QED BY ONLY <2>3, <3>3, <3>4
  <2>5. \A e \in 1 .. current' : retired'[e] # {} => Base' <= e /\ e < current'
    <3>1. \A e \in 1 .. current : retired[e] # {} => Base <= e /\ e < current
      BY DEF EpochInv
    <3> QED BY ONLY <2>1, <2>2, <2>3, <3>1
  <2>6. /\ current' = Len(active') /\ Len(retired') = Len(active')
        /\ Len(queue') <= current' /\ (current' # 0 => Len(queue') < current')
    BY <2>1, <2>2 DEF EpochInv
  <2> QED BY <2>1, <2>4, <2>5, <2>6 DEF EpochInv
<1>6. CASE Seal(t)
  <2>1. /\ EpochTypeOK' /\ current' \in Nat
        /\ (current = 0 => current' = 2) /\ (current # 0 => current' = current + 1)
        /\ current' = Len(active') /\ Len(retired') = Len(active')
        /\ \A e \in 1 .. current' - 1 :
             retired'[e] = IF e = current' - 1 THEN batch ELSE retired[e]
        /\ retired'[current'] = {}
        /\ Len(queue') = Len(queue) + 1
        /\ \A i \in 1 .. Len(queue) : queue'[i] = queue[i]
        /\ queue'[Len(queue) + 1] = current' - 1
    BY <1>6, SealEffect DEF MemoryTypeOK
  <2>2. current \in Nat /\ Len(queue) \in Nat /\ Len(queue) <= current
    BY DEF EpochTypeOK, EpochInv
  <2>3. Base' = (IF current = 0 THEN 1 ELSE Base) /\ Base \in Nat
    BY <2>1, <2>2 DEF Base
  <2>4. /\ \A i \in 1 .. Len(queue) : queue[i] = Base + i - 1
        /\ \A e \in 1 .. current : retired[e] # {} => Base <= e /\ e < current
        /\ current - Len(queue) = Base
    BY DEF EpochInv, Base
  <2>5. \A i \in 1 .. Len(queue') : queue'[i] = Base' + i - 1
    <3> TAKE i \in 1 .. Len(queue')
    <3>1. i \in 1 .. Len(queue) \/ i = Len(queue) + 1
      BY <2>1, <2>2
    <3>2. CASE i \in 1 .. Len(queue)
      <4>1. current # 0 /\ Base' = Base
        BY <2>2, <2>3, <3>2
      <4>2. queue'[i] = queue[i] /\ queue[i] = Base + i - 1
        BY <2>1, <2>4, <3>2
      <4> QED BY ONLY <4>1, <4>2
    <3>3. CASE i = Len(queue) + 1
      <4>1. queue'[i] = current' - 1
        BY <2>1, <3>3
      <4>2. CASE current = 0
        <5>1. Base' = 1 /\ current' = 2 /\ i = 1
          BY <2>1, <2>2, <2>3, <3>3, <4>2
        <5> QED BY ONLY <4>1, <5>1
      <4>3. CASE current # 0
        <5>1. Base' = Base /\ current' = current + 1
          BY <2>1, <2>3, <4>3
        <5>2. Base + i - 1 = current
          BY ONLY <2>2, <2>4, <3>3
        <5> QED BY ONLY <2>2, <2>3, <4>1, <5>1, <5>2
      <4> QED BY <4>2, <4>3
    <3> QED BY <3>1, <3>2, <3>3
  <2>6. \A e \in 1 .. current' : retired'[e] # {} => Base' <= e /\ e < current'
    <3> TAKE e \in 1 .. current'
    <3>1. e = current' \/ e = current' - 1 \/ (e \in 1 .. current /\ e < current' - 1)
      BY <2>1, <2>2
    <3>2. Base' <= current' - 1
      BY <2>1, <2>2, <2>3, <2>4 DEF EpochInv
    <3>3. CASE e = current'
      BY <2>1, <3>3
    <3>4. CASE e = current' - 1
      BY <2>1, <3>2, <3>4
    <3>5. CASE e \in 1 .. current /\ e < current' - 1
      <4>1. current # 0 /\ retired'[e] = retired[e]
        BY <2>1, <2>2, <3>5
      <4> QED BY <2>1, <2>2, <2>3, <2>4, <3>5, <4>1
    <3> QED BY <3>1, <3>3, <3>4, <3>5
  <2> QED BY <2>1, <2>2, <2>5, <2>6 DEF EpochInv
<1> QED
  BY <1>1, <1>2, <1>3, <1>4, <1>5, <1>6
  DEF Step, Choice, BeginLoad, BeginConfirm, BeginCheck, Return, Trap,
      ReturnFailIfClosed, RefusedFailIfClosed, EndCheck, EndLock, DrainDone,
      FreeDone, CloseSetExitCode, RetireLock, WorkDone, SealNothing,
      LinkDone, LinkFail, Free, Work, StartCall, StartClose,
      StartInstantiate, ResolveImport, ResolveTable, AsyncClose

(* Only BeginPin and EndUnpin change what t contributes to an epoch. *)
LEMMA PinnedStep ==
  ASSUME NEW t \in Threads, ThreadTypeOK, LocalOK(t),
         Step(t) \/ Choice(t)
  PROVE  BeginPin(t) \/ EndUnpin(t) \/ PinKept(t)
<1> USE DEF ThreadTypeOK, LocalOK, CallLabels, Nested, Unpinning, Pinned,
    PinKept
<1>1. CASE BeginFirst(t) \/ BeginLoad(t) \/ BeginPin(t)
    \/ BeginConfirm(t) \/ BeginCheck(t) \/ Return(t)
  BY <1>1 DEF BeginFirst, BeginLoad, BeginPin, BeginConfirm, BeginCheck,
      Return
<1>2. CASE Trap(t) \/ ReturnFailIfClosed(t) \/ RefusedFailIfClosed(t)
    \/ EndUnpin(t) \/ EndCheck(t) \/ EndLock(t)
  BY <1>2 DEF Trap, ReturnFailIfClosed, RefusedFailIfClosed, EndUnpin,
      EndCheck, EndLock
<1>3. CASE Drain(t) \/ DrainDone(t) \/ FreeDone(t)
    \/ CloseSetExitCode(t) \/ RetireLock(t) \/ WorkDone(t)
  BY <1>3 DEF Drain, DrainDone, FreeDone, CloseSetExitCode, RetireLock,
      WorkDone
<1>4. CASE SealNothing(t) \/ Seal(t) \/ LinkDone(t) \/ LinkFail(t)
  BY <1>4 DEF SealNothing, Seal, LinkDone, LinkFail
<1>5. ASSUME NEW o \in Owners, Free(t, o)
      PROVE  BeginPin(t) \/ EndUnpin(t) \/ PinKept(t)
  BY <1>5 DEF Free
<1>6. ASSUME NEW m \in Modules, Work(t, m)
      PROVE  BeginPin(t) \/ EndUnpin(t) \/ PinKept(t)
  BY <1>6 DEF Work
<1>7. ASSUME NEW m \in Modules, StartCall(t, m)
      PROVE  BeginPin(t) \/ EndUnpin(t) \/ PinKept(t)
  BY <1>7 DEF StartCall
<1>8. ASSUME NEW m \in Modules, StartClose(t, m)
      PROVE  BeginPin(t) \/ EndUnpin(t) \/ PinKept(t)
  BY <1>8 DEF StartClose
<1>9. ASSUME NEW m \in Modules, StartInstantiate(t, m)
      PROVE  BeginPin(t) \/ EndUnpin(t) \/ PinKept(t)
  BY <1>9 DEF StartInstantiate
<1>10. ASSUME NEW b \in Modules, ResolveImport(t, b)
      PROVE  BeginPin(t) \/ EndUnpin(t) \/ PinKept(t)
  BY <1>10 DEF ResolveImport, Retainable, retainImport
<1>11. ASSUME NEW b \in Modules, ResolveTable(t, b)
      PROVE  BeginPin(t) \/ EndUnpin(t) \/ PinKept(t)
  BY <1>11 DEF ResolveTable, Retainable, retainImport
<1>12. ASSUME NEW b \in Modules, AsyncClose(t, b)
      PROVE  BeginPin(t) \/ EndUnpin(t) \/ PinKept(t)
  BY <1>12 DEF AsyncClose
<1> QED
  BY <1>1, <1>2, <1>3, <1>4, <1>5, <1>6, <1>7, <1>8, <1>9, <1>10, <1>11, <1>12
  DEF Step, Choice

(* t pins, is about to pin or has just unpinned an epoch that exists. *)
LEMMA RangeStep ==
  ASSUME NEW t \in Threads, ThreadTypeOK, LocalOK(t), current \in Nat,
      current' \in Nat, current <= current', PinOK(t),
         Step(t) \/ Choice(t)
  PROVE  (Pinned(t) \/ pc[t] \in {"pin",
      "endcheck"} => epoch[t] \in 1 .. current)'
<1> USE DEF ThreadTypeOK, LocalOK, CallLabels, Nested, Unpinning, Pinned,
    PinOK
<1>1. CASE BeginFirst(t) \/ BeginLoad(t) \/ BeginPin(t)
    \/ BeginConfirm(t) \/ BeginCheck(t) \/ Return(t)
  BY <1>1 DEF BeginFirst, BeginLoad, BeginPin, BeginConfirm, BeginCheck,
      Return
<1>2. CASE Trap(t) \/ ReturnFailIfClosed(t) \/ RefusedFailIfClosed(t)
    \/ EndCheck(t) \/ EndLock(t) \/ Drain(t)
  BY <1>2 DEF Trap, ReturnFailIfClosed, RefusedFailIfClosed, EndCheck,
      EndLock, Drain
<1>3. CASE DrainDone(t) \/ FreeDone(t) \/ CloseSetExitCode(t)
    \/ RetireLock(t) \/ WorkDone(t) \/ SealNothing(t)
  BY <1>3 DEF DrainDone, FreeDone, CloseSetExitCode, RetireLock, WorkDone,
      SealNothing
<1>4. CASE Seal(t) \/ LinkDone(t) \/ LinkFail(t)
  BY <1>4 DEF Seal, LinkDone, LinkFail
<1>5. CASE EndUnpin(t)
  <2>1. AfterEnd(pc[t]) \in {"load", "fail", "idle"}
    BY <1>5, AfterEndLabel DEF EndUnpin
  <2>2. CASE active[epoch[t]] = 1
    BY <1>5, <2>1, <2>2 DEF EndUnpin
  <2>3. CASE active[epoch[t]] # 1
    BY <1>5, <2>1, <2>3 DEF EndUnpin
  <2> QED BY <2>2, <2>3
<1>6. ASSUME NEW o \in Owners, Free(t, o)
      PROVE  (Pinned(t) \/ pc[t] \in {"pin",
          "endcheck"} => epoch[t] \in 1 .. current)'
  BY <1>6 DEF Free
<1>7. ASSUME NEW m \in Modules, Work(t, m)
      PROVE  (Pinned(t) \/ pc[t] \in {"pin",
          "endcheck"} => epoch[t] \in 1 .. current)'
  BY <1>7 DEF Work
<1>8. ASSUME NEW m \in Modules, StartCall(t, m)
      PROVE  (Pinned(t) \/ pc[t] \in {"pin",
          "endcheck"} => epoch[t] \in 1 .. current)'
  BY <1>8 DEF StartCall
<1>9. ASSUME NEW m \in Modules, StartClose(t, m)
      PROVE  (Pinned(t) \/ pc[t] \in {"pin",
          "endcheck"} => epoch[t] \in 1 .. current)'
  BY <1>9 DEF StartClose
<1>10. ASSUME NEW m \in Modules, StartInstantiate(t, m)
      PROVE  (Pinned(t) \/ pc[t] \in {"pin",
          "endcheck"} => epoch[t] \in 1 .. current)'
  BY <1>10 DEF StartInstantiate
<1>11. ASSUME NEW b \in Modules, ResolveImport(t, b)
      PROVE  (Pinned(t) \/ pc[t] \in {"pin",
          "endcheck"} => epoch[t] \in 1 .. current)'
  BY <1>11 DEF ResolveImport, Retainable, retainImport
<1>12. ASSUME NEW b \in Modules, ResolveTable(t, b)
      PROVE  (Pinned(t) \/ pc[t] \in {"pin",
          "endcheck"} => epoch[t] \in 1 .. current)'
  BY <1>12 DEF ResolveTable, Retainable, retainImport
<1>13. ASSUME NEW b \in Modules, AsyncClose(t, b)
      PROVE  (Pinned(t) \/ pc[t] \in {"pin",
          "endcheck"} => epoch[t] \in 1 .. current)'
  BY <1>13 DEF AsyncClose
<1> QED
  BY <1>1, <1>2, <1>3, <1>4, <1>5, <1>6, <1>7, <1>8, <1>9, <1>10, <1>11,
      <1>12, <1>13
  DEF Step, Choice

(* A confirmed pin was confirmed before, or is of the current epoch. *)
LEMMA ConfirmStep ==
  ASSUME NEW t \in Threads, ThreadTypeOK, LocalOK(t),
         Step(t) \/ Choice(t)
  PROVE  Confirmed(t)' =>
           /\ epoch'[t] = epoch[t]
           /\ \/ Confirmed(t)
              \/ epoch[t] = current /\ UNCHANGED <<current, queue>>
<1> USE DEF ThreadTypeOK, LocalOK, CallLabels, Nested, Unpinning, Pinned,
    Confirmed
<1>1. CASE BeginFirst(t) \/ BeginLoad(t) \/ BeginPin(t)
    \/ BeginConfirm(t) \/ BeginCheck(t) \/ Return(t)
  BY <1>1 DEF BeginFirst, BeginLoad, BeginPin, BeginConfirm, BeginCheck,
      Return
<1>2. CASE Trap(t) \/ ReturnFailIfClosed(t) \/ RefusedFailIfClosed(t)
    \/ EndCheck(t) \/ EndLock(t) \/ Drain(t)
  BY <1>2 DEF Trap, ReturnFailIfClosed, RefusedFailIfClosed, EndCheck,
      EndLock, Drain
<1>3. CASE DrainDone(t) \/ FreeDone(t) \/ CloseSetExitCode(t)
    \/ RetireLock(t) \/ WorkDone(t) \/ SealNothing(t)
  BY <1>3 DEF DrainDone, FreeDone, CloseSetExitCode, RetireLock, WorkDone,
      SealNothing
<1>4. CASE Seal(t) \/ LinkDone(t) \/ LinkFail(t)
  BY <1>4 DEF Seal, LinkDone, LinkFail
<1>5. CASE EndUnpin(t)
  <2>1. AfterEnd(pc[t]) \in {"load", "fail", "idle"}
    BY <1>5, AfterEndLabel DEF EndUnpin
  <2>2. CASE active[epoch[t]] = 1
    BY <1>5, <2>1, <2>2 DEF EndUnpin
  <2>3. CASE active[epoch[t]] # 1
    BY <1>5, <2>1, <2>3 DEF EndUnpin
  <2> QED BY <2>2, <2>3
<1>6. ASSUME NEW o \in Owners, Free(t, o)
      PROVE  Confirmed(t)' =>
           /\ epoch'[t] = epoch[t]
           /\ \/ Confirmed(t)
              \/ epoch[t] = current /\ UNCHANGED <<current, queue>>
  BY <1>6 DEF Free
<1>7. ASSUME NEW m \in Modules, Work(t, m)
      PROVE  Confirmed(t)' =>
           /\ epoch'[t] = epoch[t]
           /\ \/ Confirmed(t)
              \/ epoch[t] = current /\ UNCHANGED <<current, queue>>
  BY <1>7 DEF Work
<1>8. ASSUME NEW m \in Modules, StartCall(t, m)
      PROVE  Confirmed(t)' =>
           /\ epoch'[t] = epoch[t]
           /\ \/ Confirmed(t)
              \/ epoch[t] = current /\ UNCHANGED <<current, queue>>
  BY <1>8 DEF StartCall
<1>9. ASSUME NEW m \in Modules, StartClose(t, m)
      PROVE  Confirmed(t)' =>
           /\ epoch'[t] = epoch[t]
           /\ \/ Confirmed(t)
              \/ epoch[t] = current /\ UNCHANGED <<current, queue>>
  BY <1>9 DEF StartClose
<1>10. ASSUME NEW m \in Modules, StartInstantiate(t, m)
      PROVE  Confirmed(t)' =>
           /\ epoch'[t] = epoch[t]
           /\ \/ Confirmed(t)
              \/ epoch[t] = current /\ UNCHANGED <<current, queue>>
  BY <1>10 DEF StartInstantiate
<1>11. ASSUME NEW b \in Modules, ResolveImport(t, b)
      PROVE  Confirmed(t)' =>
           /\ epoch'[t] = epoch[t]
           /\ \/ Confirmed(t)
              \/ epoch[t] = current /\ UNCHANGED <<current, queue>>
  BY <1>11 DEF ResolveImport, Retainable, retainImport
<1>12. ASSUME NEW b \in Modules, ResolveTable(t, b)
      PROVE  Confirmed(t)' =>
           /\ epoch'[t] = epoch[t]
           /\ \/ Confirmed(t)
              \/ epoch[t] = current /\ UNCHANGED <<current, queue>>
  BY <1>12 DEF ResolveTable, Retainable, retainImport
<1>13. ASSUME NEW b \in Modules, AsyncClose(t, b)
      PROVE  Confirmed(t)' =>
           /\ epoch'[t] = epoch[t]
           /\ \/ Confirmed(t)
              \/ epoch[t] = current /\ UNCHANGED <<current, queue>>
  BY <1>13 DEF AsyncClose
<1> QED
  BY <1>1, <1>2, <1>3, <1>4, <1>5, <1>6, <1>7, <1>8, <1>9, <1>10, <1>11,
      <1>12, <1>13
  DEF Step, Choice

(* An epoch is drained only when nobody pins it. *)
LEMMA BaseStep ==
  ASSUME NEW t \in Threads, TypeOK, EpochInv, PinInv, Step(t) \/ Choice(t)
  PROVE  /\ current' \in Nat /\ current <= current' /\ Base' <= current'
         /\ \A u \in Threads : Confirmed(u) => Base' <= epoch[u]
<1> USE DEF TypeOK
<1>0. /\ current \in Nat /\ Len(queue) \in Nat /\ Len(queue) <= current
      /\ Base = current - Len(queue)
      /\ \A u \in Threads : Confirmed(u) => epoch[u] \in 1 .. current /\ Base <= epoch[u]
  BY DEF EpochTypeOK, EpochInv, Base, PinInv, PinOK, Confirmed
<1>1. CASE UNCHANGED <<current, queue>>
  BY <1>0, <1>1 DEF Base
<1>2. CASE BeginFirst(t)
  <2>1. current = 0 /\ current' = 1 /\ queue' = queue
    BY <1>2, BeginFirstEffect
  <2> QED BY <1>0, <2>1 DEF Base
<1>3. CASE Drain(t)
  <2>1. /\ UNCHANGED current /\ Base \in 1 .. current /\ active[Base] = 0
        /\ Len(queue') = Len(queue) - 1
    BY <1>3, DrainEffect
  <2>2. Pinners(Base) = {}
    <3>1. Cardinality(Pinners(Base)) = 0
      BY <2>1 DEF PinInv
    <3>2. IsFiniteSet(Pinners(Base))
      BY FS_Subset DEF Pinners
    <3> QED BY <3>1, <3>2, FS_EmptySet
  <2>3. \A u \in Threads : Confirmed(u) => epoch[u] # Base
    BY <2>2 DEF Pinners, Confirmed
  <2>4. Base' = Base + 1
    BY <1>0, <2>1 DEF Base
  <2> QED BY <1>0, <2>1, <2>3, <2>4
<1>4. CASE Seal(t)
  <2>1. /\ current' \in Nat /\ Len(queue') = Len(queue) + 1
        /\ (current = 0 => current' = 2) /\ (current # 0 => current' = current + 1)
    BY <1>4, SealEffect DEF MemoryTypeOK
  <2>2. CASE current = 0
    <3>1. current' = 2 /\ Len(queue') = 1
      BY <1>0, <2>1, <2>2
    <3>2. Base' = 1
      BY <3>1 DEF Base
    <3> QED BY <1>0, <2>2, <3>1, <3>2
  <2>3. CASE current # 0
    <3>1. current' = current + 1
      BY <2>1, <2>3
    <3>2. Base' = Base
      BY <1>0, <2>1, <3>1 DEF Base
    <3> QED BY <1>0, <3>1, <3>2
  <2> QED BY <2>2, <2>3
<1> QED
  BY <1>1, <1>2, <1>3, <1>4
  DEF Step, Choice, BeginLoad, BeginPin, BeginConfirm, BeginCheck, Return,
      Trap, ReturnFailIfClosed, RefusedFailIfClosed, EndUnpin, EndCheck,
          EndLock, DrainDone, FreeDone, CloseSetExitCode, RetireLock,
              WorkDone, SealNothing, LinkDone, LinkFail, Free, Work,
                  StartCall, StartClose, StartInstantiate, ResolveImport,
                      ResolveTable, AsyncClose

(* active[e] counts the threads that pin e, and what is pinned and        *)
(* confirmed is not drained.                                              *)
LEMMA PinStep ==
  ASSUME NEW t \in Threads, TypeOK, ControlInv, EpochInv, PinInv,
         OthersSame(t), EpochTypeOK', Step(t) \/ Choice(t)
  PROVE  PinInv'
<1>1. /\ ThreadTypeOK /\ EpochTypeOK /\ LocalOK(t) /\ PinOK(t)
      /\ current \in Nat /\ batch \in SUBSET Owners
  BY DEF TypeOK, EpochTypeOK, MemoryTypeOK, ControlInv, PinInv
<1>2. /\ current' \in Nat /\ current <= current' /\ Base' <= current'
      /\ \A u \in Threads : Confirmed(u) => Base' <= epoch[u]
  BY BaseStep
<1>3. \A u \in Threads \ {t} :
        /\ Pinned(u)' <=> Pinned(u)
        /\ Confirmed(u)' <=> Confirmed(u)
        /\ epoch'[u] = epoch[u] /\ pc'[u] = pc[u]
  BY DEF OthersSame, Pinned, Confirmed
<1>4. \A u \in Threads : PinOK(u)'
  <2>1. PinOK(t)'
    <3>1. (Pinned(t) \/ pc[t] \in {"pin",
        "endcheck"} => epoch[t] \in 1 .. current)'
      BY <1>1, <1>2, RangeStep
    <3>2. Confirmed(t)' =>
           /\ epoch'[t] = epoch[t]
           /\ \/ Confirmed(t)
              \/ epoch[t] = current /\ UNCHANGED <<current, queue>>
      BY <1>1, ConfirmStep
    <3>3. Confirmed(t)' => Base' <= epoch'[t]
      BY <1>2, <3>2
    <3> QED BY <3>1, <3>3 DEF PinOK
  <2>2. ASSUME NEW u \in Threads \ {t} PROVE PinOK(u)'
    <3>1. PinOK(u)
      BY DEF PinInv
    <3>2. Pinned(u)' \/ pc'[u] \in {"pin",
        "endcheck"} => epoch'[u] \in 1 .. current'
      BY <1>1, <1>2, <1>3, <3>1 DEF PinOK
    <3>3. Confirmed(u)' => Base' <= epoch'[u]
      BY <1>2, <1>3
    <3> QED BY <3>2, <3>3 DEF PinOK
  <2> QED BY <2>1, <2>2
<1>5. \A u \in Threads : Pinned(u) => epoch[u] \in 1 .. current
  BY DEF PinInv, PinOK
<1>6. \A e \in 1 .. current : IsFiniteSet(Pinners(e))
  BY FS_Subset DEF Pinners
<1>7. \A e \in 1 .. current' : active'[e] = Cardinality(Pinners(e)')
  <2>1. CASE BeginPin(t)
    <3>1. /\ UNCHANGED current /\ epoch[t] \in 1 .. current
          /\ \A e \in 1 .. current :
                active'[e] = IF e = epoch[t] THEN active[e] + 1 ELSE active[e]
      BY <1>1, <2>1, PinEffect
    <3>2. ~ Pinned(t) /\ Pinned(t)' /\ epoch'[t] = epoch[t]
      BY <1>1, <2>1 DEF BeginPin, Pinned, Nested, Unpinning, ThreadTypeOK
    <3>3. \A e \in 1 .. current :
            Pinners(e)' = IF e = epoch[t] THEN Pinners(e) \cup {t} ELSE Pinners(e)
      BY <1>3, <3>2 DEF Pinners
    <3>4. t \notin Pinners(epoch[t])
      BY <3>2 DEF Pinners
    <3>5. Cardinality(Pinners(epoch[t]) \cup {t}) = Cardinality(Pinners(epoch[t])) + 1
      BY <1>6, <3>1, <3>4, FS_AddElement
    <3> QED BY <3>1, <3>3, <3>5 DEF PinInv
  <2>2. CASE EndUnpin(t)
    <3>1. /\ UNCHANGED current /\ epoch[t] \in 1 .. current
          /\ t \in Pinners(epoch[t])
          /\ \A e \in 1 .. current :
                active'[e] = IF e = epoch[t] THEN active[e] - 1 ELSE active[e]
      BY <1>1, <2>2, UnpinEffect
    <3>2. ~ Pinned(t)'
      <4>1. AfterEnd(pc[t]) \in {"load", "fail", "idle"}
        BY <2>2, AfterEndLabel DEF EndUnpin
      <4>2. pc'[t] \in {"endcheck", "load", "fail", "idle"}
        BY <1>1, <2>2, <4>1 DEF EndUnpin, ThreadTypeOK
      <4> QED BY <4>2 DEF Pinned, Nested, Unpinning
    <3>3. \A e \in 1 .. current :
            Pinners(e)' = IF e = epoch[t] THEN Pinners(e) \ {t} ELSE Pinners(e)
      BY <1>3, <3>2, <3>1 DEF Pinners
    <3>4. Cardinality(Pinners(epoch[t]) \ {t}) = Cardinality(Pinners(epoch[t])) - 1
      BY <1>6, <3>1, FS_RemoveElement
    <3> QED BY <3>1, <3>3, <3>4 DEF PinInv
  <2>3. CASE ~ BeginPin(t) /\ ~ EndUnpin(t)
    <3>1. PinKept(t)
      BY <1>1, <2>3, PinnedStep
    <3>2. \A e \in 1 .. current : Pinners(e)' = Pinners(e)
      BY <1>3, <3>1 DEF Pinners, PinKept
    <3>3. \A e \in 1 .. current' : e > current => Pinners(e)' = {}
      BY <1>1, <1>3, <1>5, <3>1 DEF Pinners, PinKept
    <3>4. /\ \A e \in 1 .. current : active'[e] = active[e]
          /\ \A e \in 1 .. current' : e > current => active'[e] = 0
      <4>1. CASE BeginFirst(t)
        BY <1>1, <4>1, BeginFirstEffect
      <4>2. CASE Seal(t)
        BY <1>1, <4>2, SealEffect
      <4>3. CASE UNCHANGED <<current, active>>
        BY <1>1, <4>3
      <4> QED
        BY <2>3, <4>1, <4>2, <4>3
        DEF Step, Choice, BeginLoad, BeginConfirm, BeginCheck, Return, Trap,
            ReturnFailIfClosed, RefusedFailIfClosed, EndCheck, EndLock,
                Drain, DrainDone, FreeDone, CloseSetExitCode, RetireLock,
                    WorkDone, SealNothing, LinkDone, LinkFail, Free, Work,
                        StartCall, StartClose, StartInstantiate,
                            ResolveImport, ResolveTable, AsyncClose
    <3> QED BY <1>1, <1>2, <3>2, <3>3, <3>4, FS_EmptySet DEF PinInv
  <2> QED BY <2>1, <2>2, <2>3
<1> QED BY <1>4, <1>7 DEF PinInv

(* The mutex excludes. *)
LEMMA MutexStep ==
  ASSUME NEW t \in Threads, TypeOK, ControlInv, OthersSame(t),
         Step(t) \/ Choice(t)
  PROVE  (/\ \A u \in Threads : pc[u] \in Critical <=> u \in lock
          /\ \A u, v \in lock : u = v)'
<1> USE DEF ThreadTypeOK, TypeOK, ControlInv, LocalOK, OthersSame, Critical,
    CallLabels, Nested, Unpinning
<1>1. CASE Trap(t) \/ ReturnFailIfClosed(t) \/ RefusedFailIfClosed(t)
    \/ EndCheck(t) \/ EndLock(t) \/ Drain(t)
  BY <1>1 DEF Trap, ReturnFailIfClosed, RefusedFailIfClosed, EndCheck,
      EndLock, Drain
<1>2. CASE DrainDone(t) \/ LinkDone(t) \/ LinkFail(t)
  BY <1>2 DEF DrainDone, LinkDone, LinkFail
<1>3. CASE BeginFirst(t)
  BY <1>3 DEF BeginFirst
<1>4. CASE BeginLoad(t)
  BY <1>4 DEF BeginLoad
<1>5. CASE BeginPin(t)
  BY <1>5 DEF BeginPin
<1>6. CASE BeginConfirm(t)
  BY <1>6 DEF BeginConfirm
<1>7. CASE BeginCheck(t)
  BY <1>7 DEF BeginCheck
<1>8. CASE Return(t)
  BY <1>8 DEF Return
<1>9. CASE EndUnpin(t)
  <2>1. AfterEnd(pc[t]) \in {"load", "fail", "idle"}
    BY <1>9, AfterEndLabel DEF EndUnpin
  <2>2. pc'[t] \in {"endcheck", "load", "fail", "idle"}
    BY <1>9, <2>1 DEF EndUnpin
  <2> QED BY <1>9, <2>2 DEF EndUnpin
<1>10. CASE FreeDone(t)
  BY <1>10 DEF FreeDone
<1>11. CASE CloseSetExitCode(t)
  BY <1>11 DEF CloseSetExitCode
<1>12. CASE RetireLock(t)
  BY <1>12 DEF RetireLock
<1>13. CASE WorkDone(t)
  BY <1>13 DEF WorkDone
<1>14. CASE SealNothing(t)
  BY <1>14 DEF SealNothing
<1>15. CASE Seal(t)
  BY <1>15 DEF Seal
<1>16. ASSUME NEW o \in Owners, Free(t, o)
      PROVE  (/\ \A u \in Threads : pc[u] \in Critical <=> u \in lock
          /\ \A u, v \in lock : u = v)'
  BY <1>16 DEF Free
<1>17. ASSUME NEW m \in Modules, Work(t, m)
      PROVE  (/\ \A u \in Threads : pc[u] \in Critical <=> u \in lock
          /\ \A u, v \in lock : u = v)'
  BY <1>17 DEF Work
<1>18. ASSUME NEW m \in Modules, StartCall(t, m)
      PROVE  (/\ \A u \in Threads : pc[u] \in Critical <=> u \in lock
          /\ \A u, v \in lock : u = v)'
  BY <1>18 DEF StartCall
<1>19. ASSUME NEW m \in Modules, StartClose(t, m)
      PROVE  (/\ \A u \in Threads : pc[u] \in Critical <=> u \in lock
          /\ \A u, v \in lock : u = v)'
  BY <1>19 DEF StartClose
<1>20. ASSUME NEW m \in Modules, StartInstantiate(t, m)
      PROVE  (/\ \A u \in Threads : pc[u] \in Critical <=> u \in lock
          /\ \A u, v \in lock : u = v)'
  BY <1>20 DEF StartInstantiate
<1>21. ASSUME NEW b \in Modules, ResolveImport(t, b)
      PROVE  (/\ \A u \in Threads : pc[u] \in Critical <=> u \in lock
          /\ \A u, v \in lock : u = v)'
  BY <1>21 DEF ResolveImport, Retainable, retainImport
<1>22. ASSUME NEW b \in Modules, ResolveTable(t, b)
      PROVE  (/\ \A u \in Threads : pc[u] \in Critical <=> u \in lock
          /\ \A u, v \in lock : u = v)'
  BY <1>22 DEF ResolveTable, Retainable, retainImport
<1>23. ASSUME NEW b \in Modules, AsyncClose(t, b)
      PROVE  (/\ \A u \in Threads : pc[u] \in Critical <=> u \in lock
          /\ \A u, v \in lock : u = v)'
  BY <1>23 DEF AsyncClose
<1> QED
  BY <1>1, <1>2, <1>3, <1>4, <1>5, <1>6, <1>7, <1>8, <1>9, <1>10, <1>11,
      <1>12, <1>13, <1>14, <1>15, <1>16, <1>17, <1>18, <1>19, <1>20, <1>21,
      <1>22, <1>23
  DEF Step, Choice

(* A batch is taken up by Seal before the mutex is released. *)
LEMMA BatchStep ==
  ASSUME NEW t \in Threads, TypeOK, ControlInv, OthersSame(t),
         Step(t) \/ Choice(t)
  PROVE  (batch # {} => \E u \in lock : pc[u] \in {"work", "seal"})'
<1> USE DEF ThreadTypeOK, TypeOK, ControlInv, OthersSame, Critical, Unpinning
<1>1. CASE BeginFirst(t) \/ BeginLoad(t) \/ BeginPin(t)
    \/ BeginConfirm(t) \/ BeginCheck(t) \/ Return(t)
  BY <1>1 DEF BeginFirst, BeginLoad, BeginPin, BeginConfirm, BeginCheck,
      Return
<1>2. CASE Trap(t) \/ ReturnFailIfClosed(t) \/ RefusedFailIfClosed(t)
    \/ EndCheck(t) \/ EndLock(t) \/ Drain(t)
  BY <1>2 DEF Trap, ReturnFailIfClosed, RefusedFailIfClosed, EndCheck,
      EndLock, Drain
<1>3. CASE DrainDone(t) \/ FreeDone(t) \/ CloseSetExitCode(t)
    \/ RetireLock(t) \/ WorkDone(t) \/ SealNothing(t)
  BY <1>3 DEF DrainDone, FreeDone, CloseSetExitCode, RetireLock, WorkDone,
      SealNothing
<1>4. CASE Seal(t) \/ LinkDone(t) \/ LinkFail(t)
  BY <1>4 DEF Seal, LinkDone, LinkFail
<1>5. CASE EndUnpin(t)
  <2>1. AfterEnd(pc[t]) \in {"load", "fail", "idle"}
    BY <1>5, AfterEndLabel DEF EndUnpin
  <2>2. pc'[t] \in {"endcheck", "load", "fail", "idle"}
    BY <1>5, <2>1 DEF EndUnpin
  <2> QED BY <1>5, <2>2 DEF EndUnpin
<1>6. ASSUME NEW o \in Owners, Free(t, o)
      PROVE  (batch # {} => \E u \in lock : pc[u] \in {"work", "seal"})'
  BY <1>6 DEF Free
<1>7. ASSUME NEW m \in Modules, Work(t, m)
      PROVE  (batch # {} => \E u \in lock : pc[u] \in {"work", "seal"})'
  BY <1>7 DEF Work
<1>8. ASSUME NEW m \in Modules, StartCall(t, m)
      PROVE  (batch # {} => \E u \in lock : pc[u] \in {"work", "seal"})'
  BY <1>8 DEF StartCall
<1>9. ASSUME NEW m \in Modules, StartClose(t, m)
      PROVE  (batch # {} => \E u \in lock : pc[u] \in {"work", "seal"})'
  BY <1>9 DEF StartClose
<1>10. ASSUME NEW m \in Modules, StartInstantiate(t, m)
      PROVE  (batch # {} => \E u \in lock : pc[u] \in {"work", "seal"})'
  BY <1>10 DEF StartInstantiate
<1>11. ASSUME NEW b \in Modules, ResolveImport(t, b)
      PROVE  (batch # {} => \E u \in lock : pc[u] \in {"work", "seal"})'
  BY <1>11 DEF ResolveImport, Retainable, retainImport
<1>12. ASSUME NEW b \in Modules, ResolveTable(t, b)
      PROVE  (batch # {} => \E u \in lock : pc[u] \in {"work", "seal"})'
  BY <1>12 DEF ResolveTable, Retainable, retainImport
<1>13. ASSUME NEW b \in Modules, AsyncClose(t, b)
      PROVE  (batch # {} => \E u \in lock : pc[u] \in {"work", "seal"})'
  BY <1>13 DEF AsyncClose
<1> QED
  BY <1>1, <1>2, <1>3, <1>4, <1>5, <1>6, <1>7, <1>8, <1>9, <1>10, <1>11,
      <1>12, <1>13
  DEF Step, Choice

(* A module is closed once and for all. *)
LEMMA ClosedMono ==
  ASSUME NEW t \in Threads, TypeOK, ControlInv,
         Step(t) \/ Choice(t)
  PROVE  \A m \in Modules : closed[m] # "open" => closed'[m] = closed[m]
<1> USE DEF ModuleTypeOK, ThreadTypeOK, TypeOK, ControlInv, LocalOK,
    CallLabels
<1>1. CASE UNCHANGED closed
  BY <1>1
<1>2. CASE CloseSetExitCode(t)
  BY <1>2 DEF CloseSetExitCode
<1>3. ASSUME NEW b \in Modules, AsyncClose(t, b)
      PROVE  \A m \in Modules : closed[m] # "open" => closed'[m] = closed[m]
  BY <1>3 DEF AsyncClose
<1> QED
  BY <1>1, <1>2, <1>3
  DEF Step, Choice, BeginFirst, BeginLoad, BeginPin, BeginConfirm,
      BeginCheck, Return, Trap, ReturnFailIfClosed, RefusedFailIfClosed,
      EndUnpin, EndCheck, EndLock, Drain, DrainDone, FreeDone, RetireLock,
      WorkDone, SealNothing, Seal, LinkDone, LinkFail, Free, Work, StartCall,
      StartClose, StartInstantiate, ResolveImport, ResolveTable

(* t reaches retireMemory only with a module whose Closed flag is set. *)
LEMMA RetireTarget ==
  ASSUME NEW t \in Threads, TypeOK, ControlInv, ClosedInv,
         Step(t) \/ Choice(t)
  PROVE  pc'[t] = "retire" => target'[t] \in Modules /\ closed'[target'[t]] # "open"
<1> USE DEF ModuleTypeOK, ThreadTypeOK, TypeOK, ControlInv, LocalOK,
    ClosedInv, CallLabels, Unpinning
<1>1. CASE BeginFirst(t) \/ BeginLoad(t) \/ BeginPin(t)
    \/ BeginConfirm(t) \/ BeginCheck(t) \/ Return(t)
  BY <1>1 DEF BeginFirst, BeginLoad, BeginPin, BeginConfirm, BeginCheck,
      Return
<1>2. CASE Trap(t) \/ LinkDone(t) \/ LinkFail(t)
  BY <1>2 DEF Trap, LinkDone, LinkFail
<1>3. CASE ReturnFailIfClosed(t)
  BY <1>3 DEF ReturnFailIfClosed
<1>4. CASE RefusedFailIfClosed(t)
  BY <1>4 DEF RefusedFailIfClosed
<1>5. CASE EndUnpin(t)
  <2>1. AfterEnd(pc[t]) \in {"load", "fail", "idle"}
    BY <1>5, AfterEndLabel DEF EndUnpin
  <2>2. pc'[t] \in {"endcheck", "load", "fail", "idle"}
    BY <1>5, <2>1 DEF EndUnpin
  <2> QED BY <1>5, <2>2 DEF EndUnpin
<1>6. CASE EndCheck(t)
  BY <1>6 DEF EndCheck
<1>7. CASE EndLock(t)
  BY <1>7 DEF EndLock
<1>8. CASE Drain(t)
  BY <1>8 DEF Drain
<1>9. CASE DrainDone(t)
  BY <1>9 DEF DrainDone
<1>10. CASE FreeDone(t)
  BY <1>10 DEF FreeDone
<1>11. CASE CloseSetExitCode(t)
  BY <1>11 DEF CloseSetExitCode
<1>12. CASE RetireLock(t)
  BY <1>12 DEF RetireLock
<1>13. CASE WorkDone(t)
  BY <1>13 DEF WorkDone
<1>14. CASE SealNothing(t)
  BY <1>14 DEF SealNothing
<1>15. CASE Seal(t)
  BY <1>15 DEF Seal
<1>16. ASSUME NEW o \in Owners, Free(t, o)
      PROVE  pc'[t] = "retire" => target'[t] \in Modules /\ closed'[target'[t]] # "open"
  BY <1>16 DEF Free
<1>17. ASSUME NEW m \in Modules, Work(t, m)
      PROVE  pc'[t] = "retire" => target'[t] \in Modules /\ closed'[target'[t]] # "open"
  BY <1>17 DEF Work
<1>18. ASSUME NEW m \in Modules, StartCall(t, m)
      PROVE  pc'[t] = "retire" => target'[t] \in Modules /\ closed'[target'[t]] # "open"
  BY <1>18 DEF StartCall
<1>19. ASSUME NEW m \in Modules, StartClose(t, m)
      PROVE  pc'[t] = "retire" => target'[t] \in Modules /\ closed'[target'[t]] # "open"
  BY <1>19 DEF StartClose
<1>20. ASSUME NEW m \in Modules, StartInstantiate(t, m)
      PROVE  pc'[t] = "retire" => target'[t] \in Modules /\ closed'[target'[t]] # "open"
  BY <1>20 DEF StartInstantiate
<1>21. ASSUME NEW b \in Modules, ResolveImport(t, b)
      PROVE  pc'[t] = "retire" => target'[t] \in Modules /\ closed'[target'[t]] # "open"
  BY <1>21 DEF ResolveImport, Retainable, retainImport
<1>22. ASSUME NEW b \in Modules, ResolveTable(t, b)
      PROVE  pc'[t] = "retire" => target'[t] \in Modules /\ closed'[target'[t]] # "open"
  BY <1>22 DEF ResolveTable, Retainable, retainImport
<1>23. ASSUME NEW b \in Modules, AsyncClose(t, b)
      PROVE  pc'[t] = "retire" => target'[t] \in Modules /\ closed'[target'[t]] # "open"
  BY <1>23 DEF AsyncClose
<1> QED
  BY <1>1, <1>2, <1>3, <1>4, <1>5, <1>6, <1>7, <1>8, <1>9, <1>10, <1>11,
      <1>12, <1>13, <1>14, <1>15, <1>16, <1>17, <1>18, <1>19, <1>20, <1>21,
      <1>22, <1>23
  DEF Step, Choice

(* Memory is released only for modules whose Closed flag is set. *)
LEMMA ClosedStep ==
  ASSUME NEW t \in Threads, TypeOK, ControlInv, ClosedInv, OthersSame(t),
         Step(t) \/ Choice(t)
  PROVE  ClosedInv'
<1>1. \A m \in Modules : closed[m] # "open" => closed'[m] = closed[m]
  BY ClosedMono
<1>2. \A m \in Modules :
        /\ memoryReleased'[m] => memoryClosed'[m]
        /\ memoryClosed'[m] => closed'[m] # "open"
  <2>1. CASE UNCHANGED <<memoryClosed, memoryReleased>>
    BY <1>1, <2>1 DEF ClosedInv
  <2>2. CASE RetireLock(t)
    <3>1. target[t] \in Modules /\ closed[target[t]] # "open"
      BY <2>2 DEF RetireLock, ControlInv, LocalOK, ClosedInv
    <3>2. /\ memoryReleased' = memoryReleased
          /\ \/ memoryClosed' = memoryClosed
             \/ memoryClosed' = [memoryClosed EXCEPT ![target[t]] = TRUE]
      BY <2>2 DEF RetireLock
    <3> QED BY <1>1, <3>1, <3>2 DEF ClosedInv, TypeOK, ModuleTypeOK
  <2>3. ASSUME NEW m \in Modules, Work(t, m)
        PROVE  \A x \in Modules :
                  /\ memoryReleased'[x] => memoryClosed'[x]
                  /\ memoryClosed'[x] => closed'[x] # "open"
    BY <1>1, <2>3 DEF Work, Releasable, unreferencedClosedModules, ClosedInv
  <2> QED
    BY <2>1, <2>2, <2>3
    DEF Step, Choice, BeginFirst, BeginLoad, BeginPin, BeginConfirm,
        BeginCheck, Return, Trap, ReturnFailIfClosed, RefusedFailIfClosed,
            EndUnpin, EndCheck, EndLock, Drain, DrainDone, FreeDone,
                CloseSetExitCode, WorkDone, SealNothing, Seal, LinkDone,
                    LinkFail, Free, StartCall, StartClose, StartInstantiate,
                        ResolveImport, ResolveTable, AsyncClose
<1>3. \A u \in Threads : pc'[u] = "retire" => closed'[target'[u]] # "open"
  <2>1. ASSUME NEW u \in Threads \ {t} PROVE pc'[u] = "retire" => closed'[target'[u]] # "open"
    <3>1. pc[u] = "retire" => target[u] \in Modules /\ closed[target[u]] # "open"
      BY DEF ControlInv, LocalOK, ClosedInv
    <3> QED BY <1>1, <3>1 DEF OthersSame
  <2> QED BY <2>1, RetireTarget
<1> QED BY <1>2, <1>3 DEF ClosedInv

(* While t links, the module it links is open and its own. *)
LEMMA LinkStep ==
  ASSUME NEW t \in Threads, TypeOK, ControlInv, LinkingInv,
         Step(t) \/ Choice(t)
  PROVE  LinkOK(t)'
<1> USE DEF ModuleTypeOK, ThreadTypeOK, TypeOK, ControlInv, LocalOK,
    LinkingInv, LinkOK, CallLabels, Nested, Unpinning
<1>1. CASE BeginFirst(t) \/ BeginLoad(t) \/ BeginPin(t)
    \/ BeginConfirm(t) \/ BeginCheck(t) \/ Return(t)
  BY <1>1 DEF BeginFirst, BeginLoad, BeginPin, BeginConfirm, BeginCheck,
      Return
<1>2. CASE Trap(t) \/ ReturnFailIfClosed(t) \/ RefusedFailIfClosed(t)
    \/ EndCheck(t) \/ EndLock(t) \/ Drain(t)
  BY <1>2 DEF Trap, ReturnFailIfClosed, RefusedFailIfClosed, EndCheck,
      EndLock, Drain
<1>3. CASE DrainDone(t) \/ FreeDone(t) \/ CloseSetExitCode(t)
    \/ RetireLock(t) \/ WorkDone(t) \/ SealNothing(t)
  BY <1>3 DEF DrainDone, FreeDone, CloseSetExitCode, RetireLock, WorkDone,
      SealNothing
<1>4. CASE Seal(t) \/ LinkDone(t) \/ LinkFail(t)
  BY <1>4 DEF Seal, LinkDone, LinkFail
<1>5. CASE EndUnpin(t)
  <2>1. AfterEnd(pc[t]) \in {"load", "fail", "idle"}
    BY <1>5, AfterEndLabel DEF EndUnpin
  <2>2. CASE active[epoch[t]] = 1
    BY <1>5, <2>1, <2>2 DEF EndUnpin
  <2>3. CASE active[epoch[t]] # 1
    BY <1>5, <2>1, <2>3 DEF EndUnpin
  <2> QED BY <2>2, <2>3
<1>6. ASSUME NEW o \in Owners, Free(t, o) PROVE  LinkOK(t)'
  BY <1>6 DEF Free
<1>7. ASSUME NEW m \in Modules, Work(t, m) PROVE  LinkOK(t)'
  BY <1>7 DEF Work
<1>8. ASSUME NEW m \in Modules, StartCall(t, m) PROVE  LinkOK(t)'
  BY <1>8 DEF StartCall
<1>9. ASSUME NEW m \in Modules, StartClose(t, m) PROVE  LinkOK(t)'
  BY <1>9 DEF StartClose
<1>10. ASSUME NEW m \in Modules, StartInstantiate(t, m) PROVE  LinkOK(t)'
  BY <1>10 DEF StartInstantiate
<1>11. ASSUME NEW b \in Modules, ResolveImport(t, b) PROVE  LinkOK(t)'
  BY <1>11 DEF ResolveImport, Retainable, retainImport
<1>12. ASSUME NEW b \in Modules, ResolveTable(t, b) PROVE  LinkOK(t)'
  BY <1>12 DEF ResolveTable, Retainable, retainImport
<1>13. ASSUME NEW b \in Modules, AsyncClose(t, b) PROVE  LinkOK(t)'
  BY <1>13 DEF AsyncClose
<1> QED
  BY <1>1, <1>2, <1>3, <1>4, <1>5, <1>6, <1>7, <1>8, <1>9, <1>10, <1>11,
      <1>12, <1>13
  DEF Step, Choice

(* An action of t takes nothing from the module another thread links. *)
LEMMA LinkOthersStep ==
  ASSUME NEW t \in Threads, TypeOK, ControlInv, LinkingInv, OthersSame(t),
         Step(t) \/ Choice(t)
  PROVE  (\A u \in Threads \ {t} : LinkOK(u)')
         /\ (\A x \in Modules : status[x] = "absent" => closed[x] = "open")'
<1> USE DEF ModuleTypeOK, ThreadTypeOK, TypeOK, ControlInv, LocalOK,
    LinkingInv, LinkOK, CallLabels, Nested, OthersSame
<1>1. CASE BeginFirst(t) \/ BeginLoad(t) \/ BeginPin(t)
    \/ BeginConfirm(t) \/ BeginCheck(t) \/ Return(t)
  BY <1>1 DEF BeginFirst, BeginLoad, BeginPin, BeginConfirm, BeginCheck,
      Return
<1>2. CASE Trap(t) \/ ReturnFailIfClosed(t) \/ RefusedFailIfClosed(t)
    \/ EndUnpin(t) \/ EndCheck(t) \/ EndLock(t)
  BY <1>2 DEF Trap, ReturnFailIfClosed, RefusedFailIfClosed, EndUnpin,
      EndCheck, EndLock
<1>3. CASE SealNothing(t)
  BY <1>3 DEF SealNothing
<1>4. CASE Drain(t)
  BY <1>4 DEF Drain
<1>5. CASE DrainDone(t)
  BY <1>5 DEF DrainDone
<1>6. CASE FreeDone(t)
  BY <1>6 DEF FreeDone
<1>7. CASE CloseSetExitCode(t)
  BY <1>7 DEF CloseSetExitCode
<1>8. CASE RetireLock(t)
  BY <1>8 DEF RetireLock
<1>9. CASE WorkDone(t)
  BY <1>9 DEF WorkDone
<1>10. CASE Seal(t)
  BY <1>10 DEF Seal
<1>11. CASE LinkDone(t)
  BY <1>11 DEF LinkDone
<1>12. CASE LinkFail(t)
  BY <1>12 DEF LinkFail
<1>13. ASSUME NEW o \in Owners, Free(t, o)
      PROVE  (\A u \in Threads \ {t} : LinkOK(u)')
         /\ (\A x \in Modules : status[x] = "absent" => closed[x] = "open")'
  BY <1>13 DEF Free
<1>14. ASSUME NEW m \in Modules, Work(t, m)
      PROVE  (\A u \in Threads \ {t} : LinkOK(u)')
         /\ (\A x \in Modules : status[x] = "absent" => closed[x] = "open")'
  BY <1>14 DEF Work
<1>15. ASSUME NEW m \in Modules, StartCall(t, m)
      PROVE  (\A u \in Threads \ {t} : LinkOK(u)')
         /\ (\A x \in Modules : status[x] = "absent" => closed[x] = "open")'
  BY <1>15 DEF StartCall
<1>16. ASSUME NEW m \in Modules, StartClose(t, m)
      PROVE  (\A u \in Threads \ {t} : LinkOK(u)')
         /\ (\A x \in Modules : status[x] = "absent" => closed[x] = "open")'
  BY <1>16 DEF StartClose
<1>17. ASSUME NEW m \in Modules, StartInstantiate(t, m)
      PROVE  (\A u \in Threads \ {t} : LinkOK(u)')
         /\ (\A x \in Modules : status[x] = "absent" => closed[x] = "open")'
  BY <1>17 DEF StartInstantiate
<1>18. ASSUME NEW b \in Modules, ResolveImport(t, b)
      PROVE  (\A u \in Threads \ {t} : LinkOK(u)')
         /\ (\A x \in Modules : status[x] = "absent" => closed[x] = "open")'
  BY <1>18 DEF ResolveImport, Retainable, retainImport
<1>19. ASSUME NEW b \in Modules, ResolveTable(t, b)
      PROVE  (\A u \in Threads \ {t} : LinkOK(u)')
         /\ (\A x \in Modules : status[x] = "absent" => closed[x] = "open")'
  BY <1>19 DEF ResolveTable, Retainable, retainImport
<1>20. ASSUME NEW b \in Modules, AsyncClose(t, b)
      PROVE  (\A u \in Threads \ {t} : LinkOK(u)')
         /\ (\A x \in Modules : status[x] = "absent" => closed[x] = "open")'
  BY <1>20 DEF AsyncClose
<1> QED
  BY <1>1, <1>2, <1>3, <1>4, <1>5, <1>6, <1>7, <1>8, <1>9, <1>10, <1>11,
      <1>12, <1>13, <1>14, <1>15, <1>16, <1>17, <1>18, <1>19, <1>20
  DEF Step, Choice

(* Only its own thread links a module, and none closes it meanwhile. *)
LEMMA LinkAloneStep ==
  ASSUME NEW t \in Threads, TypeOK, ControlInv, LinkingInv, OthersSame(t),
         Step(t) \/ Choice(t)
  PROVE  (\A u, v \in Threads : u # v /\ pc[u] = "link" =>
            /\ pc[v] = "link" => entry[v] # entry[u]
            /\ pc[v] \in {"closing", "retire"} => target[v] # entry[u])'
<1> USE DEF ModuleTypeOK, ThreadTypeOK, TypeOK, ControlInv, LocalOK,
    LinkingInv, LinkOK, CallLabels, Nested, Unpinning, OthersSame
<1>0. CASE pc'[t] \notin {"link", "closing", "retire"}
  BY <1>0
<1>1. CASE Trap(t)
  BY <1>1 DEF Trap
<1>2. CASE BeginFirst(t)
  BY <1>2 DEF BeginFirst
<1>3. CASE BeginLoad(t)
  BY <1>3 DEF BeginLoad
<1>4. CASE BeginPin(t)
  BY <1>4 DEF BeginPin
<1>5. CASE BeginConfirm(t)
  BY <1>5 DEF BeginConfirm
<1>6. CASE BeginCheck(t)
  BY <1>6 DEF BeginCheck
<1>7. CASE Return(t)
  BY <1>7 DEF Return
<1>8. CASE ReturnFailIfClosed(t)
  BY <1>8 DEF ReturnFailIfClosed
<1>9. CASE RefusedFailIfClosed(t)
  BY <1>9 DEF RefusedFailIfClosed
<1>10. CASE EndUnpin(t)
  <2>1. AfterEnd(pc[t]) \in {"load", "fail", "idle"}
    BY <1>10, AfterEndLabel DEF EndUnpin
  <2>2. pc'[t] \in {"endcheck", "load", "fail", "idle"}
    BY <1>10, <2>1 DEF EndUnpin
  <2>3. pc'[t] \notin {"link", "closing", "retire"}
    BY ONLY <2>2
  <2> QED BY <1>0, <2>3
<1>11. CASE EndCheck(t)
  <2>1. pc[t] = "endcheck"
    BY <1>11 DEF EndCheck
  <2>2. resume[t] \in {"load", "fail", "idle"}
    BY <2>1
  <2>3. pc'[t] = IF epoch[t] = current THEN resume[t] ELSE "collect"
    BY <1>11 DEF EndCheck
  <2>4. pc'[t] \notin {"link", "closing", "retire"}
    BY <2>2, <2>3
  <2> QED BY <1>0, <2>4
<1>12. CASE EndLock(t)
  BY <1>12 DEF EndLock
<1>13. CASE Drain(t)
  BY <1>13 DEF Drain
<1>14. CASE DrainDone(t)
  BY <1>14 DEF DrainDone
<1>15. CASE FreeDone(t)
  <2>1. pc[t] = "free" /\ pc'[t] = resume[t]
    BY <1>15 DEF FreeDone
  <2>2. resume[t] \in {"idle", "guest", "unpinReturn", "load", "fail"}
    BY <2>1
  <2>3. pc'[t] \notin {"link", "closing", "retire"}
    BY ONLY <2>1, <2>2
  <2> QED BY <1>0, <2>3
<1>16. CASE CloseSetExitCode(t)
  <2>1. CASE closed[target[t]] = "open"
    BY <1>16, <2>1 DEF CloseSetExitCode
  <2>2. CASE closed[target[t]] # "open"
    <3>1. pc[t] = "closing" /\ pc'[t] = resume[t]
      BY <1>16, <2>2 DEF CloseSetExitCode
    <3>2. resume[t] \in {"idle", "guest"}
      BY <3>1
    <3>3. pc'[t] \notin {"link", "closing", "retire"}
      BY ONLY <3>1, <3>2
    <3> QED BY <1>0, <3>3
  <2> QED BY <2>1, <2>2
<1>17. CASE RetireLock(t)
  <2>1. CASE memoryClosed[target[t]]
    <3>1. pc[t] = "retire" /\ pc'[t] = resume[t]
      BY <1>17, <2>1 DEF RetireLock
    <3>2. resume[t] \in {"idle", "guest", "unpinReturn"}
      BY <3>1
    <3>3. pc'[t] \notin {"link", "closing", "retire"}
      BY ONLY <3>1, <3>2
    <3> QED BY <1>0, <3>3
  <2>2. CASE ~ (memoryClosed[target[t]])
    BY <1>17, <2>2 DEF RetireLock
  <2> QED BY <2>1, <2>2
<1>18. CASE WorkDone(t)
  BY <1>18 DEF WorkDone
<1>19. CASE SealNothing(t)
  <2>1. pc[t] = "seal" /\ pc'[t] = resume[t]
    BY <1>19 DEF SealNothing
  <2>2. resume[t] \in {"idle", "guest", "unpinReturn"}
    BY <2>1
  <2>3. pc'[t] \notin {"link", "closing", "retire"}
    BY ONLY <2>1, <2>2
  <2> QED BY <1>0, <2>3
<1>20. CASE Seal(t)
  BY <1>20 DEF Seal
<1>21. CASE LinkDone(t)
  BY <1>21 DEF LinkDone
<1>22. CASE LinkFail(t)
  BY <1>22 DEF LinkFail
<1>23. ASSUME NEW o \in Owners, Free(t, o)
      PROVE  (\A u, v \in Threads : u # v /\ pc[u] = "link" =>
            /\ pc[v] = "link" => entry[v] # entry[u]
            /\ pc[v] \in {"closing", "retire"} => target[v] # entry[u])'
  BY <1>23 DEF Free
<1>24. ASSUME NEW m \in Modules, Work(t, m)
      PROVE  (\A u, v \in Threads : u # v /\ pc[u] = "link" =>
            /\ pc[v] = "link" => entry[v] # entry[u]
            /\ pc[v] \in {"closing", "retire"} => target[v] # entry[u])'
  BY <1>24 DEF Work
<1>25. ASSUME NEW m \in Modules, StartCall(t, m)
      PROVE  (\A u, v \in Threads : u # v /\ pc[u] = "link" =>
            /\ pc[v] = "link" => entry[v] # entry[u]
            /\ pc[v] \in {"closing", "retire"} => target[v] # entry[u])'
  BY <1>25 DEF StartCall
<1>26. ASSUME NEW m \in Modules, StartClose(t, m)
      PROVE  (\A u, v \in Threads : u # v /\ pc[u] = "link" =>
            /\ pc[v] = "link" => entry[v] # entry[u]
            /\ pc[v] \in {"closing", "retire"} => target[v] # entry[u])'
  BY <1>26 DEF StartClose
<1>27. ASSUME NEW m \in Modules, StartInstantiate(t, m)
      PROVE  (\A u, v \in Threads : u # v /\ pc[u] = "link" =>
            /\ pc[v] = "link" => entry[v] # entry[u]
            /\ pc[v] \in {"closing", "retire"} => target[v] # entry[u])'
  BY <1>27 DEF StartInstantiate
<1>28. ASSUME NEW b \in Modules, ResolveImport(t, b)
      PROVE  (\A u, v \in Threads : u # v /\ pc[u] = "link" =>
            /\ pc[v] = "link" => entry[v] # entry[u]
            /\ pc[v] \in {"closing", "retire"} => target[v] # entry[u])'
  <2>1. CASE Retainable(b)
    BY <1>28, <2>1 DEF ResolveImport
  <2>2. CASE ~ Retainable(b)
    <3>1. pc'[t] = "closing" /\ target'[t] = entry[t] /\ pc[t] = "link"
      BY <1>28, <2>2 DEF ResolveImport
    <3> QED BY <3>1
  <2> QED BY <2>1, <2>2
<1>29. ASSUME NEW b \in Modules, ResolveTable(t, b)
      PROVE  (\A u, v \in Threads : u # v /\ pc[u] = "link" =>
            /\ pc[v] = "link" => entry[v] # entry[u]
            /\ pc[v] \in {"closing", "retire"} => target[v] # entry[u])'
  BY <1>29 DEF ResolveTable, Retainable, retainImport
<1>30. ASSUME NEW b \in Modules, AsyncClose(t, b)
      PROVE  (\A u, v \in Threads : u # v /\ pc[u] = "link" =>
            /\ pc[v] = "link" => entry[v] # entry[u]
            /\ pc[v] \in {"closing", "retire"} => target[v] # entry[u])'
  BY <1>30 DEF AsyncClose
<1> QED
  BY <1>1, <1>2, <1>3, <1>4, <1>5, <1>6, <1>7, <1>8, <1>9, <1>10, <1>11,
      <1>12, <1>13, <1>14, <1>15, <1>16, <1>17, <1>18, <1>19, <1>20, <1>21,
      <1>22, <1>23, <1>24, <1>25, <1>26, <1>27, <1>28, <1>29, <1>30
  DEF Step, Choice

(***************************************************************************)
(* What one turn of the worklist releases.                                 *)
(***************************************************************************)
LEMMA RetainersFacts ==
  ASSUME NEW m \in Modules
  PROVE  /\ Retainers(m) \subseteq Modules
         /\ \A b \in Retainers(m) : \A a \in Modules :
               importers[b][a] > 0 => a \in Retainers(m)
         /\ \A S \in SUBSET Modules :
               m \in S /\ ImportersClosed(S) => Retainers(m) \subseteq S
  BY DEF Retainers, ImportersClosed

(* Importers of what is released are released with it, and nothing that    *)
(* was released before is released again.                                  *)
LEMMA ReleasableFacts ==
  ASSUME NEW m \in Modules, ModuleTypeOK, GraphInv
  PROVE  /\ Releasable(m) \subseteq Modules
         /\ \A b \in Releasable(m) : \A a \in Modules :
               importers[b][a] > 0 => a \in Releasable(m)
         /\ \A x \in Releasable(m) : ~ memoryReleased[x]
<1>1. CASE Releasable(m) = {}
  BY <1>1
<1>2. CASE Releasable(m) # {}
  <2>1. Releasable(m) = Retainers(m) /\ ~ memoryReleased[m]
    BY <1>2 DEF Releasable, unreferencedClosedModules
  <2> DEFINE U == {x \in Modules : ~ memoryReleased[x]}
  <2>2. m \in U /\ ImportersClosed(U)
    BY <2>1 DEF ImportersClosed, GraphInv
  <2>3. Retainers(m) \subseteq U
    BY <2>2, RetainersFacts
  <2> QED BY <2>1, <2>3, RetainersFacts
<1> QED BY <1>1, <1>2

(* One turn of the worklist keeps counts, edges and release times          *)
(* consistent.                                                             *)
LEMMA GraphWork ==
  ASSUME NEW t \in Threads, NEW m \in Modules, ModuleTypeOK, GraphInv,
         current \in Nat, Work(t, m)
  PROVE  GraphInv'
<1> DEFINE Rel == Releasable(m)
<1>1. /\ Rel \subseteq Modules
      /\ \A b \in Rel : \A a \in Modules : importers[b][a] > 0 => a \in Rel
      /\ \A x \in Rel : ~ memoryReleased[x]
  BY ReleasableFacts
<1>2. \A a, b \in Modules :
        /\ importers'[b][a] = IF a \in Rel THEN 0 ELSE importers[b][a]
        /\ importedModules'[a][b] = IF a \in Rel THEN 0 ELSE importedModules[a][b]
  <2>1. ASSUME NEW a \in Modules, NEW b \in Modules
        PROVE  /\ importers'[b][a] = IF a \in Rel THEN 0 ELSE importers[b][a]
               /\ importedModules'[a][b] = IF a \in Rel THEN 0 ELSE importedModules[a][b]
    <3>1. /\ importers[b][a] \in Nat /\ importedModules[a][b] = importers[b][a]
      BY DEF GraphInv, ModuleTypeOK
    <3> QED BY <3>1 DEF Work, NoImports
  <2> QED BY <2>1
<1>3. /\ \A x \in Modules : memoryReleased'[x] <=> memoryReleased[x] \/ x \in Rel
      /\ \A x \in Modules : releasedAt'[x] = IF x \in Rel THEN current ELSE releasedAt[x]
      /\ links' = links /\ current' = current
  BY DEF Work
<1> HIDE DEF Rel
<1>4. \A a, b \in Modules : importers'[b][a] = importedModules'[a][b]
  BY <1>2 DEF GraphInv
<1>5. \A a, b \in Modules :
        importers'[b][a] > 0 <=> <<a, b>> \in links' /\ ~ memoryReleased'[a]
  <2> TAKE a, b \in Modules
  <2>1. importers[b][a] > 0 <=> <<a, b>> \in links /\ ~ memoryReleased[a]
    BY DEF GraphInv
  <2>2. CASE a \in Rel
    BY <1>2, <1>3, <2>2
  <2>3. CASE a \notin Rel
    BY <1>2, <1>3, <2>1, <2>3
  <2> QED BY <2>2, <2>3
<1>6. \A a, b \in Modules : <<a, b>> \in links' /\ memoryReleased'[b] =>
        memoryReleased'[a] /\ releasedAt'[a] <= releasedAt'[b]
  <2>1. SUFFICES ASSUME NEW a \in Modules, NEW b \in Modules,
                        <<a, b>> \in links, memoryReleased'[b]
                 PROVE  memoryReleased'[a] /\ releasedAt'[a] <= releasedAt'[b]
    BY <1>3
  <2>2. releasedAt[a] <= current /\ releasedAt[a] \in Nat /\ releasedAt[b] \in Nat
    BY DEF GraphInv, ModuleTypeOK
  <2>3. CASE b \in Rel
    <3>1. a \in Rel \/ memoryReleased[a]
      BY <1>1, <2>1, <2>3 DEF GraphInv
    <3> QED BY <1>3, <2>2, <2>3, <3>1
  <2>4. CASE b \notin Rel
    <3>1. memoryReleased[b]
      BY <1>3, <2>1, <2>4
    <3>2. memoryReleased[a] /\ releasedAt[a] <= releasedAt[b]
      BY <2>1, <3>1 DEF GraphInv
    <3> QED BY <1>1, <1>3, <2>4, <3>2
  <2> QED BY <2>3, <2>4
<1>7. \A x \in Modules : releasedAt'[x] <= current'
  BY <1>3 DEF GraphInv
<1> QED BY <1>4, <1>5, <1>6, <1>7 DEF GraphInv

(* a retains b while neither is released. *)
LEMMA GraphRetain ==
  ASSUME NEW a \in Modules, NEW b \in Modules, ModuleTypeOK, GraphInv,
         ~ memoryReleased[a], ~ memoryReleased[b], retainImport(a, b),
         UNCHANGED <<memoryReleased, releasedAt, current>>
  PROVE  GraphInv'
<1>1. /\ importers' = [importers EXCEPT ![b][a] = @ + 1]
      /\ importedModules' = [importedModules EXCEPT ![a][b] = @ + 1]
      /\ links' = links \cup {<<a, b>>}
  BY DEF retainImport
<1>2. /\ importers \in [Modules -> [Modules -> Nat]]
      /\ importedModules \in [Modules -> [Modules -> Nat]]
  BY DEF ModuleTypeOK
<1>3. \A x, y \in Modules :
        /\ importers'[y][x] = IF x = a /\ y = b THEN importers[y][x] + 1
                              ELSE importers[y][x]
        /\ importedModules'[x][y] = IF x = a /\ y = b THEN importedModules[x][y] + 1
                                    ELSE importedModules[x][y]
        /\ importers[y][x] \in Nat
  BY ONLY <1>1, <1>2
<1>4. \A x, y \in Modules : importers'[y][x] = importedModules'[x][y]
  BY <1>3 DEF GraphInv
<1>5. \A x, y \in Modules :
        importers'[y][x] > 0 <=> <<x, y>> \in links' /\ ~ memoryReleased'[x]
  <2> TAKE x, y \in Modules
  <2>1. importers[y][x] > 0 <=> <<x, y>> \in links /\ ~ memoryReleased[x]
    BY DEF GraphInv
  <2>2. CASE x = a /\ y = b
    BY <1>1, <1>3, <2>2
  <2>3. CASE ~ (x = a /\ y = b)
    BY <1>1, <1>3, <2>1, <2>3
  <2> QED BY <2>2, <2>3
<1>6. \A x, y \in Modules : <<x, y>> \in links' /\ memoryReleased'[y] =>
        memoryReleased'[x] /\ releasedAt'[x] <= releasedAt'[y]
  BY <1>1 DEF GraphInv
<1> QED BY <1>4, <1>5, <1>6 DEF GraphInv

(* The retained graph: an edge exists while its importer is not released,  *)
(* and a module is released no earlier than those that import it.          *)
LEMMA GraphStep ==
  ASSUME NEW t \in Threads, TypeOK, ControlInv, ClosedInv, LinkingInv,
      GraphInv,
         current' \in Nat, current <= current', Step(t) \/ Choice(t)
  PROVE  GraphInv'
<1>1. ModuleTypeOK /\ ThreadTypeOK /\ current \in Nat
  BY DEF TypeOK, EpochTypeOK
<1>2. CASE UNCHANGED <<importers, importedModules, links, memoryReleased,
    releasedAt>>
  <2>1. \A m \in Modules : releasedAt[m] <= current'
    BY <1>1 DEF GraphInv, ModuleTypeOK
  <2> QED BY <1>2, <2>1 DEF GraphInv
<1>3. ASSUME NEW m \in Modules, Work(t, m) PROVE GraphInv'
  BY <1>1, <1>3, GraphWork
<1>4. ASSUME pc[t] = "link"
      PROVE  entry[t] \in Modules /\ ~ memoryReleased[entry[t]]
  BY <1>4 DEF ControlInv, LocalOK, LinkingInv, LinkOK, ClosedInv
<1>5. ASSUME NEW b \in Modules, ResolveImport(t, b) PROVE GraphInv'
  <2>1. CASE Retainable(b)
    <3>1. ~ memoryReleased[b]
      BY <2>1 DEF Retainable, ClosedInv
    <3>2. /\ pc[t] = "link" /\ retainImport(entry[t], b)
          /\ UNCHANGED <<memoryReleased, releasedAt, current>>
      BY <1>5, <2>1 DEF ResolveImport
    <3> QED BY <1>1, <1>4, <3>1, <3>2, GraphRetain
  <2>2. CASE ~ Retainable(b)
    BY <1>2, <1>5, <2>2 DEF ResolveImport
  <2> QED BY <2>1, <2>2
<1>6. ASSUME NEW b \in Modules, ResolveTable(t, b) PROVE GraphInv'
  <2>1. CASE Retainable(entry[t])
    <3>1. /\ pc[t] = "link" /\ retainImport(b, entry[t])
          /\ importers[b][entry[t]] > 0
          /\ UNCHANGED <<memoryReleased, releasedAt, current>>
      BY <1>6, <2>1 DEF ResolveTable
    <3>2. ~ memoryReleased[b]
      BY <1>4, <3>1 DEF GraphInv
    <3> QED BY <1>1, <1>4, <3>1, <3>2, GraphRetain
  <2>2. CASE ~ Retainable(entry[t])
    BY <1>2, <1>6, <2>2 DEF ResolveTable
  <2> QED BY <2>1, <2>2
<1> QED
  BY <1>2, <1>3, <1>5, <1>6
  DEF Step, Choice, BeginFirst, BeginLoad, BeginPin, BeginConfirm,
      BeginCheck, Return, Trap, ReturnFailIfClosed, RefusedFailIfClosed,
          EndUnpin, EndCheck, EndLock, Drain, DrainDone, FreeDone,
              CloseSetExitCode, RetireLock, WorkDone, SealNothing, Seal,
                  LinkDone, LinkFail, Free, StartCall, StartClose,
                      StartInstantiate, AsyncClose

(* t gets to the guest only with a pin of the epoch that was current. *)
LEMMA EntryStep ==
  ASSUME NEW t \in Threads, TypeOK, current \in Nat, ControlInv, EntryInv,
      ClosedInv, PinInv, GraphInv,
         Step(t) \/ Choice(t)
  PROVE  EntryOK(t)'
<1> USE DEF ModuleTypeOK, ThreadTypeOK, TypeOK, ControlInv, LocalOK,
    EntryInv, EntryOK, ClosedInv, GraphInv, PinInv, PinOK, Pinned,
    CallLabels, Nested, Unpinning
<1>1. CASE BeginFirst(t) \/ BeginLoad(t) \/ BeginPin(t)
    \/ BeginConfirm(t) \/ BeginCheck(t) \/ Return(t)
  BY <1>1 DEF BeginFirst, BeginLoad, BeginPin, BeginConfirm, BeginCheck,
      Return
<1>2. CASE Trap(t) \/ ReturnFailIfClosed(t) \/ RefusedFailIfClosed(t)
    \/ EndCheck(t) \/ Drain(t) \/ DrainDone(t)
  BY <1>2 DEF Trap, ReturnFailIfClosed, RefusedFailIfClosed, EndCheck, Drain,
      DrainDone
<1>3. CASE FreeDone(t) \/ CloseSetExitCode(t) \/ RetireLock(t)
    \/ WorkDone(t) \/ SealNothing(t) \/ Seal(t)
  BY <1>3 DEF FreeDone, CloseSetExitCode, RetireLock, WorkDone, SealNothing,
      Seal
<1>4. CASE LinkDone(t) \/ LinkFail(t)
  BY <1>4 DEF LinkDone, LinkFail
<1>5. CASE EndUnpin(t)
  <2>1. AfterEnd(pc[t]) \in {"load", "fail", "idle"}
    BY <1>5, AfterEndLabel DEF EndUnpin
  <2>2. pc'[t] \in {"endcheck", "load", "fail", "idle"}
    BY <1>5, <2>1 DEF EndUnpin
  <2> QED BY <1>5, <2>2 DEF EndUnpin
<1>6. CASE EndLock(t)
  <2>0. resume[t] \in {"load", "fail", "idle"} /\ pc[t] = "collect"
    BY ONLY <1>6, ControlInv, t \in Threads DEF EndLock, At, ControlInv,
        LocalOK
  <2>1. pc'[t] = "drain" /\ resume'[t] # "guest"
    BY ONLY <1>6, <2>0, ThreadTypeOK, t \in Threads DEF EndLock, Goto,
        ThreadTypeOK
  <2> QED BY <2>1
<1>7. ASSUME NEW o \in Owners, Free(t, o) PROVE  EntryOK(t)'
  BY <1>7 DEF Free
<1>8. ASSUME NEW m \in Modules, Work(t, m) PROVE  EntryOK(t)'
  BY <1>8 DEF Work
<1>9. ASSUME NEW m \in Modules, StartCall(t, m) PROVE  EntryOK(t)'
  BY <1>9 DEF StartCall
<1>10. ASSUME NEW m \in Modules, StartClose(t, m) PROVE  EntryOK(t)'
  BY <1>10 DEF StartClose
<1>11. ASSUME NEW m \in Modules, StartInstantiate(t, m) PROVE  EntryOK(t)'
  BY <1>11 DEF StartInstantiate
<1>12. ASSUME NEW b \in Modules, ResolveImport(t, b) PROVE  EntryOK(t)'
  BY <1>12 DEF ResolveImport, Retainable, retainImport
<1>13. ASSUME NEW b \in Modules, ResolveTable(t, b) PROVE  EntryOK(t)'
  BY <1>13 DEF ResolveTable, Retainable, retainImport
<1>14. ASSUME NEW b \in Modules, AsyncClose(t, b) PROVE  EntryOK(t)'
  BY <1>14 DEF AsyncClose
<1> QED
  BY <1>1, <1>2, <1>3, <1>4, <1>5, <1>6, <1>7, <1>8, <1>9, <1>10, <1>11,
      <1>12, <1>13, <1>14
  DEF Step, Choice

(* Calls in flight entered their module before it was released. *)
LEMMA EntryOthersStep ==
  ASSUME NEW t \in Threads, TypeOK, ControlInv, EntryInv, PinInv,
      OthersSame(t),
         Step(t) \/ Choice(t), NEW u \in Threads \ {t}
  PROVE  EntryOK(u)'
<1> DEFINE InCall == pc[u] = "guest" \/ (pc[u] \in Nested /\ resume[u] = "guest")
<1>1. EntryOK(u)' <=>
        (InCall => (memoryReleased'[entry[u]] => epoch[u] <= releasedAt'[entry[u]]))
  BY DEF EntryOK, OthersSame
<1>2. InCall => /\ memoryReleased[entry[u]] => epoch[u] <= releasedAt[entry[u]]
                /\ epoch[u] <= current
                /\ entry[u] \in Modules
  BY DEF EntryInv, EntryOK, PinInv, PinOK, Pinned, ControlInv, LocalOK,
      CallLabels, TypeOK, ThreadTypeOK, EpochTypeOK
<1>3. CASE UNCHANGED <<memoryReleased, releasedAt>>
  BY <1>1, <1>2, <1>3
<1>4. ASSUME NEW m \in Modules, Work(t, m) PROVE EntryOK(u)'
  BY <1>1, <1>2, <1>4 DEF Work
<1> QED
  BY <1>3, <1>4
  DEF Step, Choice, BeginFirst, BeginLoad, BeginPin, BeginConfirm,
      BeginCheck, Return, Trap, ReturnFailIfClosed, RefusedFailIfClosed,
          EndUnpin, EndCheck, EndLock, Drain, DrainDone, FreeDone,
              CloseSetExitCode, RetireLock, WorkDone, SealNothing, Seal,
                  LinkDone, LinkFail, Free, StartCall, StartClose,
                      StartInstantiate, ResolveImport, ResolveTable,
                          AsyncClose

(* A memory is in one place: with its module, in the batch of the retiring *)
(* thread, retired in one epoch, about to be freed by one thread, or freed. *)
LEMMA MemoryStep ==
  ASSUME NEW t \in Threads, TypeOK, ControlInv, EpochInv, PinInv, GraphInv,
      MemoryInv,
         OthersSame(t), EpochTypeOK', EpochInv', Step(t) \/ Choice(t)
  PROVE  MemoryInv'
<1>1. /\ EpochTypeOK /\ ModuleTypeOK /\ ThreadTypeOK /\ MemoryTypeOK
      /\ current \in Nat /\ batch \in SUBSET Owners /\ Len(queue) \in Nat
      /\ Base = current - Len(queue) /\ freed \in [Owners -> Nat]
      /\ freeing \in [Threads -> SUBSET Owners]
  BY DEF TypeOK, EpochTypeOK, ThreadTypeOK, MemoryTypeOK, Base
<1>2. CASE UNCHANGED <<batch, expBuffer, freed, retired, current, queue,
    freeing,
                       memoryReleased, releasedAt>>
  BY <1>2 DEF MemoryInv, MemoryOK, Base
<1>3. CASE BeginFirst(t)
  <2>1. /\ current = 0 /\ current' = 1 /\ queue' = queue /\ retired'[1] = {}
    BY <1>1, <1>3, BeginFirstEffect
  <2>2. UNCHANGED <<batch, expBuffer, freed, freeing, memoryReleased,
      releasedAt>>
    BY <1>3 DEF BeginFirst
  <2>3. Base' = Base + 1
    BY <1>1, <2>1 DEF Base
  <2>4. \A o \in Owners : releasedAt[o] \in Nat
    BY <1>1 DEF ModuleTypeOK
  <2> QED BY <1>1, <2>1, <2>2, <2>3, <2>4 DEF MemoryInv, MemoryOK
<1>4. CASE Drain(t)
  <2>1. /\ UNCHANGED current
        /\ Base \in 1 .. current
        /\ Len(queue') = Len(queue) - 1
        /\ \A e \in 1 .. current :
              retired'[e] = IF e = Base THEN {} ELSE retired[e]
        /\ freeing' = [freeing EXCEPT ![t] = @ \cup retired[Base]]
    BY <1>1, <1>4, DrainEffect
  <2>2. UNCHANGED <<batch, expBuffer, freed, memoryReleased, releasedAt>>
    BY <1>4 DEF Drain
  <2>3. Base' = Base + 1
    BY <1>1, <2>1 DEF Base
  <2>4. \A u \in Threads : freeing'[u] =
          IF u = t THEN freeing[u] \cup retired[Base] ELSE freeing[u]
    BY <1>1, <2>1
  <2>5. \A o \in Owners : releasedAt[o] \in Nat
    BY <1>1 DEF ModuleTypeOK
  <2> HIDE DEF Base
  <2> SUFFICES ASSUME NEW o \in Owners PROVE MemoryOK(o)'
    BY DEF MemoryInv
  <2>6. MemoryOK(o)
    BY DEF MemoryInv
  <2>7. /\ \A e \in 1 .. current : o \in retired'[e] <=> e # Base /\ o \in retired[e]
        /\ \A u \in Threads :
              o \in freeing'[u] <=> o \in freeing[u] \/ (u = t /\ o \in retired[Base])
    BY <2>1, <2>4
  <2>8. Base \in Int /\ releasedAt[o] \in Nat /\ Base \in 1 .. current /\ current' = current
    BY <2>1, <2>5
  <2>9. CASE o \in retired[Base]
    BY ONLY <2>2, <2>3, <2>6, <2>7, <2>8, <2>9, t \in Threads DEF MemoryOK
  <2>10. CASE o \notin retired[Base]
    BY ONLY <2>2, <2>3, <2>6, <2>7, <2>8, <2>10 DEF MemoryOK
  <2> QED BY <2>9, <2>10
<1>5. CASE DrainDone(t)
  <2>1. /\ expBuffer' = expBuffer \ freeing[t]
        /\ UNCHANGED <<batch, freed, retired, current, queue, freeing,
                       memoryReleased, releasedAt>>
    BY <1>5 DEF DrainDone
  <2> QED BY <2>1 DEF MemoryInv, MemoryOK, Base
<1>6. CASE Seal(t)
  <2>1. /\ current' \in Nat
        /\ (current = 0 => current' = 2) /\ (current # 0 => current' = current + 1)
        /\ \A e \in 1 .. current' - 1 :
             retired'[e] = IF e = current' - 1 THEN batch ELSE retired[e]
        /\ retired'[current'] = {}
        /\ Len(queue') = Len(queue) + 1
    BY <1>1, <1>6, SealEffect
  <2>2. batch' = {} /\ UNCHANGED <<expBuffer, freed, freeing, memoryReleased,
      releasedAt>>
    BY <1>6 DEF Seal
  <2>3. Base <= Base' /\ Base \in Int /\ Base' \in Int
    BY <1>1, <2>1 DEF Base, EpochInv
  <2>4. \A o \in Owners : releasedAt[o] \in Nat /\ releasedAt[o] <= current
    BY <1>1 DEF ModuleTypeOK, GraphInv
  <2>5. current # 0 => retired[current] = {}
    BY <1>1 DEF EpochInv
  <2> SUFFICES ASSUME NEW o \in Owners PROVE MemoryOK(o)'
    BY DEF MemoryInv
  <2>6. MemoryOK(o)
    BY DEF MemoryInv
  <2>7. \A e \in 1 .. current' :
          o \in retired'[e] <=> \/ e = current' - 1 /\ o \in batch
                                \/ e \in 1 .. current /\ o \in retired[e]
    BY <1>1, <2>1, <2>5
  <2>8. releasedAt[o] <= current' - 1
    BY <1>1, <2>1, <2>4
  <2>9. CASE o \in batch
    <3>1. /\ memoryReleased[o] /\ o \in expBuffer /\ freed[o] = 0
          /\ \A e \in 1 .. current : o \notin retired[e]
          /\ \A u \in Threads : o \notin freeing[u]
      BY <2>6, <2>9 DEF MemoryOK
    <3>2. \A e \in 1 .. current' : o \in retired'[e] <=> e = current' - 1
      BY ONLY <2>7, <2>9, <3>1
    <3> QED BY ONLY <2>2, <2>8, <3>1, <3>2 DEF MemoryOK
  <2>10. CASE o \notin batch
    <3>1. \A e \in 1 .. current' :
            o \in retired'[e] <=> e \in 1 .. current /\ o \in retired[e]
      BY <2>7, <2>10
    <3>2. releasedAt[o] \in Nat
      BY <2>4
    <3> QED BY ONLY <2>2, <2>3, <2>6, <2>10, <3>1, <3>2 DEF MemoryOK
  <2> QED BY <2>9, <2>10
<1>7. ASSUME NEW x \in Owners, Free(t, x) PROVE MemoryInv'
  <2>1. /\ x \in freeing[t]
        /\ \A o \in Owners : freed'[o] = IF o = x THEN freed[o] + 1 ELSE freed[o]
        /\ \A u \in Threads :
              freeing'[u] = IF u = t THEN freeing[u] \ {x} ELSE freeing[u]
        /\ UNCHANGED <<batch, expBuffer, retired, current, queue,
            memoryReleased,
                       releasedAt>>
    BY <1>1, <1>7 DEF Free
  <2> SUFFICES ASSUME NEW o \in Owners PROVE MemoryOK(o)'
    BY DEF MemoryInv
  <2>2. MemoryOK(o) /\ Base' = Base
    BY <2>1 DEF MemoryInv, MemoryOK, Base
  <2>3. CASE o = x
    <3>1. freed[o] = 0 /\ memoryReleased[o] /\ releasedAt[o] < Base
      BY <2>1, <2>2, <2>3 DEF MemoryOK
    <3>2. /\ o \notin batch
          /\ \A e \in 1 .. current : o \notin retired[e]
          /\ \A u \in Threads : o \notin freeing'[u]
      BY <2>1, <2>2, <2>3 DEF MemoryOK
    <3> QED BY <2>1, <2>2, <2>3, <3>1, <3>2 DEF MemoryOK
  <2>4. CASE o # x
    BY <1>1, <2>1, <2>2, <2>4 DEF MemoryOK
  <2> QED BY <2>3, <2>4
<1>8. ASSUME NEW m \in Modules, Work(t, m) PROVE MemoryInv'
  <2>1. \A y \in Releasable(m) : ~ memoryReleased[y]
    BY <1>1, <1>8, ReleasableFacts
  <2>2. /\ batch' = batch \cup (Releasable(m) \cap expBuffer)
        /\ \A y \in Modules : /\ memoryReleased'[y] <=> memoryReleased[y] \/ y \in Releasable(m)
                              /\ releasedAt'[y] = IF y \in Releasable(m) THEN current
                                                  ELSE releasedAt[y]
        /\ UNCHANGED <<expBuffer, freed, retired, current, queue, freeing>>
    BY <1>8 DEF Work
  <2> SUFFICES ASSUME NEW o \in Owners PROVE MemoryOK(o)'
    BY DEF MemoryInv
  <2>3. MemoryOK(o) /\ Base' = Base /\ freed[o] \in Nat
    BY <1>1, <2>2 DEF MemoryInv, MemoryOK, Base
  <2>4. CASE o \in Releasable(m)
    <3>1. ~ memoryReleased[o]
      BY <2>1, <2>4
    <3> QED BY <1>1, <2>2, <2>3, <2>4, <3>1 DEF MemoryOK
  <2>5. CASE o \notin Releasable(m)
    BY <1>1, <2>2, <2>3, <2>5 DEF MemoryOK
  <2> QED BY <2>4, <2>5
<1>9. CASE RetireLock(t)
  <2>1. /\ batch' \subseteq batch
        /\ UNCHANGED <<expBuffer, freed, retired, current, queue, freeing,
                       memoryReleased, releasedAt>>
    BY <1>9 DEF RetireLock
  <2> QED BY <2>1 DEF MemoryInv, MemoryOK, Base
<1> QED
  BY <1>2, <1>3, <1>4, <1>5, <1>6, <1>7, <1>8, <1>9
  DEF Step, Choice, BeginLoad, BeginPin, BeginConfirm, BeginCheck, Return,
      Trap, ReturnFailIfClosed, RefusedFailIfClosed, EndUnpin, EndCheck,
          EndLock, FreeDone, CloseSetExitCode, WorkDone, SealNothing,
              LinkDone, LinkFail, StartCall, StartClose, StartInstantiate,
                  ResolveImport, ResolveTable, AsyncClose

(***************************************************************************)
(* What is released is freed.                                              *)
(***************************************************************************)
(* From the worklist to the epoch that is sealed, from there to whoever    *)
(* drains it, and then to Free: a released memory is never dropped.        *)
LEMMA PlacedStep ==
  ASSUME NEW t \in Threads, TypeOK, ControlInv, EpochInv, GraphInv, MemoryInv,
         PlacedInv, Step(t) \/ Choice(t)
  PROVE  PlacedInv'
<1>1. /\ EpochTypeOK /\ ModuleTypeOK /\ ThreadTypeOK /\ MemoryTypeOK
      /\ current \in Nat /\ batch \in SUBSET Owners /\ freed \in [Owners -> Nat]
      /\ freeing \in [Threads -> SUBSET Owners]
  BY DEF TypeOK, EpochTypeOK, ThreadTypeOK, MemoryTypeOK
<1>2. CASE UNCHANGED <<batch, freed, retired, current, freeing, memoryReleased>>
  BY <1>2 DEF PlacedInv, PlacedOK
<1>3. CASE BeginFirst(t)
  <2>1. current = 0 /\ current' = 1
    BY <1>1, <1>3, BeginFirstEffect
  <2>2. UNCHANGED <<batch, freed, freeing, memoryReleased>>
    BY <1>3 DEF BeginFirst
  <2> QED BY <2>1, <2>2 DEF PlacedInv, PlacedOK
<1>4. CASE Drain(t)
  <2>1. /\ UNCHANGED <<current, batch, freed, memoryReleased>>
        /\ \A e \in 1 .. current : retired'[e] = IF e = Base THEN {} ELSE retired[e]
        /\ freeing' = [freeing EXCEPT ![t] = @ \cup retired[Base]]
    BY <1>1, <1>4, DrainEffect DEF Drain
  <2>2. \A u \in Threads : freeing'[u] =
          IF u = t THEN freeing[u] \cup retired[Base] ELSE freeing[u]
    BY <1>1, <2>1
  <2> SUFFICES ASSUME NEW o \in Owners PROVE PlacedOK(o)'
    BY DEF PlacedInv
  <2>3. PlacedOK(o)
    BY DEF PlacedInv
  <2>4. CASE o \in retired[Base]
    <3>1. o \in freeing'[t]
      BY <2>2, <2>4
    <3> QED BY <3>1 DEF PlacedOK
  <2>5. CASE o \notin retired[Base]
    <3>1. \A e \in 1 .. current : o \in retired[e] => o \in retired'[e]
      BY <2>1, <2>5
    <3>2. \A u \in Threads : o \in freeing[u] => o \in freeing'[u]
      BY <2>2
    <3> QED BY <2>1, <2>3, <3>1, <3>2 DEF PlacedOK
  <2> QED BY <2>4, <2>5
<1>5. CASE Seal(t)
  <2>1. /\ current' \in Nat
        /\ (current = 0 => current' = 2) /\ (current # 0 => current' = current + 1)
        /\ \A e \in 1 .. current' - 1 :
             retired'[e] = IF e = current' - 1 THEN batch ELSE retired[e]
    BY <1>1, <1>5, SealEffect
  <2>2. UNCHANGED <<freed, freeing, memoryReleased>>
    BY <1>5 DEF Seal
  <2>3. current # 0 => retired[current] = {}
    BY <1>1 DEF EpochInv
  <2> SUFFICES ASSUME NEW o \in Owners PROVE PlacedOK(o)'
    BY DEF PlacedInv
  <2>4. PlacedOK(o)
    BY DEF PlacedInv
  <2>5. CASE o \in batch
    <3>1. current' - 1 \in 1 .. current' - 1 /\ current' - 1 \in 1 .. current'
      BY ONLY <1>1, <2>1
    <3>2. o \in retired'[current' - 1]
      BY ONLY <2>1, <2>5, <3>1
    <3> QED BY <3>1, <3>2 DEF PlacedOK
  <2>6. CASE o \notin batch
    <3>1. ASSUME NEW e \in 1 .. current, o \in retired[e]
          PROVE  e \in 1 .. current' /\ o \in retired'[e]
      <4>1. e # current
        BY <1>1, <2>3, <3>1
      <4>2. \A c, d \in Nat : \A k \in 1 .. c : d = c + 1 /\ k # c =>
               k \in 1 .. d - 1 /\ k # d - 1 /\ k \in 1 .. d
        OBVIOUS
      <4>3. current # 0
        <5>1. \A k \in 1 .. 0 : FALSE
          OBVIOUS
        <5> QED BY <3>1, <5>1
      <4>4. e \in 1 .. current' - 1 /\ e # current' - 1 /\ e \in 1 .. current'
        BY <1>1, <2>1, <4>1, <4>2, <4>3
      <4> QED BY <2>1, <3>1, <4>4
    <3> QED BY <2>2, <2>4, <2>6, <3>1 DEF PlacedOK
  <2> QED BY <2>5, <2>6
<1>6. ASSUME NEW x \in Owners, Free(t, x) PROVE PlacedInv'
  <2>1. /\ x \in freeing[t]
        /\ \A o \in Owners : freed'[o] = IF o = x THEN freed[o] + 1 ELSE freed[o]
        /\ \A u \in Threads :
              freeing'[u] = IF u = t THEN freeing[u] \ {x} ELSE freeing[u]
        /\ UNCHANGED <<batch, retired, current, memoryReleased>>
    BY <1>1, <1>6 DEF Free
  <2> SUFFICES ASSUME NEW o \in Owners PROVE PlacedOK(o)'
    BY DEF PlacedInv
  <2>2. PlacedOK(o)
    BY DEF PlacedInv
  <2>3. CASE o = x
    <3>1. freed[o] = 0
      BY <2>1, <2>3 DEF MemoryInv, MemoryOK
    <3> QED BY <2>1, <2>3, <3>1 DEF PlacedOK
  <2>4. CASE o # x
    <3>1. \A u \in Threads : o \in freeing[u] => o \in freeing'[u]
      BY <2>1, <2>4
    <3> QED BY <2>1, <2>2, <2>4, <3>1 DEF PlacedOK
  <2> QED BY <2>3, <2>4
<1>7. ASSUME NEW m \in Modules, Work(t, m) PROVE PlacedInv'
  <2>1. /\ batch' = batch \cup (Releasable(m) \cap expBuffer)
        /\ \A y \in Modules : memoryReleased'[y] <=> memoryReleased[y] \/ y \in Releasable(m)
        /\ UNCHANGED <<freed, retired, current, freeing>>
    BY <1>7 DEF Work
  <2> SUFFICES ASSUME NEW o \in Owners, ~ memoryReleased[o], o \in Releasable(m)
               PROVE  PlacedOK(o)'
    BY <2>1 DEF PlacedInv, PlacedOK
  <2>2. o \in expBuffer
    BY DEF MemoryInv, MemoryOK
  <2> QED BY <2>1, <2>2 DEF PlacedOK
<1>8. CASE RetireLock(t)
  <2>1. batch = {}
    BY <1>8 DEF RetireLock, ControlInv
  <2>2. batch' = batch /\ UNCHANGED <<freed, retired, current, freeing, memoryReleased>>
    BY <1>8, <2>1 DEF RetireLock
  <2> QED BY <2>2 DEF PlacedInv, PlacedOK
<1> QED
  BY <1>2, <1>3, <1>4, <1>5, <1>6, <1>7, <1>8
  DEF Step, Choice, BeginLoad, BeginPin, BeginConfirm, BeginCheck, Return,
      Trap, ReturnFailIfClosed, RefusedFailIfClosed, EndUnpin, EndCheck,
      EndLock, DrainDone, FreeDone, CloseSetExitCode, WorkDone, SealNothing,
      LinkDone, LinkFail, StartCall, StartClose, StartInstantiate,
      ResolveImport, ResolveTable, AsyncClose

(* An epoch that counts calls in flight has one. *)
LEMMA PinnerExists ==
  ASSUME PinInv, NEW e \in 1 .. current, active[e] # 0
  PROVE  \E u \in Threads : Pinned(u) /\ epoch[u] = e
<1>1. Cardinality(Pinners(e)) # 0
  BY DEF PinInv
<1>2. Pinners(e) # {}
  BY <1>1, FS_EmptySet
<1> QED BY <1>2 DEF Pinners

(* Who leaves an epoch and is not the last leaves another one there. *)
LEMMA AnotherPinner ==
  ASSUME PinInv, NEW t \in Threads, NEW e \in 1 .. current, t \in Pinners(e), active[e] # 1
  PROVE  \E u \in Threads : u # t /\ Pinned(u) /\ epoch[u] = e
<1> SUFFICES ASSUME \A u \in Threads : u # t => u \notin Pinners(e) PROVE FALSE
  BY DEF Pinners
<1>1. Pinners(e) = {t}
  BY DEF Pinners
<1>2. Cardinality(Pinners(e)) = 1
  BY <1>1, FS_Singleton
<1> QED BY <1>2 DEF PinInv

(* While epochs wait to be drained somebody will look at the first one.    *)
LEMMA CollectStep ==
  ASSUME NEW t \in Threads, TypeOK, ControlInv, EpochInv, PinInv, CollectInv,
         OthersSame(t), Step(t) \/ Choice(t)
  PROVE  CollectInv'
<1>1. /\ EpochTypeOK /\ ThreadTypeOK /\ LocalOK(t) /\ current \in Nat /\ queue \in Seq(Nat)
      /\ Len(queue) \in Nat /\ Base = current - Len(queue)
  BY DEF TypeOK, EpochTypeOK, ControlInv, Base
<1>2. queue # <<>> => Base < current /\ Base \in 1 .. current /\ Head(queue) = Base
  <2> SUFFICES ASSUME queue # <<>> PROVE Base < current /\ Base \in 1 .. current /\ Head(queue) = Base
    OBVIOUS
  <2>1. Len(queue) > 0 /\ Head(queue) = queue[1]
    BY <1>1
  <2>2. current # 0 /\ Len(queue) < current /\ queue[1] = Base
    BY <1>1, <2>1 DEF EpochInv
  <2> QED BY <1>1, <2>1, <2>2
<1>3. ASSUME UNCHANGED <<queue, current>>, NEW u \in Threads, u # t, Collects(u)
      PROVE  Collects(u)'
  BY <1>3 DEF OthersSame, Collects, Pinned, Base
<1>4. ASSUME UNCHANGED <<queue, current>>, Collects(t) => Collects(t)' PROVE CollectInv'
  BY <1>3, <1>4 DEF CollectInv
<1>5. ASSUME pc'[t] = "drain" PROVE CollectInv'
  BY <1>5 DEF CollectInv, Collects
<1>6. CASE BeginFirst(t)
  <2>1. current = 0 /\ queue' = queue
    BY <1>1, <1>6, BeginFirstEffect
  <2>2. queue = <<>>
    BY <1>1, <1>2, <2>1
  <2> QED BY <2>1, <2>2 DEF CollectInv
<1>7. CASE EndLock(t) \/ Drain(t) \/ Seal(t)
  <2>1. pc'[t] = "drain"
    BY <1>1, <1>7 DEF EndLock, Drain, Seal, ThreadTypeOK
  <2> QED BY <1>5, <2>1
<1>8. CASE DrainDone(t)
  <2>1. UNCHANGED <<queue, current, resume, epoch>> /\ pc[t] = "drain" /\ pc'[t] = "free"
    BY <1>1, <1>8 DEF DrainDone, ThreadTypeOK
  <2> SUFFICES ASSUME queue # <<>> PROVE \E u \in Threads : Collects(u)'
    BY <2>1 DEF CollectInv
  <2>2. active[Base] # 0
    BY <1>2, <1>8 DEF DrainDone, HeadIdle
  <2>3. PICK u \in Threads : Pinned(u) /\ epoch[u] = Base
    BY <1>2, <2>2, PinnerExists
  <2>4. CASE u # t
    BY <1>3, <2>1, <2>3, <2>4 DEF Collects
  <2>5. CASE u = t
    BY <2>1, <2>3, <2>5 DEF Collects, Pinned, Nested, Unpinning, Base
  <2> QED BY <2>4, <2>5
<1>9. CASE EndUnpin(t)
  <2>1. /\ epoch[t] \in 1 .. current /\ t \in Pinners(epoch[t]) /\ UNCHANGED <<current, queue>>
        /\ pc[t] \in Unpinning
    BY <1>1, <1>9, UnpinEffect DEF EndUnpin
  <2>2. CASE ~ Collects(t)
    BY <1>4, <2>1, <2>2
  <2>3. CASE Collects(t) /\ active[epoch[t]] = 1
    <3>1. pc'[t] = "endcheck" /\ epoch' = epoch
      BY <1>1, <1>9, <2>3 DEF EndUnpin, ThreadTypeOK
    <3>2. epoch[t] = Base
      BY <2>1, <2>3 DEF Collects, Unpinning
    <3> QED BY <1>2, <2>1, <3>1, <3>2 DEF CollectInv, Collects
  <2>4. CASE Collects(t) /\ active[epoch[t]] # 1
    <3>1. epoch[t] = Base
      BY <2>1, <2>4 DEF Collects, Unpinning
    <3>2. PICK u \in Threads : u # t /\ Pinned(u) /\ epoch[u] = Base
      BY <2>1, <2>4, <3>1, AnotherPinner
    <3>3. Collects(u)'
      BY <1>3, <2>1, <3>2 DEF Collects
    <3> QED BY <3>3 DEF CollectInv
  <2> QED BY <2>2, <2>3, <2>4
<1>10. CASE EndCheck(t)
  <2>1. UNCHANGED <<current, queue>> /\ pc[t] = "endcheck"
    BY <1>10 DEF EndCheck
  <2>2. epoch[t] # current => pc'[t] = "collect"
    BY <1>1, <1>10 DEF EndCheck, ThreadTypeOK
  <2>3. epoch[t] = current => ~ Collects(t)
    BY <2>1 DEF Collects, Pinned, Nested, Unpinning
  <2> QED BY <1>4, <2>1, <2>2, <2>3 DEF Collects
<1>11. CASE PinKept(t) /\ UNCHANGED <<queue, current>> /\ pc[t] \notin {"endcheck", "collect", "drain"}
  <2>1. Collects(t) => Collects(t)'
    BY <1>11 DEF Collects, PinKept, Base
  <2> QED BY <1>4, <1>11, <2>1
<1>12. CASE BeginPin(t)
  <2>1. UNCHANGED <<queue, current>> /\ pc[t] = "pin"
    BY <1>12 DEF BeginPin
  <2>2. ~ Collects(t)
    BY <2>1 DEF Collects, Pinned, Nested, Unpinning
  <2> QED BY <1>4, <2>1, <2>2
<1>13. ASSUME NEW m \in Modules, AsyncClose(t, m) PROVE CollectInv'
  <2>1. UNCHANGED <<queue, current, pc, resume, epoch>>
    BY <1>13 DEF AsyncClose
  <2>2. Collects(t) => Collects(t)'
    BY <2>1 DEF Collects, Pinned, Base
  <2> QED BY <1>4, <2>1, <2>2
<1>14. BeginPin(t) \/ EndUnpin(t) \/ PinKept(t)
  BY <1>1, PinnedStep
<1> QED
  BY <1>6, <1>7, <1>8, <1>9, <1>10, <1>11, <1>12, <1>13, <1>14
  DEF Step, Choice, BeginLoad, BeginConfirm, BeginCheck, Return,
      Trap, ReturnFailIfClosed, RefusedFailIfClosed, Free,
      FreeDone, CloseSetExitCode, RetireLock, Work, WorkDone, SealNothing,
      LinkDone, LinkFail, StartCall, StartClose, StartInstantiate,
      ResolveImport, ResolveTable

(***************************************************************************)
(* What nothing open reaches is released.                                  *)
(***************************************************************************)
(* What m reaches contains m and is closed under links. *)
LEMMA ReachFacts ==
  ASSUME NEW m \in Modules, ModuleTypeOK
  PROVE  /\ Reach(m) \subseteq Modules /\ m \in Reach(m) /\ LinksClosed(Reach(m))
         /\ \A S \in SUBSET Modules : m \in S /\ LinksClosed(S) => Reach(m) \subseteq S
<1>1. Reach(m) \subseteq Modules /\ m \in Reach(m)
  BY DEF Reach
<1>2. \A S \in SUBSET Modules : m \in S /\ LinksClosed(S) => Reach(m) \subseteq S
  BY DEF Reach
<1>3. ASSUME NEW l \in links, l[1] \in Reach(m) PROVE l[2] \in Reach(m)
  <2>1. l[2] \in Modules
    BY DEF ModuleTypeOK
  <2>2. ASSUME NEW S \in SUBSET Modules, m \in S, LinksClosed(S) PROVE l[2] \in S
    <3>1. l[1] \in S
      BY <1>2, <1>3, <2>2
    <3> QED BY <2>2, <3>1 DEF LinksClosed
  <2> QED BY <2>1, <2>2 DEF Reach
<1>4. LinksClosed(Reach(m))
  BY <1>3 DEF LinksClosed
<1> QED BY <1>1, <1>2, <1>4

(* What is reached from something reached is reached. *)
LEMMA ReachTransitive ==
  ASSUME ModuleTypeOK, NEW x \in Modules, NEW y \in Reach(x), NEW z \in Reach(y)
  PROVE  z \in Reach(x)
<1>1. y \in Modules
  BY DEF Reach
<1>2. Reach(x) \in SUBSET Modules /\ LinksClosed(Reach(x))
  BY ReachFacts
<1>3. Reach(y) \subseteq Reach(x)
  BY <1>1, <1>2, ReachFacts
<1> QED BY <1>3

(* The modules from which m is found against the import edges reach it. *)
LEMMA RetainersReach ==
  ASSUME ModuleTypeOK, GraphInv, NEW m \in Modules, NEW y \in Retainers(m)
  PROVE  m \in Reach(y)
<1> DEFINE S == {x \in Modules : m \in Reach(x)}
<1>1. m \in S
  BY ReachFacts
<1>2. ASSUME NEW b \in S, NEW a \in Modules, importers[b][a] > 0 PROVE a \in S
  <2>1. b \in Modules /\ m \in Reach(b)
    BY <1>2
  <2>2. <<a, b>> \in links
    BY <1>2, <2>1 DEF GraphInv
  <2>3. a \in Reach(a) /\ LinksClosed(Reach(a))
    BY ReachFacts
  <2>4. b \in Reach(a)
    BY <2>2, <2>3 DEF LinksClosed
  <2>5. m \in Reach(a)
    BY <2>1, <2>4, ReachTransitive
  <2> QED BY <2>5
<1>3. ImportersClosed(S)
  BY <1>2 DEF ImportersClosed
<1>4. S \in SUBSET Modules
  OBVIOUS
<1>5. Retainers(m) \subseteq S
  BY <1>1, <1>3, <1>4, RetainersFacts
<1> QED BY <1>5

(* What the worklist releases it hands on: whatever a released module      *)
(* reaches is released with it or reached from the new worklist.           *)
LEMMA ReleasedHandsOn ==
  ASSUME ModuleTypeOK, GraphInv, NEW t \in Threads, NEW m \in Modules, Work(t, m),
         NEW r \in Releasable(m), NEW x \in Reach(r), x \notin Releasable(m)
  PROVE  \E b \in ready' : ~ memoryReleased'[b] /\ x \in Reach(b)
<1> DEFINE R == Releasable(m)
           H == {y \in Modules : \E b \in Modules : b \in ready' /\ ~ memoryReleased'[b] /\ y \in Reach(b)}
           S == R \cup H
<1>1. R \subseteq Modules /\ \A y \in R : ~ memoryReleased[y]
  BY ReleasableFacts
<1>2. /\ \A y \in Modules : memoryReleased'[y] <=> memoryReleased[y] \/ y \in R
      /\ \A b \in Modules : (\E a \in R : importedModules[a][b] > 0) => b \in ready'
  BY DEF Work
<1> HIDE DEF R
<1>3. ASSUME NEW l \in links, l[1] \in S PROVE l[2] \in S
  <2>1. l = <<l[1], l[2]>> /\ l[1] \in Modules /\ l[2] \in Modules
    BY DEF ModuleTypeOK
  <2>2. CASE l[1] \in R
    <3>1. ~ memoryReleased[l[1]] /\ ~ memoryReleased[l[2]]
      BY <1>1, <2>1, <2>2 DEF GraphInv
    <3>2. importedModules[l[1]][l[2]] > 0
      BY <2>1, <3>1 DEF GraphInv
    <3>3. l[2] \in ready'
      BY <1>2, <2>1, <2>2, <3>2
    <3>4. l[2] \in Reach(l[2])
      BY <2>1, ReachFacts
    <3> QED BY <1>2, <2>1, <3>1, <3>3, <3>4
  <2>3. CASE l[1] \in H
    <3>1. PICK b \in Modules : b \in ready' /\ ~ memoryReleased'[b] /\ l[1] \in Reach(b)
      BY <2>3
    <3>2. l[2] \in Reach(b)
      BY <3>1, ReachFacts DEF LinksClosed
    <3> QED BY <2>1, <3>1, <3>2
  <2> QED BY <1>3, <2>2, <2>3
<1>4. S \in SUBSET Modules /\ LinksClosed(S)
  BY <1>1, <1>3 DEF LinksClosed
<1>5. r \in S /\ r \in Modules
  BY <1>1 DEF R
<1>6. x \in S
  BY <1>4, <1>5, ReachFacts
<1>7. x \in H
  BY <1>6 DEF R
<1> QED BY <1>7

(* A module that nothing open reaches is released when the worklist pops   *)
(* something that reaches it.                                              *)
LEMMA PoppedIsReleased ==
  ASSUME ModuleTypeOK, GraphInv, NEW m \in Modules, ~ memoryReleased[m],
         NEW x \in Reach(m), Unreached(x)
  PROVE  m \in Releasable(m)
<1>1. x \in Modules
  BY DEF Reach
<1>2. ASSUME NEW y \in Retainers(m) PROVE memoryClosed[y]
  <2>1. y \in Modules /\ m \in Reach(y)
    BY RetainersReach, RetainersFacts
  <2>2. x \in Reach(y)
    BY <2>1, ReachTransitive
  <2> QED BY <2>1, <2>2 DEF Unreached
<1>3. memoryClosed[m]
  BY DEF Unreached
<1>4. m \in Retainers(m)
  BY DEF Retainers
<1> QED BY <1>2, <1>3, <1>4 DEF Releasable, unreferencedClosedModules

(* retireMemory's worklist misses nothing: at every turn, what no open     *)
(* module reaches any more is released or still to come.                   *)
LEMMA WorkStep ==
  ASSUME NEW t \in Threads, TypeOK, ControlInv, ClosedInv, GraphInv, WorkInv,
         OthersSame(t), \A u \in Threads : pc'[u] \in Critical <=> u \in lock',
         Step(t) \/ Choice(t)
  PROVE  WorkInv'
<1>1. /\ ModuleTypeOK /\ ThreadTypeOK /\ pc \in [Threads -> Labels]
      /\ lock \in SUBSET Threads
  BY DEF TypeOK, ThreadTypeOK
<1>2. ASSUME links' = links, NEW x \in Modules PROVE Reach(x)' = Reach(x)
  BY <1>2 DEF Reach, LinksClosed
<1>3. ASSUME links' = links, memoryClosed' = memoryClosed, NEW x \in Modules
      PROVE  Unreached(x)' <=> Unreached(x)
  <2>1. \A y \in Modules : Reach(y)' = Reach(y)
    BY <1>2, <1>3
  <2> QED BY <1>3, <2>1 DEF Unreached
<1>4. CASE /\ UNCHANGED <<links, memoryClosed, memoryReleased, ready>>
           /\ pc[t] = "work" => pc'[t] = "work"
  <2> SUFFICES ASSUME NEW x \in Modules, Unreached(x), ~ memoryReleased[x]
               PROVE  WorkOK(x)'
    BY <1>3, <1>4 DEF WorkInv, WorkOK
  <2>1. PICK u \in lock : /\ pc[u] = "work"
                          /\ \E r \in ready : ~ memoryReleased[r] /\ x \in Reach(r)
    BY DEF WorkInv, WorkOK
  <2>2. u \in Threads /\ pc'[u] = "work"
    BY <1>1, <1>4, <2>1 DEF OthersSame
  <2>3. u \in lock'
    BY <2>2 DEF Critical
  <2>4. PICK r \in ready : ~ memoryReleased[r] /\ x \in Reach(r)
    BY <2>1
  <2>5. r \in Modules
    BY DEF TypeOK, MemoryTypeOK
  <2>6. x \in Reach(r)' /\ r \in ready' /\ ~ memoryReleased'[r]
    BY <1>2, <1>4, <2>4, <2>5
  <2> QED BY <2>2, <2>3, <2>6 DEF WorkOK
<1>5. CASE WorkDone(t)
  <2>1. ready = {} /\ UNCHANGED <<links, memoryClosed, memoryReleased>>
    BY <1>5 DEF WorkDone
  <2>2. \A x \in Modules : Unreached(x) => memoryReleased[x]
    BY <2>1 DEF WorkInv, WorkOK
  <2> QED BY <1>3, <2>1, <2>2 DEF WorkInv, WorkOK
<1>6. ASSUME NEW m \in Modules, Work(t, m) PROVE WorkInv'
  <2>1. /\ UNCHANGED <<links, memoryClosed, lock, pc>> /\ pc[t] = "work"
        /\ \A y \in Modules : memoryReleased'[y] <=> memoryReleased[y] \/ y \in Releasable(m)
        /\ ready \ {m} \subseteq ready'
    BY <1>6 DEF Work
  <2>2. t \in lock'
    BY <2>1 DEF ControlInv, Critical
  <2> SUFFICES ASSUME NEW x \in Modules, Unreached(x), ~ memoryReleased[x],
                      x \notin Releasable(m)
               PROVE  WorkOK(x)'
    BY <1>3, <2>1 DEF WorkInv, WorkOK
  <2>3. PICK r \in ready : ~ memoryReleased[r] /\ x \in Reach(r)
    BY DEF WorkInv, WorkOK
  <2>4. r \in Modules
    BY DEF TypeOK, MemoryTypeOK
  <2>5. CASE r \in Releasable(m)
    <3>1. PICK b \in ready' : ~ memoryReleased'[b] /\ x \in Reach(b)
      BY <1>1, <1>6, <2>3, <2>5, ReleasedHandsOn
    <3>2. b \in Modules
      <4>1. ready' \subseteq Modules
        BY <1>6 DEF Work, TypeOK, MemoryTypeOK
      <4> QED BY <4>1
    <3>3. x \in Reach(b)'
      BY <1>2, <2>1, <3>1, <3>2
    <3> QED BY <2>1, <2>2, <3>1, <3>3 DEF WorkOK
  <2>6. CASE r \notin Releasable(m)
    <3>1. r # m
      BY <1>1, <2>3, <2>4, <2>6, PoppedIsReleased
    <3>2. r \in ready' /\ ~ memoryReleased'[r] /\ x \in Reach(r)'
      BY <1>2, <2>1, <2>3, <2>4, <2>6, <3>1
    <3> QED BY <2>1, <2>2, <3>2 DEF WorkOK
  <2> QED BY <2>5, <2>6
<1>7. CASE RetireLock(t) /\ ~ memoryClosed[target[t]]
  <2>1. /\ target[t] \in Modules /\ lock = {}
    BY <1>7 DEF RetireLock, ControlInv, LocalOK
  <2>2. /\ UNCHANGED <<links, memoryReleased>> /\ lock' = {t} /\ pc'[t] = "work"
        /\ ready' = {target[t]}
        /\ \A y \in Modules : memoryClosed'[y] <=> memoryClosed[y] \/ y = target[t]
    BY <1>1, <1>7, <2>1 DEF RetireLock, ModuleTypeOK
  <2>3. ~ memoryReleased[target[t]]
    BY <1>7, <2>1 DEF ClosedInv
  <2> SUFFICES ASSUME NEW x \in Modules, Unreached(x)', ~ memoryReleased[x]
               PROVE  WorkOK(x)'
    BY <2>2 DEF WorkInv, WorkOK
  <2>4. ~ Unreached(x)
    BY <2>1 DEF WorkInv, WorkOK
  <2>5. PICK y \in Modules : x \in Reach(y) /\ ~ memoryClosed[y]
    BY <2>4 DEF Unreached
  <2>6. x \in Reach(y)'
    BY <1>2, <2>2, <2>5
  <2>7. y = target[t]
    BY <2>2, <2>5, <2>6 DEF Unreached
  <2>8. y \in ready' /\ ~ memoryReleased'[y]
    BY <2>2, <2>3, <2>7
  <2> QED BY <2>2, <2>6, <2>8 DEF WorkOK
<1>8. CASE /\ lock = {} /\ links \subseteq links'
           /\ UNCHANGED <<memoryClosed, memoryReleased>>
  <2>1. \A x \in Modules : Unreached(x) => memoryReleased[x]
    BY <1>8 DEF WorkInv, WorkOK
  <2>2. \A x \in Modules : Reach(x) \subseteq Reach(x)'
    BY <1>8 DEF Reach, LinksClosed
  <2>3. ASSUME NEW x \in Modules, Unreached(x)' PROVE memoryReleased'[x]
    <3>1. Unreached(x)
      BY <1>8, <2>2, <2>3 DEF Unreached
    <3> QED BY <1>8, <2>1, <3>1
  <2> QED BY <2>3 DEF WorkInv, WorkOK
<1>9. ASSUME NEW b \in Modules, ResolveImport(t, b) \/ ResolveTable(t, b)
      PROVE  WorkInv'
  <2>1. /\ lock = {} /\ links \subseteq links'
        /\ UNCHANGED <<memoryClosed, memoryReleased>>
    BY <1>9 DEF ResolveImport, ResolveTable, retainImport
  <2> QED BY <1>8, <2>1
<1>10. CASE RetireLock(t) /\ memoryClosed[target[t]]
  BY <1>4, <1>10 DEF RetireLock
<1> QED
  BY <1>4, <1>5, <1>6, <1>7, <1>9, <1>10
  DEF Step, Choice, BeginFirst, BeginLoad, BeginPin, BeginConfirm, BeginCheck,
      Return, Trap, ReturnFailIfClosed, RefusedFailIfClosed, EndUnpin,
      EndCheck, EndLock, Drain, DrainDone, Free, FreeDone, CloseSetExitCode,
      SealNothing, Seal, LinkDone, LinkFail, StartCall, StartClose,
      StartInstantiate, AsyncClose, Unpinning

(***************************************************************************)
(* The inductive invariant.                                                *)
(***************************************************************************)
(* The invariant holds initially. *)
LEMMA InitIInv == Init => IInv
<1> SUFFICES ASSUME Init PROVE IInv
  OBVIOUS
<1>1. TypeOK
  BY DEF Init, TypeOK, EpochTypeOK, ModuleTypeOK, ThreadTypeOK, MemoryTypeOK,
      Labels, NoImports
<1>2. ControlInv
  BY DEF Init, ControlInv, LocalOK, CallLabels, Nested, Critical
<1>3. EpochInv
  BY DEF Init, EpochInv, Base
<1>4. PinInv
  BY DEF Init, PinInv, PinOK, Pinned, Confirmed, Nested, Unpinning
<1>5. ClosedInv /\ LinkingInv
  BY DEF Init, ClosedInv, LinkingInv, LinkOK, CallLabels, Nested
<1>6. GraphInv
  BY DEF Init, GraphInv, NoImports
<1>7. EntryInv
  BY DEF Init, EntryInv, EntryOK, Nested
<1>8. MemoryInv
  BY DEF Init, MemoryInv, MemoryOK, Base
<1>9. PlacedInv /\ CollectInv
  BY DEF Init, PlacedInv, PlacedOK, CollectInv
<1>10. WorkInv
  <2> SUFFICES ASSUME NEW m \in Modules PROVE ~ Unreached(m)
    BY DEF WorkInv, WorkOK
  <2>1. m \in Reach(m) /\ ~ memoryClosed[m]
    BY DEF Init, Reach
  <2> QED BY <2>1 DEF Unreached
<1> QED BY <1>1, <1>2, <1>3, <1>4, <1>5, <1>6, <1>7, <1>8, <1>9, <1>10 DEF IInv

(* Every step of a thread preserves the inductive invariant. *)
LEMMA StepIInv ==
  ASSUME IInv, NEW t \in Threads, Step(t) \/ Choice(t)
  PROVE  IInv'
<1>1. /\ TypeOK /\ ControlInv /\ EpochInv /\ PinInv /\ ClosedInv
      /\ LinkingInv /\ GraphInv /\ EntryInv /\ MemoryInv
      /\ PlacedInv /\ CollectInv /\ WorkInv
  BY DEF IInv
<1>2. /\ ModuleTypeOK /\ ThreadTypeOK /\ EpochTypeOK /\ current \in Nat
      /\ LocalOK(t) /\ PinOK(t)
  BY <1>1 DEF TypeOK, EpochTypeOK, ControlInv, PinInv
<1>3. OthersSame(t)
  BY <1>1, OthersStep
<1>4. EpochTypeOK' /\ EpochInv'
  BY <1>1, EpochStep
<1>5. current' \in Nat /\ current <= current'
  BY <1>1, BaseStep
<1>6. TypeOK'
  <2>1. HeadIdle => retired[Head(queue)] \in SUBSET Owners
    <3> SUFFICES ASSUME HeadIdle PROVE retired[Head(queue)] \in SUBSET Owners
      OBVIOUS
    <3>1. /\ queue # <<>> /\ queue \in Seq(Nat) /\ retired \in Seq(SUBSET Owners)
          /\ Len(retired) = current /\ current \in Nat
      BY <1>1, <1>2 DEF HeadIdle, EpochTypeOK, EpochInv
    <3>2. Len(queue) \in Nat \ {0} /\ Head(queue) = queue[1]
      BY ONLY <3>1
    <3>3. Head(queue) \in 1 .. Len(retired)
      BY <1>1, <3>1, <3>2 DEF EpochInv, Base
    <3> QED BY ONLY <3>1, <3>3
  <2>2. ThreadTypeOK'
    BY <1>2, <2>1, ThreadTypeStep
  <2>3. MemoryTypeOK' /\ ModuleTypeOK'
    BY <1>1, <1>2, MemoryTypeStep, ModuleTypeStep
  <2> QED BY <1>4, <2>2, <2>3 DEF TypeOK
<1>7. ControlInv'
  <2>1. LocalOK(t)'
    BY <1>1, <1>2, LocalStep
  <2>2. \A u \in Threads \ {t} : LocalOK(u)'
    BY <1>1, <1>3 DEF OthersSame, ControlInv, LocalOK
  <2>3. /\ \A u \in Threads : pc'[u] \in Critical <=> u \in lock'
        /\ \A u, v \in lock' : u = v
    BY <1>1, <1>3, MutexStep
  <2>4. batch' # {} => \E u \in lock' : pc'[u] \in {"work", "seal"}
    BY <1>1, <1>3, BatchStep
  <2>5. \A u \in Threads : LocalOK(u)'
    BY <2>1, <2>2
  <2> QED BY <2>3, <2>4, <2>5 DEF ControlInv
<1>8. PinInv'
  BY <1>1, <1>3, <1>4, PinStep
<1>9. ClosedInv'
  BY <1>1, <1>3, ClosedStep
<1>10. LinkingInv'
  <2>1. LinkOK(t)'
    BY <1>1, LinkStep
  <2>2. /\ \A u \in Threads \ {t} : LinkOK(u)'
        /\ (\A m \in Modules : status[m] = "absent" => closed[m] = "open")'
    BY <1>1, <1>3, LinkOthersStep
  <2>3. (\A u, v \in Threads : u # v /\ pc[u] = "link" =>
            /\ pc[v] = "link" => entry[v] # entry[u]
            /\ pc[v] \in {"closing", "retire"} => target[v] # entry[u])'
    BY <1>1, <1>3, LinkAloneStep
  <2>4. \A u \in Threads : LinkOK(u)'
    BY <2>1, <2>2
  <2> QED BY <2>2, <2>3, <2>4 DEF LinkingInv
<1>11. GraphInv'
  BY <1>1, <1>5, GraphStep
<1>12. EntryInv'
  <2>1. EntryOK(t)'
    BY <1>1, <1>2, EntryStep
  <2>2. \A u \in Threads \ {t} : EntryOK(u)'
    BY <1>1, <1>3, EntryOthersStep
  <2>3. \A u \in Threads : EntryOK(u)'
    BY <2>1, <2>2
  <2> QED BY <2>3 DEF EntryInv
<1>13. MemoryInv'
  BY <1>1, <1>3, <1>4, MemoryStep
<1>14. PlacedInv'
  BY <1>1, PlacedStep
<1>15. CollectInv'
  BY <1>1, <1>3, CollectStep
<1>16. WorkInv'
  <2>1. \A u \in Threads : pc'[u] \in Critical <=> u \in lock'
    BY <1>1, <1>3, MutexStep
  <2> QED BY <1>1, <1>3, <2>1, WorkStep
<1> QED BY <1>4, <1>6, <1>7, <1>8, <1>9, <1>10, <1>11, <1>12, <1>13, <1>14,
           <1>15, <1>16 DEF IInv

(* So does a step that changes nothing. *)
LEMMA StutterIInv ==
  ASSUME IInv, UNCHANGED vars
  PROVE  IInv'
<1> USE DEF vars
<1>1. TypeOK'
  BY DEF IInv, TypeOK, EpochTypeOK, ModuleTypeOK, ThreadTypeOK, MemoryTypeOK
<1>2. ControlInv'
  BY DEF IInv, ControlInv, LocalOK
<1>3. EpochInv'
  BY DEF IInv, EpochInv, Base
<1>4. PinInv'
  <2>1. \A t \in Threads : PinOK(t)'
    BY DEF IInv, PinInv, PinOK, Pinned, Confirmed, Base
  <2>2. \A e : Pinners(e)' = Pinners(e)
    BY DEF Pinners, Pinned
  <2> QED BY <2>1, <2>2 DEF IInv, PinInv
<1>5. ClosedInv' /\ LinkingInv' /\ EntryInv'
  BY DEF IInv, ClosedInv, LinkingInv, LinkOK, EntryInv, EntryOK
<1>6. GraphInv'
  BY DEF IInv, GraphInv
<1>7. MemoryInv'
  BY DEF IInv, MemoryInv, MemoryOK, Base
<1>8. PlacedInv' /\ CollectInv'
  BY DEF IInv, PlacedInv, PlacedOK, CollectInv, Collects, Pinned, Base
<1>9. WorkInv'
  <2>1. \A m \in Modules : Reach(m)' = Reach(m)
    BY DEF Reach, LinksClosed
  <2>2. \A m \in Modules : Unreached(m)' <=> Unreached(m)
    BY <2>1 DEF Unreached
  <2>3. ready \subseteq Modules /\ WorkInv
    BY DEF IInv, TypeOK, MemoryTypeOK
  <2> QED BY <2>1, <2>2, <2>3 DEF WorkInv, WorkOK
<1> QED BY <1>1, <1>2, <1>3, <1>4, <1>5, <1>6, <1>7, <1>8, <1>9 DEF IInv

(* The invariant of execution.go: every reachable state satisfies IInv,    *)
(* for any number of goroutines, modules and epochs.                       *)
THEOREM Invariance == Spec => []IInv
<1>1. Init => IInv
  BY InitIInv
<1>2. IInv /\ [Next]_vars => IInv'
  BY StepIInv, StutterIInv DEF Next
<1> QED BY <1>1, <1>2, PTL DEF Spec

(* The variables keep their types: in particular executionEpoch.active is  *)
(* never decremented below zero.                                           *)
THEOREM TypeCorrect == Spec => []TypeOK
<1>1. IInv => TypeOK
  BY DEF IInv
<1> QED BY <1>1, Invariance, PTL

(* A module a call reaches is released no earlier than the one it entered. *)
LEMMA ReachReleased ==
  ASSUME GraphInv, ModuleTypeOK, NEW m \in Modules, NEW x \in Reach(m)
  PROVE  memoryReleased[x] => memoryReleased[m] /\ releasedAt[m] <= releasedAt[x]
<1> DEFINE S == {y \in Modules : memoryReleased[y] =>
                    memoryReleased[m] /\ releasedAt[m] <= releasedAt[y]}
<1>1. m \in S
  BY DEF ModuleTypeOK
<1>2. LinksClosed(S)
  <2> SUFFICES ASSUME NEW l \in links, l[1] \in S PROVE l[2] \in S
    BY DEF LinksClosed
  <2>1. l = <<l[1], l[2]>> /\ l[1] \in Modules /\ l[2] \in Modules
    BY DEF ModuleTypeOK
  <2>2. memoryReleased[l[2]] =>
          memoryReleased[l[1]] /\ releasedAt[l[1]] <= releasedAt[l[2]]
    BY <2>1 DEF GraphInv
  <2>3. /\ releasedAt[m] \in Nat /\ releasedAt[l[1]] \in Nat
        /\ releasedAt[l[2]] \in Nat
    BY <2>1 DEF ModuleTypeOK
  <2> QED BY <2>1, <2>2, <2>3
<1>3. x \in S
  BY <1>1, <1>2 DEF Reach
<1> QED BY <1>3

(* What a call reaches is released no earlier than its pin, hence not      *)
(* collected.                                                              *)
LEMMA IInvNoUseAfterFree == IInv => NoUseAfterFree
<1> SUFFICES ASSUME IInv, NEW t \in Threads, InGuest(t),
                    NEW x \in Reach(entry[t]) \cap Owners
             PROVE  x \in expBuffer /\ freed[x] = 0
  BY DEF NoUseAfterFree
<1>1. /\ ModuleTypeOK /\ GraphInv /\ LocalOK(t) /\ LinkOK(t) /\ EntryOK(t)
      /\ PinOK(t) /\ ClosedInv /\ MemoryOK(x) /\ freed[x] \in Nat
      /\ \A m \in Modules : releasedAt[m] \in Nat
      /\ current \in Nat /\ Base \in Int
  <2>1. /\ TypeOK /\ GraphInv /\ ClosedInv /\ MemoryInv /\ PinInv /\ EntryInv
        /\ LinkingInv /\ ControlInv
    BY DEF IInv
  <2>2. current \in Nat /\ Base \in Int
    BY <2>1 DEF TypeOK, EpochTypeOK, Base
  <2> QED BY <2>1, <2>2 DEF TypeOK, ModuleTypeOK, MemoryTypeOK, ControlInv,
      LinkingInv, EntryInv, PinInv, MemoryInv
<1>2. entry[t] \in Modules
  BY <1>1 DEF InGuest, LocalOK, CallLabels, Nested
<1>3. memoryReleased[x] =>
        memoryReleased[entry[t]] /\ releasedAt[entry[t]] <= releasedAt[x]
  BY <1>1, <1>2, ReachReleased
<1>4. x \notin expBuffer \/ freed[x] > 0 => memoryReleased[x] /\ releasedAt[x] < Base
  BY <1>1 DEF MemoryOK
<1>5. CASE pc[t] = "link"
  <2>1. ~ memoryReleased[entry[t]]
    BY <1>1, <1>2, <1>5 DEF LinkOK, ClosedInv
  <2> QED BY <1>1, <1>3, <1>4, <2>1
<1>6. CASE pc[t] # "link"
  <2>1. pc[t] = "guest" \/ (pc[t] \in Nested /\ resume[t] = "guest")
    BY <1>6 DEF InGuest, Nested
  <2>2. memoryReleased[entry[t]] => epoch[t] <= releasedAt[entry[t]]
    BY <1>1, <2>1 DEF EntryOK
  <2>3. Base <= epoch[t] /\ epoch[t] \in 1 .. current
    BY <1>1, <2>1 DEF PinOK, Confirmed, Pinned, Nested
  <2>4. x \in Modules
    BY DEF Reach
  <2> QED BY <1>1, <1>2, <1>3, <1>4, <2>2, <2>3, <2>4
<1> QED BY <1>5, <1>6

(* No memory is freed, or its buffer dropped, while a call in flight or an *)
(* instantiation reaches it (BeginExecution, EndExecution, retireMemory).  *)
THEOREM MemorySafety == Spec => []NoUseAfterFree
  BY Invariance, IInvNoUseAfterFree, PTL

(* LinearMemory.Free is called at most once per memory, by whichever of    *)
(* retireMemory and EndExecution collects it.                              *)
THEOREM FreedAtMostOnce == Spec => []FreedOnce
<1>1. IInv => FreedOnce
  BY DEF IInv, MemoryInv, MemoryOK, FreedOnce
<1> QED BY <1>1, Invariance, PTL

(* Nobody will look at the queue of sealed epochs any more, so it is empty *)
(* and what was released is freed.                                         *)
LEMMA IInvNoLeakAtRest == IInv => NoLeakAtRest
<1> SUFFICES ASSUME IInv, \A t \in Threads : pc[t] = "idle",
                    NEW o \in Owners, memoryReleased[o]
             PROVE  freed[o] = 1
  BY DEF NoLeakAtRest
<1>1. \A t \in Threads : ~ Collects(t) /\ freeing[t] = {} /\ t \notin lock
  BY DEF IInv, ControlInv, LocalOK, Collects, Pinned, Nested, Unpinning, Critical
<1>2. batch = {}
  BY <1>1 DEF IInv, ControlInv, TypeOK, ThreadTypeOK
<1>3. queue = <<>>
  BY <1>1 DEF IInv, CollectInv
<1>4. Base = current /\ current \in Nat
  BY <1>3 DEF IInv, TypeOK, EpochTypeOK, Base
<1>5. \A e \in 1 .. current : retired[e] = {}
  BY <1>4 DEF IInv, EpochInv
<1>6. PlacedOK(o)
  BY DEF IInv, PlacedInv
<1> QED BY <1>1, <1>2, <1>5, <1>6 DEF PlacedOK

(* When no goroutine is inside the runtime every released memory is freed: *)
(* neither retireMemory nor the last EndExecution of an epoch leaves the   *)
(* collection to somebody who does not come.                               *)
THEOREM NothingLeaksAtRest == Spec => []NoLeakAtRest
  BY Invariance, IInvNoLeakAtRest, PTL

(* Outside the mutex the worklist is empty, so nothing is still to come;   *)
(* and what is released was reached from released modules only.            *)
LEMMA IInvReleasedExactly == IInv => ReleasedExactly
<1> SUFFICES ASSUME IInv, lock = {}, NEW m \in Modules
             PROVE  memoryReleased[m] <=> Unreached(m)
  BY DEF ReleasedExactly, Unreached
<1>1. ModuleTypeOK /\ GraphInv /\ ClosedInv
  BY DEF IInv, TypeOK
<1>2. ASSUME memoryReleased[m] PROVE Unreached(m)
  <2> SUFFICES ASSUME NEW x \in Modules, m \in Reach(x) PROVE memoryClosed[x]
    BY DEF Unreached
  <2>1. memoryReleased[x]
    BY <1>1, <1>2, ReachReleased
  <2> QED BY <1>1, <2>1 DEF ClosedInv
<1>3. ASSUME Unreached(m) PROVE memoryReleased[m]
  BY <1>3 DEF IInv, WorkInv, WorkOK
<1> QED BY <1>2, <1>3

(* Between critical sections a module is released if, and only if, no      *)
(* module that is not closed reaches it (unreferencedClosedModules).       *)
THEOREM ReleasedWhenUnreachable == Spec => []ReleasedExactly
  BY Invariance, IInvReleasedExactly, PTL
=============================================================================
