-------------------------- MODULE GuestExecutions --------------------------
(***************************************************************************)
(* Reclamation of allocator-backed linear memory                           *)
(* (internal/wasm/execution.go).                                           *)
(*                                                                         *)
(* A module that is closed may still be executing, may be executing on     *)
(* behalf of a module that imports it, and may be reached through a table  *)
(* it shares.  Its memory is therefore                                     *)
(*   - retained while a module that is not closed reaches it by imports    *)
(*     (retainImport, unreferencedClosedModules, memoryReleased);          *)
(*   - then retired into the epoch that is current, which is sealed, and   *)
(*     freed once that epoch and every earlier one has no call in flight   *)
(*     (BeginExecution, EndExecution, collectRetiredMemory).               *)
(*                                                                         *)
(* Threads are goroutines.  Every atomic operation, every acquisition of   *)
(* the mutex, every turn of a loop under it and every Free is a step.      *)
(* Epochs are numbered in the order in which they become current: they are *)
(* pointers to garbage-collected objects, so none is reused.               *)
(***************************************************************************)
EXTENDS Integers, Sequences, FiniteSets

CONSTANTS
    Threads,    \* goroutines that call, close and instantiate modules
    Modules,    \* module instances
    Owners,     \* those that define a memory made by a MemoryAllocator
    NoModule,   \* "no module" in a thread's local variables
    MaxRetain   \* how often one module may retain one other (bound)

ASSUME ConstantsAssumption ==
    /\ Owners \subseteq Modules
    /\ IsFiniteSet(Threads)
    /\ NoModule \notin Modules
    /\ MaxRetain \in Nat

VARIABLES
    current,         \* guestExecutions.current, 0 for nil
    active,          \* executionEpoch.active; DOMAIN = epochs allocated
    retired,         \* executionEpoch.retired: owners whose memory waits
    queue,           \* the list head .. tail of sealed epochs
    lock,            \* holder of guestExecutions.Mutex, {} if none
    status,          \* "absent", "linking" (in instantiate) or "live"
    closed,          \* ModuleInstance.Closed: its flag byte
    memoryClosed,    \* ModuleInstance.memoryClosed
    memoryReleased,  \* ModuleInstance.memoryReleased
    importers,       \* importers[b][a]: how often a retains b
    importedModules, \* importedModules[a][b]: how often b is in a's list
    expBuffer,       \* owners whose MemoryInstance.expBuffer is not nil
    freed,           \* number of LinearMemory.Free calls per owner
    ready, batch,    \* locals "ready" and "retired" of retireMemory
    pc, entry, epoch, target, resume, freeing, \* locals of each thread
    links,           \* history: <<a, b>> if a ever retained b
    releasedAt       \* history: current when a module was released

threadVars == <<pc, entry, epoch, target, resume, freeing>>
graphVars  == <<status, closed, memoryClosed, memoryReleased, importers,
                importedModules, links, releasedAt>>
epochVars  == <<current, active, retired, queue>>
memVars    == <<expBuffer, freed>>
workVars   == <<ready, batch>>
vars == <<epochVars, lock, graphVars, memVars, workVars, threadVars>>

Labels == {"idle", "load", "pin", "confirm", "check", "guest", "returning",
           "unpinRetry", "unpinClosed", "unpinReturn", "endcheck", "collect",
           "drain", "free", "fail", "closing", "retire", "work", "seal",
           "link"}

(* The pcs at which the thread holds guestExecutions.Mutex. *)
Critical == {"work", "seal", "drain"}

NoImports == [m \in Modules |-> 0]

EpochTypeOK ==
    /\ current \in Nat
    /\ active \in Seq(Nat)
    /\ retired \in Seq(SUBSET Owners)
    /\ queue \in Seq(Nat)

ModuleTypeOK ==
    /\ status \in [Modules -> {"absent", "linking", "live"}]
    /\ closed \in [Modules -> {"open", "closed", "notClosed"}]
    /\ memoryClosed \in [Modules -> BOOLEAN]
    /\ memoryReleased \in [Modules -> BOOLEAN]
    /\ importers \in [Modules -> [Modules -> Nat]]
    /\ importedModules \in [Modules -> [Modules -> Nat]]
    /\ links \in SUBSET (Modules \X Modules)
    /\ releasedAt \in [Modules -> Nat]

ThreadTypeOK ==
    /\ lock \in SUBSET Threads
    /\ pc \in [Threads -> Labels]
    /\ entry \in [Threads -> Modules \cup {NoModule}]
    /\ epoch \in [Threads -> Nat]
    /\ target \in [Threads -> Modules \cup {NoModule}]
    /\ resume \in [Threads -> Labels]
    /\ freeing \in [Threads -> SUBSET Owners]

MemoryTypeOK ==
    /\ expBuffer \in SUBSET Owners
    /\ freed \in [Owners -> Nat]
    /\ ready \in SUBSET Modules
    /\ batch \in SUBSET Owners

TypeOK == EpochTypeOK /\ ModuleTypeOK /\ ThreadTypeOK /\ MemoryTypeOK

Init ==
    /\ current = 0
    /\ active = <<>>
    /\ retired = <<>>
    /\ queue = <<>>
    /\ lock = {}
    /\ status = [m \in Modules |-> "absent"]
    /\ closed = [m \in Modules |-> "open"]
    /\ memoryClosed = [m \in Modules |-> FALSE]
    /\ memoryReleased = [m \in Modules |-> FALSE]
    /\ importers = [m \in Modules |-> NoImports]
    /\ importedModules = [m \in Modules |-> NoImports]
    /\ expBuffer = Owners
    /\ freed = [o \in Owners |-> 0]
    /\ ready = {}
    /\ batch = {}
    /\ pc = [t \in Threads |-> "idle"]
    /\ entry = [t \in Threads |-> NoModule]
    /\ epoch = [t \in Threads |-> 0]
    /\ target = [t \in Threads |-> NoModule]
    /\ resume = [t \in Threads |-> "idle"]
    /\ freeing = [t \in Threads |-> {}]
    /\ links = {}
    /\ releasedAt = [m \in Modules |-> 0]

(* Control moves from one label to another; the locals of a thread that    *)
(* becomes idle go out of scope.                                           *)
Goto(t, l) ==
    /\ pc' = [pc EXCEPT ![t] = l]
    /\ entry' = [entry EXCEPT ![t] = IF l = "idle" THEN NoModule ELSE @]

At(t, l) == pc[t] = l
----------------------------------------------------------------------------
(* BeginExecution.                                                         *)

(* api.Function.Call on a module; the embedder may hold the handle of a    *)
(* module that is already closed.                                          *)
StartCall(t, m) ==
    /\ At(t, "idle") /\ status[m] = "live"
    /\ pc' = [pc EXCEPT ![t] = "load"]
    /\ entry' = [entry EXCEPT ![t] = m]
    /\ UNCHANGED <<epochVars, lock, graphVars, memVars, workVars,
                   epoch, target, resume, freeing>>

(* epoch := current.Load() finds nil: CompareAndSwap(nil, new), continue.  *)
(* A CompareAndSwap that loses to another one changes nothing and retries. *)
BeginFirst(t) ==
    /\ At(t, "load") /\ current = 0
    /\ active' = Append(active, 0)
    /\ retired' = Append(retired, {})
    /\ current' = Len(active) + 1
    /\ UNCHANGED <<queue, lock, graphVars, memVars, workVars, threadVars>>

BeginLoad(t) ==
    /\ At(t, "load") /\ current # 0
    /\ epoch' = [epoch EXCEPT ![t] = current]
    /\ Goto(t, "pin")
    /\ UNCHANGED <<epochVars, lock, graphVars, memVars, workVars,
                   target, resume, freeing>>

BeginPin(t) ==
    /\ At(t, "pin")
    /\ active' = [active EXCEPT ![epoch[t]] = @ + 1]
    /\ Goto(t, "confirm")
    /\ UNCHANGED <<current, retired, queue, lock, graphVars, memVars, workVars,
                   epoch, target, resume, freeing>>

(* Mutant of BeginConfirm: the pin is trusted without the second load.     *)
BeginConfirmTrusting(t) ==
    /\ At(t, "confirm")
    /\ Goto(t, "check")
    /\ UNCHANGED <<epochVars, lock, graphVars, memVars, workVars,
                   epoch, target, resume, freeing>>

(* Second load of current: a pin of an epoch sealed meanwhile is dropped.  *)
BeginConfirm(t) ==
    /\ At(t, "confirm")
    /\ Goto(t, IF epoch[t] = current THEN "check" ELSE "unpinRetry")
    /\ UNCHANGED <<epochVars, lock, graphVars, memVars, workVars,
                   epoch, target, resume, freeing>>

BeginCheck(t) ==
    /\ At(t, "check")
    /\ Goto(t, IF closed[entry[t]] = "open" THEN "guest" ELSE "unpinClosed")
    /\ UNCHANGED <<epochVars, lock, graphVars, memVars, workVars,
                   epoch, target, resume, freeing>>
----------------------------------------------------------------------------
(* The call, and EndExecution, which runs deferred after FailIfClosed.     *)

Return(t) ==
    /\ At(t, "guest")
    /\ Goto(t, "returning")
    /\ UNCHANGED <<epochVars, lock, graphVars, memVars, workVars,
                   epoch, target, resume, freeing>>

(* Mutant of Trap: EndExecution is not deferred, so that a trap skips it.  *)
TrapLeaksPin(t) ==
    /\ At(t, "guest")
    /\ Goto(t, "idle")
    /\ UNCHANGED <<epochVars, lock, graphVars, memVars, workVars,
                   epoch, target, resume, freeing>>

(* The compiler's calls skip FailIfClosed when the guest traps. *)
Trap(t) ==
    /\ At(t, "guest")
    /\ Goto(t, "unpinReturn")
    /\ UNCHANGED <<epochVars, lock, graphVars, memVars, workVars,
                   epoch, target, resume, freeing>>

(* FailIfClosed of the call: a module closed asynchronously has its        *)
(* resources closed here, by every call that gets here.                    *)
ReturnFailIfClosed(t) ==
    /\ At(t, "returning")
    /\ IF closed[entry[t]] = "notClosed"
       THEN /\ Goto(t, "retire")
            /\ target' = [target EXCEPT ![t] = entry[t]]
            /\ resume' = [resume EXCEPT ![t] = "unpinReturn"]
       ELSE /\ Goto(t, "unpinReturn")
            /\ UNCHANGED <<target, resume>>
    /\ UNCHANGED <<epochVars, lock, graphVars, memVars, workVars,
                   epoch, freeing>>

(* FailIfClosed of a call that BeginExecution refused. *)
RefusedFailIfClosed(t) ==
    /\ At(t, "fail")
    /\ IF closed[entry[t]] = "notClosed"
       THEN /\ Goto(t, "retire")
            /\ target' = [target EXCEPT ![t] = entry[t]]
            /\ resume' = [resume EXCEPT ![t] = "idle"]
       ELSE /\ Goto(t, "idle")
            /\ UNCHANGED <<target, resume>>
    /\ UNCHANGED <<epochVars, lock, graphVars, memVars, workVars,
                   epoch, freeing>>

(* Where EndExecution returns to. *)
AfterEnd(l) ==
    CASE l = "unpinRetry"  -> "load"
      [] l = "unpinClosed" -> "fail"
      [] l = "unpinReturn" -> "idle"

Unpinning == {"unpinRetry", "unpinClosed", "unpinReturn"}

(* active.Add(-1): the last one out looks whether the epoch is sealed.     *)
EndUnpin(t) ==
    /\ pc[t] \in Unpinning
    /\ active' = [active EXCEPT ![epoch[t]] = @ - 1]
    /\ resume' = [resume EXCEPT ![t] = AfterEnd(pc[t])]
    /\ IF active[epoch[t]] = 1
       THEN Goto(t, "endcheck") /\ UNCHANGED epoch
       ELSE /\ Goto(t, AfterEnd(pc[t]))
            /\ epoch' = [epoch EXCEPT ![t] = 0]
    /\ UNCHANGED <<current, retired, queue, lock, graphVars, memVars, workVars,
                   target, freeing>>

(* Mutant of EndCheck: the collection is left to retireMemory. *)
EndCheckReturns(t) ==
    /\ At(t, "endcheck")
    /\ Goto(t, resume[t])
    /\ epoch' = [epoch EXCEPT ![t] = 0]
    /\ UNCHANGED <<epochVars, lock, graphVars, memVars, workVars,
                   target, resume, freeing>>

EndCheck(t) ==
    /\ At(t, "endcheck")
    /\ Goto(t, IF epoch[t] = current THEN resume[t] ELSE "collect")
    /\ epoch' = [epoch EXCEPT ![t] = 0]
    /\ UNCHANGED <<epochVars, lock, graphVars, memVars, workVars,
                   target, resume, freeing>>

EndLock(t) ==
    /\ At(t, "collect") /\ lock = {}
    /\ lock' = {t}
    /\ Goto(t, "drain")
    /\ UNCHANGED <<epochVars, graphVars, memVars, workVars,
                   epoch, target, resume, freeing>>
----------------------------------------------------------------------------
(* collectRetiredMemory, the unlock after it, and the Free calls.          *)

(* May the epoch at the head of the queue be drained? *)
HeadIdle == queue # <<>> /\ active[Head(queue)] = 0

(* Mutant of Drain: the first epoch is collected but stays in the queue.   *)
DrainKeepsHead(t) ==
    /\ At(t, "drain") /\ HeadIdle
    /\ freeing' = [freeing EXCEPT ![t] = @ \cup retired[Head(queue)]]
    /\ lock' = {}
    /\ Goto(t, "free")
    /\ UNCHANGED <<epochVars, graphVars, memVars, workVars,
                   epoch, target, resume>>

Drain(t) ==
    /\ At(t, "drain") /\ HeadIdle
    /\ freeing' = [freeing EXCEPT ![t] = @ \cup retired[Head(queue)]]
    /\ retired' = [retired EXCEPT ![Head(queue)] = {}]
    /\ queue' = Tail(queue)
    /\ UNCHANGED <<current, active, lock, graphVars, memVars, workVars,
                   pc, entry, epoch, target, resume>>

DrainDone(t) ==
    /\ At(t, "drain") /\ ~ HeadIdle
    /\ expBuffer' = expBuffer \ freeing[t]
    /\ lock' = {}
    /\ Goto(t, "free")
    /\ UNCHANGED <<epochVars, graphVars, freed, workVars,
                   epoch, target, resume, freeing>>

(* "Allocator callbacks may reenter the runtime: never under a lock."      *)
Free(t, o) ==
    /\ At(t, "free") /\ o \in freeing[t]
    /\ freed' = [freed EXCEPT ![o] = @ + 1]
    /\ freeing' = [freeing EXCEPT ![t] = @ \ {o}]
    /\ UNCHANGED <<epochVars, lock, graphVars, expBuffer, workVars,
                   pc, entry, epoch, target, resume>>

FreeDone(t) ==
    /\ At(t, "free") /\ freeing[t] = {}
    /\ Goto(t, resume[t])
    /\ UNCHANGED <<epochVars, lock, graphVars, memVars, workVars,
                   epoch, target, resume, freeing>>
----------------------------------------------------------------------------
(* Closing a module.                                                       *)

(* The embedder closes a module, or a host function does during a call.    *)
StartClose(t, m) ==
    /\ pc[t] \in {"idle", "guest"} /\ status[m] = "live"
    /\ Goto(t, "closing")
    /\ target' = [target EXCEPT ![t] = m]
    /\ resume' = [resume EXCEPT ![t] = pc[t]]
    /\ UNCHANGED <<epochVars, lock, graphVars, memVars, workVars,
                   epoch, freeing>>

(* CloseWithExitCode: only the call that sets Closed closes resources.     *)
CloseSetExitCode(t) ==
    /\ At(t, "closing")
    /\ IF closed[target[t]] = "open"
       THEN /\ closed' = [closed EXCEPT ![target[t]] = "closed"]
            /\ Goto(t, "retire")
            /\ UNCHANGED target
       ELSE /\ Goto(t, resume[t])
            /\ target' = [target EXCEPT ![t] = NoModule]
            /\ UNCHANGED closed
    /\ UNCHANGED <<epochVars, lock, status, memoryClosed, memoryReleased,
                   importers, importedModules, links, releasedAt, memVars,
                   workVars, epoch, resume, freeing>>

(* The goroutine closeModuleOnCanceledOrTimeout that t's call of m spawned *)
(* sets Closed and leaves the resources to FailIfClosed.  It may be late:  *)
(* nothing keeps the call from returning meanwhile, so that the model does *)
(* not ask whether t is still, or ever was, in such a call.                *)
AsyncClose(t, m) ==
    /\ status[m] = "live" /\ closed[m] = "open"
    /\ closed' = [closed EXCEPT ![m] = "notClosed"]
    /\ UNCHANGED <<epochVars, lock, status, memoryClosed, memoryReleased,
                   importers, importedModules, links, releasedAt, memVars,
                   workVars, threadVars>>

(* retireMemory takes the mutex and returns at once the second time.       *)
RetireLock(t) ==
    /\ At(t, "retire") /\ lock = {}
    /\ target' = [target EXCEPT ![t] = NoModule]
    /\ IF memoryClosed[target[t]]
       THEN /\ Goto(t, resume[t])
            /\ UNCHANGED <<lock, memoryClosed, workVars>>
       ELSE /\ lock' = {t}
            /\ memoryClosed' = [memoryClosed EXCEPT ![target[t]] = TRUE]
            /\ ready' = {target[t]}
            /\ batch' = {}
            /\ Goto(t, "work")
    /\ UNCHANGED <<epochVars, status, closed, memoryReleased, importers,
                   importedModules, links, releasedAt, memVars, epoch, resume,
                   freeing>>

(* The modules from which m is reached against the import edges, m among   *)
(* them: the least set that contains m and the importers of its members.   *)
ImportersClosed(S) ==
    \A b \in S : \A a \in Modules : importers[b][a] > 0 => a \in S

Retainers(m) ==
    {x \in Modules :
        \A S \in SUBSET Modules : m \in S /\ ImportersClosed(S) => x \in S}

(* Mutant of unreferencedClosedModules: direct importers only. *)
unreferencedDirect(m) ==
    LET direct == {x \in Modules : importers[m][x] > 0}
    IN  IF \A x \in direct : memoryClosed[x] THEN {m} \cup direct ELSE {}

(* Nil if an importer among them is not closed; m itself is.               *)
unreferencedClosedModules(m) ==
    IF \A x \in Retainers(m) : memoryClosed[x] THEN Retainers(m) ELSE {}

(* What one turn of the worklist releases when it pops m. *)
Releasable(m) ==
    IF memoryClosed[m] /\ ~ memoryReleased[m]
    THEN unreferencedClosedModules(m) ELSE {}

(* One turn of the worklist.  The stack "ready" is a set here and any of   *)
(* its members is popped: modules released twice are skipped in any order. *)
Work(t, m) ==
    /\ At(t, "work") /\ m \in ready
    /\ memoryReleased' =
           [x \in Modules |-> memoryReleased[x] \/ x \in Releasable(m)]
    /\ releasedAt' =
           [x \in Modules |-> IF x \in Releasable(m) THEN current
                              ELSE releasedAt[x]]
    /\ importers' =
           [b \in Modules |-> [a \in Modules |->
               importers[b][a] - IF a \in Releasable(m)
                                 THEN importedModules[a][b] ELSE 0]]
    /\ importedModules' =
           [a \in Modules |-> IF a \in Releasable(m) THEN NoImports
                              ELSE importedModules[a]]
    /\ ready' = (ready \ {m}) \cup
           {b \in Modules : \E a \in Releasable(m) : importedModules[a][b] > 0}
    /\ batch' = batch \cup (Releasable(m) \cap expBuffer)
    /\ UNCHANGED <<epochVars, lock, status, closed, memoryClosed, links,
                   memVars, threadVars>>

WorkDone(t) ==
    /\ At(t, "work") /\ ready = {}
    /\ Goto(t, "seal")
    /\ UNCHANGED <<epochVars, lock, graphVars, memVars, workVars,
                   epoch, target, resume, freeing>>

(* Nothing retired: unlock.  Otherwise current.Swap seals the epoch that   *)
(* was current, or a fresh one if none ever was, with this batch.          *)
SealNothing(t) ==
    /\ At(t, "seal") /\ batch = {}
    /\ lock' = {}
    /\ Goto(t, resume[t])
    /\ UNCHANGED <<epochVars, graphVars, memVars, workVars,
                   epoch, target, resume, freeing>>

(* Mutant of Seal: the epoch that is sealed stays current. *)
SealKeepsCurrent(t) ==
    /\ At(t, "seal") /\ batch # {}
    /\ active' = IF current = 0 THEN Append(active, 0) ELSE active
    /\ retired' = IF current = 0 THEN Append(retired, batch)
                  ELSE [retired EXCEPT ![current] = @ \cup batch]
    /\ current' = Len(active')
    /\ queue' = Append(queue, Len(active'))
    /\ batch' = {}
    /\ Goto(t, "drain")
    /\ UNCHANGED <<lock, graphVars, memVars, ready,
                   epoch, target, resume, freeing>>

Seal(t) ==
    /\ At(t, "seal") /\ batch # {}
    /\ IF current = 0
       THEN /\ active' = Append(Append(active, 0), 0)
            /\ retired' = Append(Append(retired, batch), {})
            /\ queue' = Append(queue, Len(active) + 1)
       ELSE /\ active' = Append(active, 0)
            /\ retired' = Append([retired EXCEPT ![current] = batch], {})
            /\ queue' = Append(queue, current)
    /\ current' = Len(active')
    /\ batch' = {}
    /\ Goto(t, "drain")
    /\ UNCHANGED <<lock, graphVars, memVars, ready,
                   epoch, target, resume, freeing>>
----------------------------------------------------------------------------
(* Linking (Store.instantiate, resolveImports).                            *)

StartInstantiate(t, m) ==
    /\ At(t, "idle") /\ status[m] = "absent"
    /\ status' = [status EXCEPT ![m] = "linking"]
    /\ pc' = [pc EXCEPT ![t] = "link"]
    /\ entry' = [entry EXCEPT ![t] = m]
    /\ UNCHANGED <<epochVars, lock, closed, memoryClosed, memoryReleased,
                   importers, importedModules, links, releasedAt, memVars,
                   workVars, epoch, target, resume, freeing>>

(* a.retainImport(b) once the mutex is held. *)
Retainable(b) == closed[b] = "open" /\ ~ memoryClosed[b]

(* Mutant of retainImport: the dependency does not learn of its importer.  *)
retainImportOneSided(a, b) ==
    /\ importedModules' = [importedModules EXCEPT ![a][b] = @ + 1]
    /\ links' = links \cup {<<a, b>>}
    /\ UNCHANGED importers

retainImport(a, b) ==
    /\ importers' = [importers EXCEPT ![b][a] = @ + 1]
    /\ importedModules' = [importedModules EXCEPT ![a][b] = @ + 1]
    /\ links' = links \cup {<<a, b>>}

(* Import of a module found in the store, which may be closed by now.      *)
ResolveImport(t, b) ==
    /\ At(t, "link") /\ lock = {}
    /\ status[b] = "live" /\ importers[b][entry[t]] < MaxRetain
    /\ IF Retainable(b)
       THEN /\ retainImport(entry[t], b)
            /\ UNCHANGED <<pc, entry, target, resume>>
       ELSE /\ Goto(t, "closing")
            /\ target' = [target EXCEPT ![t] = entry[t]]
            /\ resume' = [resume EXCEPT ![t] = "idle"]
            /\ UNCHANGED <<importers, importedModules, links>>
    /\ UNCHANGED <<epochVars, lock, status, closed, memoryClosed,
                   memoryReleased, releasedAt, memVars, workVars, epoch,
                   freeing>>

(* The imported table may hold functions of the importer from now on: its  *)
(* exporter retains the importer.                                          *)
ResolveTable(t, b) ==
    /\ At(t, "link") /\ lock = {}
    /\ importers[b][entry[t]] > 0 /\ importers[entry[t]][b] < MaxRetain
    /\ IF Retainable(entry[t]) THEN retainImport(b, entry[t])
       ELSE UNCHANGED <<importers, importedModules, links>>
    /\ UNCHANGED <<epochVars, lock, status, closed, memoryClosed,
                   memoryReleased, releasedAt, memVars, workVars, threadVars>>

LinkDone(t) ==
    /\ At(t, "link")
    /\ status' = [status EXCEPT ![entry[t]] = "live"]
    /\ Goto(t, "idle")
    /\ UNCHANGED <<epochVars, lock, closed, memoryClosed, memoryReleased,
                   importers, importedModules, links, releasedAt, memVars,
                   workVars, epoch, target, resume, freeing>>

(* Another error of instantiate: the deferred Close of the instance.       *)
LinkFail(t) ==
    /\ At(t, "link")
    /\ Goto(t, "closing")
    /\ target' = [target EXCEPT ![t] = entry[t]]
    /\ resume' = [resume EXCEPT ![t] = "idle"]
    /\ UNCHANGED <<epochVars, lock, graphVars, memVars, workVars, epoch,
                   freeing>>
----------------------------------------------------------------------------
(* What a thread does once it has started something. *)
Step(t) ==
    \/ BeginFirst(t) \/ BeginLoad(t) \/ BeginPin(t) \/ BeginConfirm(t)
    \/ BeginCheck(t) \/ Return(t) \/ ReturnFailIfClosed(t)
    \/ RefusedFailIfClosed(t) \/ EndUnpin(t) \/ EndCheck(t) \/ EndLock(t)
    \/ Drain(t) \/ DrainDone(t) \/ FreeDone(t)
    \/ \E o \in Owners : Free(t, o)
    \/ CloseSetExitCode(t) \/ RetireLock(t)
    \/ \E m \in Modules : Work(t, m)
    \/ WorkDone(t) \/ SealNothing(t) \/ Seal(t)

(* What the embedder or the guest chooses to do. *)
Choice(t) ==
    \/ \E m \in Modules : StartCall(t, m) \/ StartClose(t, m)
                          \/ StartInstantiate(t, m) \/ AsyncClose(t, m)
    \/ \E b \in Modules : ResolveImport(t, b) \/ ResolveTable(t, b)
    \/ LinkDone(t) \/ LinkFail(t) \/ Trap(t)

Next == \E t \in Threads : Step(t) \/ Choice(t)

Spec == Init /\ [][Next]_vars

(* Calls in flight return (guest code and allocator callbacks terminate),  *)
(* goroutines are scheduled, and sync.Mutex does not starve a waiter.      *)
Fairness(t) ==
    /\ WF_vars(Step(t))
    /\ SF_vars(Return(t))
    /\ SF_vars(EndLock(t) \/ RetireLock(t))

FairSpec == Spec /\ \A t \in Threads : Fairness(t)
----------------------------------------------------------------------------
(* Properties.                                                             *)

(* The modules a call into m may execute in or access the memory of.       *)
LinksClosed(S) == \A l \in links : l[1] \in S => l[2] \in S

Reach(m) ==
    {x \in Modules :
        \A S \in SUBSET Modules : m \in S /\ LinksClosed(S) => x \in S}

(* t runs guest code, or a host function the guest called, or initialises  *)
(* the module it instantiates.                                             *)
InGuest(t) ==
    \/ pc[t] \in {"guest", "link"}
    \/ /\ pc[t] \in {"closing", "retire", "work", "seal", "drain", "free"}
       /\ resume[t] = "guest"

(* No memory is freed, or its buffer dropped, while a call in flight or an *)
(* instantiation can reach it through imports and shared tables, whichever *)
(* modules are closed meanwhile and by whom.                               *)
NoUseAfterFree ==
    \A t \in Threads : InGuest(t) =>
        \A x \in Reach(entry[t]) \cap Owners : x \in expBuffer /\ freed[x] = 0

(* LinearMemory.Free is called at most once, though retirement, the last   *)
(* call of an epoch and repeated FailIfClosed all collect.                 *)
FreedOnce == \A o \in Owners : freed[o] <= 1

(* When no goroutine is inside the runtime, every memory that was released *)
(* is freed: no last call of an epoch leaves the collection to nobody.     *)
NoLeakAtRest ==
    (\A t \in Threads : pc[t] = "idle") =>
        \A o \in Owners : memoryReleased[o] => freed[o] = 1

(* Between critical sections a closed module is released if, and only if,  *)
(* no module that is not closed reaches it: shared tables make import      *)
(* cycles, which are released together, and one live importer keeps all.   *)
ReleasedExactly ==
    lock = {} =>
        \A m \in Modules :
            memoryReleased[m] <=>
                \A x \in Modules : m \in Reach(x) => memoryClosed[x]

(* A released memory is eventually freed, even while new calls keep coming *)
(* ("continuous traffic cannot postpone Free forever").                    *)
ReleasedIsFreed == \A o \in Owners : memoryReleased[o] ~> freed[o] = 1
============================================================================
