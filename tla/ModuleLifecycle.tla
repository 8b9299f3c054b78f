-------------------------- MODULE ModuleLifecycle --------------------------
(***************************************************************************)
(* Instantiating, calling and closing modules: runtime.InstantiateModule,  *)
(* Store.Instantiate, the store's name map and module list, the ways a     *)
(* module is closed, and the release of its resources.                     *)
(*                                                                         *)
(* Goroutines run these as procedures that call each other; stack[t] holds *)
(* the frames of goroutine t, the running one first.  An atomic operation, *)
(* a critical section of Store.mux or a call that leaves the runtime is a  *)
(* step.  Linking, data segments and the memory's retirement, which        *)
(* GuestExecutions details, are single steps here.                         *)
(***************************************************************************)
EXTENDS StoreModules

CONSTANT Threads    \* goroutines of the embedder

VARIABLES
    runtimeClosed, \* runtime.closed
    mux,           \* who holds Store.mux from one step to the next
    closing,       \* local "modules" of Store.CloseWithExitCode
    closed,        \* ModuleInstance.Closed: its flag byte
    resources,     \* what of the module is not released yet
    notified,      \* number of CloseNotify calls
    watcher,       \* goroutine closeModuleOnCanceledOrTimeout of a call
    stack,         \* frames of each goroutine
    failed,        \* whether the last call of goroutine t returned an error
    visible,       \* modules of which the embedder may hold a handle
    registered,    \* history: modules that registerModule accepted
    closeReturned, \* history: modules of which a Close has returned
    runtimeDone    \* history: runtime.CloseWithExitCode has returned

histVars  == <<visible, registered, closeReturned, runtimeDone>>
vars == <<runtimeClosed, storeVars, mux, closing, closed, resources, notified,
          watcher, stack, failed, histVars>>

Labels == {"check", "precheck", "build", "section", "hooks", "register",
           "started", "exported", "abort", "drop", "begin", "guest", "fail",
           "close", "delete", "notify", "forget", "sys", "retire", "code",
           "returned", "snapshot", "unlock", "each", "closeStore"}

Resources == {"notifier", "sys", "memory", "code", "codeCloser"}

TypeOK ==
    /\ StoreTypeOK
    /\ runtimeClosed \in BOOLEAN
    /\ mux \in SUBSET Threads
    /\ closing \in Seq(Modules)
    /\ closed \in [Modules -> {"open", "closed", "notClosed"}]
    /\ resources \in [Modules -> SUBSET Resources]
    /\ notified \in [Modules -> Nat]
    /\ watcher \in [Modules -> {"off", "firing", "deleting"}]
    /\ stack \in [Threads -> Seq([at : Labels, m : Modules \cup {NoModule}])]
    /\ failed \in [Threads -> BOOLEAN]
    /\ visible \in SUBSET Modules /\ registered \in SUBSET Modules
    /\ closeReturned \in SUBSET Modules
    /\ runtimeDone \in BOOLEAN

Init ==
    /\ StoreInit
    /\ runtimeClosed = FALSE
    /\ mux = {}
    /\ closing = <<>>
    /\ closed = [m \in Modules |-> "open"]
    /\ resources = [m \in Modules |-> {}]
    /\ notified = [m \in Modules |-> 0]
    /\ watcher = [m \in Modules |-> "off"]
    /\ stack = [t \in Threads |-> <<>>]
    /\ failed = [t \in Threads |-> FALSE]
    /\ visible = {} /\ registered = {} /\ closeReturned = {}
    /\ runtimeDone = FALSE
----------------------------------------------------------------------------
(* Frames. *)

Frame(l, m) == [at |-> l, m |-> m]

At(t, l) == stack[t] # <<>> /\ Head(stack[t]).at = l

Top(t) == Head(stack[t]).m

(* The running procedure goes on at l. *)
Goto(t, l) == stack' = [stack EXCEPT ![t] = <<Frame(l, Top(t))>> \o Tail(@)]

(* It calls the procedure that starts at l, for m, and goes on at r. *)
Call(t, l, m, r) ==
    stack' = [stack EXCEPT ![t] =
                 <<Frame(l, m), Frame(r, Top(t))>> \o Tail(@)]

Return(t) == stack' = [stack EXCEPT ![t] = Tail(@)]

Start(t, l, m) == stack' = [stack EXCEPT ![t] = <<Frame(l, m)>>]

Release(m, r) == resources' = [resources EXCEPT ![m] = @ \ {r}]
----------------------------------------------------------------------------
(* Closing one module.                                                     *)

(* The embedder closes a module it has a handle of, or a host function     *)
(* does, for its own module or another, while the guest waits for it.  A   *)
(* call whose context is done before it starts closes its own module too   *)
(* (CloseWithCtxErr) and then goes on to FailIfClosed.                     *)
StartClose(t, m) ==
    /\ m \in visible /\ stack[t] = <<>>
    /\ stack' = [stack EXCEPT ![t] = <<Frame("close", m), Frame("returned", m)>>]
    /\ UNCHANGED <<runtimeClosed, storeVars, mux, closing, closed, resources,
                   notified, watcher, failed, histVars>>

HostClose(t, m) ==
    /\ At(t, "guest") /\ (m = Top(t) \/ m \in visible)
    /\ Call(t, "close", m, "guest")
    /\ UNCHANGED <<runtimeClosed, storeVars, mux, closing, closed, resources,
                   notified, watcher, failed, histVars>>

(* CloseWithExitCode and closeWithExitCode: setExitCode wins only once.    *)
CloseSetExitCode(t) ==
    /\ At(t, "close") \/ At(t, "closeStore")
    /\ IF closed[Top(t)] = "open"
       THEN /\ closed' = [closed EXCEPT ![Top(t)] = "closed"]
            /\ Goto(t, IF At(t, "close") THEN "delete" ELSE "notify")
       ELSE Return(t) /\ UNCHANGED closed
    /\ UNCHANGED <<runtimeClosed, storeVars, mux, closing, resources, notified,
                   watcher, failed, histVars>>

(* Mutant of CloseDelete: the module is not deleted. *)
CloseDeleteForgotten(t) ==
    /\ At(t, "delete")
    /\ Goto(t, "notify")
    /\ UNCHANGED <<runtimeClosed, storeVars, mux, closing, closed, resources,
                   notified, watcher, failed, histVars>>

CloseDelete(t) ==
    /\ At(t, "delete") /\ mux = {}
    /\ deleteModule(Top(t))
    /\ Goto(t, "notify")
    /\ UNCHANGED <<runtimeClosed, mux, closing, closed, resources, notified,
                   watcher, failed, histVars>>

CloseReturned(t) ==
    /\ At(t, "returned")
    /\ closeReturned' = closeReturned \cup {Top(t)}
    /\ Return(t)
    /\ UNCHANGED <<runtimeClosed, storeVars, mux, closing, closed, resources,
                   notified, watcher, failed, visible, registered, runtimeDone>>
----------------------------------------------------------------------------
(* ensureResourcesClosed.  CloseNotify may look up modules: the callback   *)
(* waits for Store.mux.  The field is cleared after the call.              *)

EnsureNotify(t) ==
    /\ At(t, "notify")
    /\ IF "notifier" \in resources[Top(t)]
       THEN /\ mux = {}
            /\ notified' = [notified EXCEPT ![Top(t)] = @ + 1]
            /\ Goto(t, "forget")
       ELSE Goto(t, "sys") /\ UNCHANGED notified
    /\ UNCHANGED <<runtimeClosed, storeVars, mux, closing, closed, resources,
                   watcher, failed, histVars>>

EnsureForget(t) ==
    /\ At(t, "forget")
    /\ Release(Top(t), "notifier")
    /\ Goto(t, "sys")
    /\ UNCHANGED <<runtimeClosed, storeVars, mux, closing, closed, notified,
                   watcher, failed, histVars>>

EnsureSys(t) ==
    /\ At(t, "sys")
    /\ Release(Top(t), "sys")
    /\ Goto(t, "retire")
    /\ UNCHANGED <<runtimeClosed, storeVars, mux, closing, closed, notified,
                   watcher, failed, histVars>>

EnsureRetire(t) ==
    /\ At(t, "retire")
    /\ Release(Top(t), "memory")
    /\ Goto(t, "code")
    /\ UNCHANGED <<runtimeClosed, storeVars, mux, closing, closed, notified,
                   watcher, failed, histVars>>

EnsureCode(t) ==
    /\ At(t, "code")
    /\ resources' = [resources EXCEPT ![Top(t)] =
                        IF "codeCloser" \in @ THEN @ \ {"code", "codeCloser"}
                        ELSE @]
    /\ Return(t)
    /\ UNCHANGED <<runtimeClosed, storeVars, mux, closing, closed, notified,
                   watcher, failed, histVars>>
----------------------------------------------------------------------------
(* Calls, under WithCloseOnContextDone.                                    *)

StartCall(t, m) ==
    /\ m \in visible /\ stack[t] = <<>>
    /\ Start(t, "begin", m)
    /\ UNCHANGED <<runtimeClosed, storeVars, mux, closing, closed, resources,
                   notified, watcher, failed, histVars>>

(* BeginExecution refuses a closed module. *)
BeginExecution(t) ==
    /\ At(t, "begin")
    /\ Goto(t, IF closed[Top(t)] = "open" THEN "guest" ELSE "fail")
    /\ failed' = [failed EXCEPT ![t] = FALSE]
    /\ UNCHANGED <<runtimeClosed, storeVars, mux, closing, closed, resources,
                   notified, watcher, histVars>>

(* The context is done while the call runs and its watcher takes the       *)
(* default branch of the inner select; cancelChan is not looked at again.  *)
ContextDone(t, m) ==
    /\ \E i \in DOMAIN stack[t] : stack[t][i] = Frame("guest", m)
    /\ watcher[m] = "off"
    /\ watcher' = [watcher EXCEPT ![m] = "firing"]
    /\ UNCHANGED <<runtimeClosed, storeVars, mux, closing, closed, resources,
                   notified, stack, failed, histVars>>

(* closeWithExitCodeWithoutClosingResource, in the watcher's goroutine.    *)
AsyncSetExitCode(m) ==
    /\ watcher[m] = "firing"
    /\ closed' = [closed EXCEPT ![m] = IF @ = "open" THEN "notClosed" ELSE @]
    /\ watcher' = [watcher EXCEPT ![m] =
                      IF closed[m] = "open" THEN "deleting" ELSE "off"]
    /\ UNCHANGED <<runtimeClosed, storeVars, mux, closing, resources, notified,
                   stack, failed, histVars>>

AsyncDelete(m) ==
    /\ watcher[m] = "deleting" /\ mux = {}
    /\ deleteModule(m)
    /\ watcher' = [watcher EXCEPT ![m] = "off"]
    /\ UNCHANGED <<runtimeClosed, mux, closing, closed, resources, notified,
                   stack, failed, histVars>>

(* The guest returns, or finds its module closed at a loop header.         *)
GuestReturn(t) ==
    /\ At(t, "guest")
    /\ Goto(t, "fail")
    /\ UNCHANGED <<runtimeClosed, storeVars, mux, closing, closed, resources,
                   notified, watcher, failed, histVars>>

(* A trap is an error of the call; the compiler's calls then return        *)
(* without FailIfClosed, the interpreter's run it.                         *)
GuestTrap(t) ==
    /\ At(t, "guest")
    /\ failed' = [failed EXCEPT ![t] = TRUE]
    /\ Goto(t, "fail") \/ Return(t)
    /\ UNCHANGED <<runtimeClosed, storeVars, mux, closing, closed, resources,
                   notified, watcher, histVars>>

(* FailIfClosed releases the resources of a module closed asynchronously.  *)
FailIfClosed(t) ==
    /\ At(t, "fail")
    /\ failed' = [failed EXCEPT ![t] = @ \/ closed[Top(t)] # "open"]
    /\ IF closed[Top(t)] = "notClosed" THEN Goto(t, "notify") ELSE Return(t)
    /\ UNCHANGED <<runtimeClosed, storeVars, mux, closing, closed, resources,
                   notified, watcher, histVars>>
----------------------------------------------------------------------------
(* runtime.InstantiateModule and Store.Instantiate.                        *)

Untouched(m) ==
    /\ resources[m] = {} /\ closed[m] = "open"
    /\ m \notin visible
    /\ \A t \in Threads : \A i \in DOMAIN stack[t] : stack[t][i].m # m

(* InstantiateWithConfig has compiled the module and owns the code. *)
StartInstantiate(t, m) ==
    /\ stack[t] = <<>> /\ Untouched(m)
    /\ resources' = [resources EXCEPT ![m] = {"code"}]
    /\ Start(t, "check", m)
    /\ UNCHANGED <<runtimeClosed, storeVars, mux, closing, closed, notified,
                   watcher, failed, histVars>>

(* failIfClosed returns without closing the code; otherwise toSysContext.  *)
InstantiateCheck(t) ==
    /\ At(t, "check")
    /\ IF runtimeClosed
       THEN Return(t) /\ UNCHANGED resources
       ELSE /\ resources' = [resources EXCEPT ![Top(t)] = @ \cup {"sys"}]
            /\ Goto(t, "precheck")
    /\ UNCHANGED <<runtimeClosed, storeVars, mux, closing, closed, notified,
                   watcher, failed, histVars>>

(* Store.Instantiate looks whether the name is free before side effects.   *)
InstantiatePrecheck(t) ==
    /\ At(t, "precheck") /\ mux = {}
    /\ Goto(t, IF NameFree(Top(t)) THEN "build" ELSE "abort")
    /\ UNCHANGED <<runtimeClosed, storeVars, mux, closing, closed, resources,
                   notified, watcher, failed, histVars>>

(* Store.instantiate: imports, memory and segments, then the start section *)
(* if there is one.  Its error runs the deferred Close of the instance.    *)
InstantiateBuild(t) ==
    /\ At(t, "build")
    /\ resources' = [resources EXCEPT ![Top(t)] = @ \cup {"memory"}]
    /\ \/ Call(t, "close", Top(t), "abort")
       \/ Call(t, "begin", Top(t), "section")
       \/ Goto(t, "hooks")
    /\ UNCHANGED <<runtimeClosed, storeVars, mux, closing, closed, notified,
                   watcher, failed, histVars>>

InstantiateSection(t) ==
    /\ At(t, "section")
    /\ IF failed[t] THEN Call(t, "close", Top(t), "abort")
       ELSE Goto(t, "hooks")
    /\ UNCHANGED <<runtimeClosed, storeVars, mux, closing, closed, resources,
                   notified, watcher, failed, histVars>>

(* CloseNotifier and CodeCloser are attached before the module is visible. *)
InstantiateHooks(t) ==
    /\ At(t, "hooks")
    /\ resources' = [resources EXCEPT ![Top(t)] = @ \cup {"notifier", "codeCloser"}]
    /\ Goto(t, "register")
    /\ UNCHANGED <<runtimeClosed, storeVars, mux, closing, closed, notified,
                   watcher, failed, histVars>>

(* Mutant of InstantiateRegister: a duplicate is refused but not closed.   *)
InstantiateRegisterUnclosed(t) ==
    /\ At(t, "register") /\ mux = {}
    /\ IF Registrable(Top(t))
       THEN /\ registerModule(Top(t))
            /\ registered' = registered \cup {Top(t)}
            /\ visible' = visible \cup {Top(t)}
            /\ Goto(t, "started")
       ELSE /\ Goto(t, "abort")
            /\ UNCHANGED <<storeVars, registered, visible>>
    /\ UNCHANGED <<runtimeClosed, mux, closing, closed, resources, notified,
                   watcher, failed, closeReturned, runtimeDone>>

InstantiateRegister(t) ==
    /\ At(t, "register") /\ mux = {}
    /\ IF Registrable(Top(t))
       THEN /\ registerModule(Top(t))
            /\ registered' = registered \cup {Top(t)}
            /\ visible' = IF NameOf[Top(t)] = NoName THEN visible
                          ELSE visible \cup {Top(t)}
            /\ Goto(t, "started")
       ELSE /\ Call(t, "close", Top(t), "abort")
            /\ UNCHANGED <<storeVars, registered, visible>>
    /\ UNCHANGED <<runtimeClosed, mux, closing, closed, resources, notified,
                   watcher, failed, closeReturned, runtimeDone>>

(* The start functions of the ModuleConfig, after registration.            *)
InstantiateStart(t) ==
    /\ At(t, "started")
    /\ \/ Call(t, "begin", Top(t), "exported") /\ UNCHANGED visible
       \/ visible' = visible \cup {Top(t)} /\ Return(t)
    /\ UNCHANGED <<runtimeClosed, storeVars, mux, closing, closed, resources,
                   notified, watcher, failed, registered, closeReturned,
                   runtimeDone>>

InstantiateStarted(t) ==
    /\ At(t, "exported")
    /\ IF failed[t]
       THEN Call(t, "close", Top(t), "drop") /\ UNCHANGED visible
       ELSE visible' = visible \cup {Top(t)} /\ Return(t)
    /\ UNCHANGED <<runtimeClosed, storeVars, mux, closing, closed, resources,
                   notified, watcher, failed, registered, closeReturned,
                   runtimeDone>>

(* Store.Instantiate failed: the deferred FS().Close(), and code.Close.    *)
InstantiateAbort(t) ==
    /\ At(t, "abort")
    /\ resources' = [resources EXCEPT ![Top(t)] = @ \ {"sys", "code"}]
    /\ Return(t)
    /\ UNCHANGED <<runtimeClosed, storeVars, mux, closing, closed, notified,
                   watcher, failed, histVars>>

(* A start function failed: the deferred FS().Close().  On exit code zero  *)
(* the closed module is returned nevertheless.                             *)
InstantiateDrop(t) ==
    /\ At(t, "drop")
    /\ Release(Top(t), "sys")
    /\ visible' \in {visible, visible \cup {Top(t)}}
    /\ Return(t)
    /\ UNCHANGED <<runtimeClosed, storeVars, mux, closing, closed, notified,
                   watcher, failed, registered, closeReturned, runtimeDone>>
----------------------------------------------------------------------------
(* runtime.CloseWithExitCode and Store.CloseWithExitCode.                  *)

StartCloseRuntime(t) ==
    /\ stack[t] = <<>> /\ ~ runtimeClosed
    /\ runtimeClosed' = TRUE
    /\ Start(t, "snapshot", NoModule)
    /\ UNCHANGED <<storeVars, mux, closing, closed, resources, notified,
                   watcher, failed, histVars>>

(* Mutant of StoreSnapshot: the list is read after it was reset. *)
StoreSnapshotLate(t) ==
    /\ At(t, "snapshot") /\ mux = {}
    /\ mux' = {t}
    /\ closeStore
    /\ closing' = moduleList'
    /\ Goto(t, "unlock")
    /\ UNCHANGED <<runtimeClosed, closed, resources, notified, watcher, failed,
                   histVars>>

StoreSnapshot(t) ==
    /\ At(t, "snapshot") /\ mux = {}
    /\ mux' = {t}
    /\ closing' = moduleList
    /\ closeStore
    /\ Goto(t, "unlock")
    /\ UNCHANGED <<runtimeClosed, closed, resources, notified, watcher, failed,
                   histVars>>

(* Mutant of StoreUnlock: the lock is held while modules are closed (C58). *)
StoreUnlockForgotten(t) ==
    /\ At(t, "unlock")
    /\ Goto(t, "each")
    /\ UNCHANGED <<runtimeClosed, storeVars, mux, closing, closed, resources,
                   notified, watcher, failed, histVars>>

StoreUnlock(t) ==
    /\ At(t, "unlock")
    /\ mux' = {}
    /\ Goto(t, "each")
    /\ UNCHANGED <<runtimeClosed, storeVars, closing, closed, resources,
                   notified, watcher, failed, histVars>>

(* "Close modules in reverse initialization order", outside of the lock.   *)
StoreCloseEach(t) ==
    /\ At(t, "each") /\ closing # <<>>
    /\ Call(t, "closeStore", Head(closing), "each")
    /\ closing' = Tail(closing)
    /\ UNCHANGED <<runtimeClosed, storeVars, mux, closed, resources, notified,
                   watcher, failed, histVars>>

StoreCloseDone(t) ==
    /\ At(t, "each") /\ closing = <<>>
    /\ runtimeDone' = TRUE
    /\ Return(t)
    /\ UNCHANGED <<runtimeClosed, storeVars, mux, closing, closed, resources,
                   notified, watcher, failed, visible, registered,
                   closeReturned>>
----------------------------------------------------------------------------
(* What a goroutine does inside the runtime. *)
Step(t) ==
    \/ CloseSetExitCode(t) \/ CloseDelete(t) \/ CloseReturned(t)
    \/ EnsureNotify(t) \/ EnsureForget(t) \/ EnsureSys(t) \/ EnsureRetire(t)
    \/ EnsureCode(t)
    \/ BeginExecution(t) \/ GuestReturn(t) \/ FailIfClosed(t)
    \/ InstantiateCheck(t) \/ InstantiatePrecheck(t) \/ InstantiateBuild(t)
    \/ InstantiateSection(t) \/ InstantiateHooks(t) \/ InstantiateRegister(t)
    \/ InstantiateStart(t) \/ InstantiateStarted(t) \/ InstantiateAbort(t)
    \/ InstantiateDrop(t)
    \/ StoreSnapshot(t) \/ StoreUnlock(t) \/ StoreCloseEach(t)
    \/ StoreCloseDone(t)

(* What the embedder, the guest or the context decides. *)
Choice(t) ==
    \/ \E m \in Modules : StartInstantiate(t, m) \/ StartCall(t, m)
                          \/ StartClose(t, m) \/ HostClose(t, m)
                          \/ ContextDone(t, m)
    \/ StartCloseRuntime(t) \/ GuestTrap(t)

Watch(m) == AsyncSetExitCode(m) \/ AsyncDelete(m)

Next ==
    \/ \E t \in Threads : Step(t) \/ Choice(t)
    \/ \E m \in Modules : Watch(m)

Spec == Init /\ [][Next]_vars

(* Goroutines are scheduled and guest code returns; a call of a host       *)
(* function that closes modules interrupts it any number of times.         *)
FairSpec ==
    /\ Spec
    /\ \A t \in Threads : WF_vars(Step(t)) /\ SF_vars(GuestReturn(t))
    /\ \A m \in Modules : WF_vars(Watch(m))
----------------------------------------------------------------------------
(* Properties.                                                             *)

(* Nothing is going on inside the runtime. *)
Quiet == /\ \A t \in Threads : stack[t] = <<>>
         /\ \A m \in Modules : watcher[m] = "off"

(* A registered module keeps its name until it is closed or the store is:  *)
(* closing a duplicate that was never registered does not free the name of *)
(* the live one, and no registration takes it over (C39 of the audit).     *)
NameKept ==
    [][\A n \in Names :
          nameToModule[n] # NoModule /\ nameToModule'[n] # nameToModule[n] =>
              closed[nameToModule[n]] # "open" \/ storeClosed']_vars

(* Every registered module that is not closed is found by the store when   *)
(* it closes: in its list, in the snapshot being closed or being closed.   *)
OpenIsListed ==
    \A m \in registered : closed[m] = "open" =>
        \/ \E i \in DOMAIN moduleList : moduleList[i] = m
        \/ \E i \in DOMAIN closing : closing[i] = m
        \/ \E t \in Threads : At(t, "closeStore") /\ Top(t) = m

(* "Closing the wazero.Runtime closes any Module it instantiated": no      *)
(* instantiation that overlaps it leaves an open module behind.            *)
RuntimeClosesAll ==
    runtimeDone => \A m \in visible \cup registered : closed[m] # "open"

(* A module closed by Close, by the store, or because its instantiation    *)
(* failed holds nothing at rest and was notified once if it ever was       *)
(* registered; what is still held is held by an open module the embedder   *)
(* and the store know.  The code of a module that InstantiateModule        *)
(* refused because the runtime was closed meanwhile is the exception.      *)
NothingLost ==
    Quiet => \A m \in Modules :
        /\ closed[m] = "closed" =>
              resources[m] = {} /\ (m \in registered => notified[m] = 1)
        /\ closed[m] = "open" /\ resources[m] # {} =>
              \/ m \in visible \cap registered
              \/ runtimeClosed /\ resources[m] = {"code"}

(* Close frees the name, whoever closes and whenever (deleteModule).       *)
NameFreed ==
    Quiet => \A n \in Names : nameToModule[n] # NoModule =>
                 closed[nameToModule[n]] # "closed"

(* Every Instantiate, call and Close returns: CloseNotify may look up a    *)
(* module while the store is closed (C58 of the audit).                    *)
Returns == \A t \in Threads : stack[t] # <<>> ~> stack[t] = <<>>

(* CloseNotify "is only called once per module" (experimental/close.go).   *)
NotifiedOnce == \A m \in Modules : notified[m] <= 1

(* "CloseWithExitCode releases resources allocated for this Module"        *)
(* (api/wasm.go): once a Close has returned and nothing runs, none is held.*)
CloseReleases == Quiet => \A m \in closeReturned : resources[m] = {}
============================================================================
