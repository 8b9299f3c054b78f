---------------------------- MODULE EngineCache ----------------------------
(***************************************************************************)
(* Compiled modules of the optimizing compiler: the reference-counted map  *)
(* in memory, the list sorted by code address that stack walks search, and *)
(* the file cache behind them (internal/engine/wazevo/engine.go and        *)
(* engine_cache.go, internal/filecache, CompiledModule.Close).             *)
(*                                                                         *)
(* A critical section of engine.mux or a system call on the cache          *)
(* directory is a step.  An executable is named by its address; addresses  *)
(* are reused once nothing refers to the executable (it is unmapped by a   *)
(* finalizer).  What an executable or a cache entry contains is abstracted *)
(* to whether it is complete.                                              *)
(***************************************************************************)
EXTENDS Naturals, Sequences, FiniteSets, SequencesExt

CONSTANTS
    Threads,    \* goroutines of the embedder
    Handles,    \* CompiledModule handles
    IDs,        \* wasm.ModuleID: equal for equal binaries and settings
    IdOf,       \* the module each handle is compiled from
    HostIDs,    \* host modules: never in the file cache
    EmptyIDs,   \* modules without functions: no executable
    ListenedIDs,\* modules compiled with function listeners
    Addrs,      \* addresses of executables
    NoAddr, NoHandle

ASSUME CacheAssumption ==
    /\ IsFiniteSet(Handles) /\ NoHandle \notin Handles
    /\ IdOf \in [Handles -> IDs]
    /\ Addrs \subseteq Nat /\ NoAddr \notin Addrs

VARIABLES
    closed,     \* engine.closed; sharedFunctions is nil from then on
    refCount,   \* compiledModules[id].refCount, 0 if there is no entry
    addrOf,     \* compiledModules[id].executable
    sorted,     \* engine.sortedCompiledModules
    complete,   \* executables whose preambles and listeners are attached
    handle,     \* state of each CompiledModule
    instance,   \* moduleEngine.parent of the instance made from a handle
    file,       \* the cache entry of each module
    pc, job,    \* where a goroutine is in CompileModule, and for which handle
    code,       \* local cm
    fd,         \* content of the cache entry it has open
    temp        \* its temporary file

memVars == <<closed, refCount, addrOf, sorted, complete>>
locals  == <<pc, job, code, fd, temp>>
vars == <<memVars, handle, instance, file, locals>>

Labels == {"idle", "check", "memory", "file", "read", "discard", "compile",
           "attach", "publish", "create", "copy", "sync", "rename", "panicked"}

(* Damaged entries are short; stale ones are of another version.  An       *)
(* unsynced file is complete unless power is lost.                         *)
Contents == {"none", "whole", "unsynced", "torn", "stale"}

TypeOK ==
    /\ closed \in BOOLEAN
    /\ refCount \in [IDs -> Nat]
    /\ addrOf \in [IDs -> Addrs \cup {NoAddr}]
    /\ sorted \in Seq(Addrs)
    /\ complete \in SUBSET Addrs
    /\ handle \in [Handles -> {"none", "compiling", "open", "closed"}]
    /\ instance \in [Handles -> Addrs \cup {NoAddr}]
    /\ file \in [IDs -> Contents]
    /\ pc \in [Threads -> Labels]
    /\ job \in [Threads -> Handles \cup {NoHandle}]
    /\ code \in [Threads -> Addrs \cup {NoAddr}]
    /\ fd \in [Threads -> Contents]
    /\ temp \in [Threads -> {"none", "empty", "unsynced", "whole"}]

(* A new process: nothing is in memory. *)
Fresh ==
    [closed |-> FALSE,
     refCount |-> [i \in IDs |-> 0],
     addrOf |-> [i \in IDs |-> NoAddr],
     sorted |-> <<>>,
     complete |-> {},
     handle |-> [h \in Handles |-> "none"],
     instance |-> [h \in Handles |-> NoAddr],
     pc |-> [t \in Threads |-> "idle"],
     job |-> [t \in Threads |-> NoHandle],
     code |-> [t \in Threads |-> NoAddr],
     fd |-> [t \in Threads |-> "none"],
     temp |-> [t \in Threads |-> "none"]]

Init ==
    /\ closed = Fresh.closed /\ refCount = Fresh.refCount
    /\ addrOf = Fresh.addrOf /\ sorted = Fresh.sorted
    /\ complete = Fresh.complete /\ handle = Fresh.handle
    /\ instance = Fresh.instance /\ pc = Fresh.pc /\ job = Fresh.job
    /\ code = Fresh.code /\ fd = Fresh.fd /\ temp = Fresh.temp
    /\ file = [i \in IDs |-> "none"]

At(t, l) == pc[t] = l

Goto(t, l) == pc' = [pc EXCEPT ![t] = l]

Id(t) == IdOf[job[t]]

(* CompileModule returns; the handle is the embedder's if it succeeded.    *)
Return(t, result) ==
    /\ handle' = [handle EXCEPT ![job[t]] = result]
    /\ Goto(t, "idle")
    /\ job' = [job EXCEPT ![t] = NoHandle]
    /\ code' = [code EXCEPT ![t] = NoAddr]
    /\ fd' = [fd EXCEPT ![t] = "none"]
    /\ temp' = [temp EXCEPT ![t] = "none"]
----------------------------------------------------------------------------
(* The list that compiledModuleOfAddr searches.                            *)

(* sort.Search: the first index from which on P holds, Len + 1 if none.    *)
Search(P(_)) ==
    LET i == SelectInSeq(sorted, P) IN IF i = 0 THEN Len(sorted) + 1 ELSE i

(* Mutant of addCompiledModuleToSortedList: appended, not inserted. *)
addAtEnd(a) == Append(sorted, a)

addCompiledModuleToSortedList(a) ==
    InsertAt(sorted, Search(LAMBDA x : x >= a), a)

deleteCompiledModuleFromSortedList(a) ==
    LET i == Search(LAMBDA x : x >= a)
    IN  IF i > Len(sorted) THEN sorted ELSE RemoveAt(sorted, i)

compiledModuleOfAddr(a) ==
    LET i == Search(LAMBDA x : x > a) - 1
    IN  IF i > 0 /\ sorted[i] = a THEN a ELSE NoAddr
----------------------------------------------------------------------------
(* engine.CompileModule, called by runtime.CompileModule.                  *)

StartCompile(t, h) ==
    /\ At(t, "idle") /\ handle[h] = "none"
    /\ handle' = [handle EXCEPT ![h] = "compiling"]
    /\ job' = [job EXCEPT ![t] = h]
    /\ Goto(t, "check")
    /\ UNCHANGED <<memVars, instance, file, code, fd, temp>>

CheckClosed(t) ==
    /\ At(t, "check")
    /\ IF closed THEN Return(t, "none")
       ELSE Goto(t, "memory") /\ UNCHANGED <<handle, job, code, fd, temp>>
    /\ UNCHANGED <<memVars, instance, file>>

(* getCompiledModuleFromMemory *)
FromMemory(t) ==
    /\ At(t, "memory")
    /\ IF refCount[Id(t)] > 0
       THEN /\ refCount' = [refCount EXCEPT ![Id(t)] = @ + 1]
            /\ Return(t, "open")
       ELSE /\ Goto(t, IF Id(t) \in HostIDs THEN "compile" ELSE "file")
            /\ UNCHANGED <<refCount, handle, job, code, fd, temp>>
    /\ UNCHANGED <<closed, addrOf, sorted, complete, instance, file>>

(* fileCache.Get: the file that is open stays what it was when another one *)
(* is renamed over it.  An error other than "does not exist" is returned.  *)
FileGet(t) ==
    /\ At(t, "file")
    /\ fd' = [fd EXCEPT ![t] = file[Id(t)]]
    /\ Goto(t, IF file[Id(t)] = "none" THEN "compile" ELSE "read")
    /\ UNCHANGED <<memVars, handle, instance, file, job, code, temp>>

FileGetError(t) ==
    /\ At(t, "file")
    /\ Return(t, "none")
    /\ UNCHANGED <<memVars, instance, file>>

(* Executables that something refers to. *)
InUse == {addrOf[i] : i \in IDs} \cup {instance[h] : h \in Handles}
         \cup {code[t] : t \in Threads}

(* A new executable for t; modules without functions have none. *)
NewCode(t, a) ==
    /\ IF Id(t) \in EmptyIDs THEN a = NoAddr ELSE a \in Addrs \ InUse
    /\ code' = [code EXCEPT ![t] = a]
    /\ complete' = complete \ {a}

(* deserializeCompiledModule *)
FileRead(t, a) ==
    /\ At(t, "read")
    /\ IF fd[t] \in {"whole", "unsynced"}
       THEN NewCode(t, a) /\ Goto(t, "attach")
       ELSE a = NoAddr /\ Goto(t, "discard") /\ UNCHANGED <<code, complete>>
    /\ UNCHANGED <<closed, refCount, addrOf, sorted, handle, instance, file,
                   job, fd, temp>>

(* fileCache.Delete removes whatever the entry is by now.  Its error fails *)
(* the compilation if the entry was stale, and is ignored if it was torn.  *)
FileDiscard(t) ==
    /\ At(t, "discard")
    /\ file' = [file EXCEPT ![Id(t)] = "none"]
    /\ fd' = [fd EXCEPT ![t] = "none"]
    /\ Goto(t, "compile")
    /\ UNCHANGED <<memVars, handle, instance, job, code, temp>>

FileDiscardError(t) ==
    /\ At(t, "discard")
    /\ IF fd[t] = "stale" THEN Return(t, "none")
       ELSE /\ fd' = [fd EXCEPT ![t] = "none"]
            /\ Goto(t, "compile")
            /\ UNCHANGED <<handle, job, code, temp>>
    /\ UNCHANGED <<memVars, instance, file>>

(* Mutant of Compile: published before it is complete (C28). *)
CompileUnattached(t, a) ==
    /\ At(t, "compile")
    /\ NewCode(t, a)
    /\ Goto(t, "publish")
    /\ UNCHANGED <<closed, refCount, addrOf, sorted, handle, instance, file,
                   job, fd, temp>>

Compile(t, a) ==
    /\ At(t, "compile")
    /\ NewCode(t, a)
    /\ Goto(t, "attach")
    /\ UNCHANGED <<closed, refCount, addrOf, sorted, handle, instance, file,
                   job, fd, temp>>

CompileError(t) ==
    /\ At(t, "compile")
    /\ Return(t, "none")
    /\ UNCHANGED <<memVars, instance, file>>

(* getListenerTrampolineForType dereferences engine.sharedFunctions, which *)
(* Close has set to nil; modules without listeners do not call it.         *)
Attach(t) ==
    /\ At(t, "attach")
    /\ IF closed /\ Id(t) \in ListenedIDs
       THEN Goto(t, "panicked") /\ UNCHANGED complete
       ELSE /\ complete' = complete \cup ({code[t]} \ {NoAddr})
            /\ Goto(t, "publish")
    /\ UNCHANGED <<closed, refCount, addrOf, sorted, handle, instance, file,
                   job, code, fd, temp>>

(* Mutant of addCompiledModuleToMemory: whoever is second is not counted.  *)
addUncounted(i, a) ==
    IF closed \/ refCount[i] > 0 THEN UNCHANGED <<refCount, addrOf, sorted>>
    ELSE /\ refCount' = [refCount EXCEPT ![i] = 1]
         /\ addrOf' = [addrOf EXCEPT ![i] = a]
         /\ sorted' = IF a = NoAddr THEN sorted
                      ELSE addCompiledModuleToSortedList(a)

(* A closed engine registers nothing; whoever is second gets the entry of  *)
(* the first.                                                              *)
addCompiledModuleToMemory(i, a) ==
    IF closed THEN UNCHANGED <<refCount, addrOf, sorted>>
    ELSE IF refCount[i] > 0
    THEN /\ refCount' = [refCount EXCEPT ![i] = @ + 1]
         /\ UNCHANGED <<addrOf, sorted>>
    ELSE /\ refCount' = [refCount EXCEPT ![i] = 1]
         /\ addrOf' = [addrOf EXCEPT ![i] = a]
         /\ sorted' = IF a = NoAddr THEN sorted
                      ELSE addCompiledModuleToSortedList(a)

(* A module that came from a cache entry is not written back. *)
Publish(t) ==
    /\ At(t, "publish")
    /\ addCompiledModuleToMemory(Id(t), code[t])
    /\ IF fd[t] # "none" \/ Id(t) \in HostIDs
       THEN Return(t, "open")
       ELSE Goto(t, "create") /\ UNCHANGED <<handle, job, code, fd, temp>>
    /\ UNCHANGED <<closed, complete, instance, file>>
----------------------------------------------------------------------------
(* fileCache.Add: an error removes the temporary file and is ignored.      *)

Write(t, from, content, to) ==
    /\ At(t, from)
    /\ temp' = [temp EXCEPT ![t] = content]
    /\ Goto(t, to)
    /\ UNCHANGED <<memVars, handle, instance, file, job, code, fd>>

AddCreate(t) == Write(t, "create", "empty", "copy")

(* Mutant of AddCopy: the file is renamed without file.Sync. *)
AddCopyUnsynced(t) == Write(t, "copy", "unsynced", "rename")

AddCopy(t) == Write(t, "copy", "unsynced", "sync")

AddSync(t) == Write(t, "sync", "whole", "rename")

AddRename(t) ==
    /\ At(t, "rename")
    /\ file' = [file EXCEPT ![Id(t)] = temp[t]]
    /\ Return(t, "open")
    /\ UNCHANGED <<memVars, instance>>

AddError(t) ==
    /\ pc[t] \in {"create", "copy", "sync", "rename"}
    /\ Return(t, "open")
    /\ UNCHANGED <<memVars, instance, file>>
----------------------------------------------------------------------------
(* Handles, instances and the engine.                                      *)

(* Mutant of DeleteCompiledModule: it does not look whether it is there.   *)
DeleteUnchecked(i) ==
    /\ refCount' = [refCount EXCEPT ![i] = @ - 1]
    /\ addrOf' = [addrOf EXCEPT ![i] = NoAddr]
    /\ sorted' = IF addrOf[i] = NoAddr THEN sorted
                 ELSE deleteCompiledModuleFromSortedList(addrOf[i])

DeleteCompiledModule(i) ==
    IF refCount[i] = 1
    THEN /\ refCount' = [refCount EXCEPT ![i] = 0]
         /\ addrOf' = [addrOf EXCEPT ![i] = NoAddr]
         /\ sorted' = IF addrOf[i] = NoAddr THEN sorted
                      ELSE deleteCompiledModuleFromSortedList(addrOf[i])
    ELSE /\ refCount' = [refCount EXCEPT ![i] = IF @ = 0 THEN 0 ELSE @ - 1]
         /\ UNCHANGED <<addrOf, sorted>>

(* CompiledModule.Close is idempotent (closeOnce). *)
CloseHandle(h) ==
    /\ handle[h] \in {"open", "closed"}
    /\ handle' = [handle EXCEPT ![h] = "closed"]
    /\ IF handle[h] = "open" THEN DeleteCompiledModule(IdOf[h])
       ELSE UNCHANGED <<refCount, addrOf, sorted>>
    /\ UNCHANGED <<closed, complete, instance, file, locals>>

(* The embedder may instantiate a handle it has closed: another handle may *)
(* still keep the module.  Otherwise it is an error.                       *)
NewModuleEngine(h) ==
    /\ handle[h] \in {"open", "closed"} /\ refCount[IdOf[h]] > 0
    /\ instance' = [instance EXCEPT ![h] = addrOf[IdOf[h]]]
    /\ UNCHANGED <<memVars, handle, file, locals>>

DropInstance(h) ==
    /\ instance[h] # NoAddr
    /\ instance' = [instance EXCEPT ![h] = NoAddr]
    /\ UNCHANGED <<memVars, handle, file, locals>>

(* engine.Close, by Runtime.Close or CompilationCache.Close. *)
Close ==
    /\ closed' = TRUE
    /\ refCount' = [i \in IDs |-> 0]
    /\ addrOf' = [i \in IDs |-> NoAddr]
    /\ sorted' = <<>>
    /\ UNCHANGED <<complete, handle, instance, file, locals>>
----------------------------------------------------------------------------
(* The environment.                                                        *)

(* An entry is damaged, or left by a build of the same version string.     *)
Damage(i) ==
    /\ file[i] = "whole"
    /\ \E c \in {"torn", "stale"} : file' = [file EXCEPT ![i] = c]
    /\ UNCHANGED <<memVars, handle, instance, locals>>

(* The process ends at any point, power lost; another one starts.          *)
Restart ==
    /\ closed' = Fresh.closed /\ refCount' = Fresh.refCount
    /\ addrOf' = Fresh.addrOf /\ sorted' = Fresh.sorted
    /\ complete' = Fresh.complete /\ handle' = Fresh.handle
    /\ instance' = Fresh.instance /\ pc' = Fresh.pc /\ job' = Fresh.job
    /\ code' = Fresh.code /\ fd' = Fresh.fd /\ temp' = Fresh.temp
    /\ file' = [i \in IDs |-> IF file[i] = "unsynced" THEN "torn" ELSE file[i]]

CompileModule(t) ==
    \/ \E h \in Handles : StartCompile(t, h)
    \/ CheckClosed(t) \/ FromMemory(t) \/ FileGet(t) \/ FileGetError(t)
    \/ FileDiscard(t) \/ FileDiscardError(t)
    \/ \E a \in Addrs \cup {NoAddr} : FileRead(t, a) \/ Compile(t, a)
    \/ CompileError(t) \/ Attach(t) \/ Publish(t)
    \/ AddCreate(t) \/ AddCopy(t) \/ AddSync(t) \/ AddRename(t) \/ AddError(t)

Next ==
    \/ \E t \in Threads : CompileModule(t)
    \/ \E h \in Handles : CloseHandle(h) \/ NewModuleEngine(h) \/ DropInstance(h)
    \/ \E i \in IDs : Damage(i)
    \/ Close \/ Restart

Spec == Init /\ [][Next]_vars
----------------------------------------------------------------------------
(* Properties.                                                             *)

(* Handles of module i whose CompileModule has taken its reference. *)
Holders(i) ==
    {h \in Handles : IdOf[h] = i /\
        \/ handle[h] = "open"
        \/ \E t \in Threads :
              job[t] = h /\ pc[t] \in {"create", "copy", "sync", "rename"}}

(* As long as the engine is open a compiled module is referenced exactly   *)
(* by its open handles, whichever goroutines compile the same binary or    *)
(* close a handle twice: an open handle can be instantiated and a module   *)
(* without handles is dropped.  A closed engine holds nothing, though      *)
(* compilations end after Close (C37 and C41 of the audit).                *)
RefExact ==
    \A i \in IDs : refCount[i] = IF closed THEN 0 ELSE Cardinality(Holders(i))

(* compiledModuleOfAddr finds every compiled module in memory by the       *)
(* addresses of its code and nothing else, after any order of additions    *)
(* and deletions.                                                          *)
LookupExact ==
    \A a \in Addrs : compiledModuleOfAddr(a) =
        IF \E i \in IDs : addrOf[i] = a THEN a ELSE NoAddr

(* What other goroutines can find in memory has its preambles, listeners   *)
(* and trampolines (C28 and C29 of the audit).                             *)
PublishedComplete ==
    \A i \in IDs : addrOf[i] # NoAddr => addrOf[i] \in complete

(* A cache entry is complete once it has its name: only damage from        *)
(* outside makes it unreadable, never a crash while it is written.         *)
WrittenWhole ==
    [][\A i \in IDs : file[i] # "torn" /\ file'[i] = "torn" => Damage(i)]_vars

(* "Use-after-close returns errors instead of panicking": C41, fixed       *)
(* (docs/audits/codebase-audit-2026-10-18.md).                             *)
CompileNeverPanics == \A t \in Threads : ~ At(t, "panicked")
============================================================================
