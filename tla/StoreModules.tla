---------------------------- MODULE StoreModules ----------------------------
(***************************************************************************)
(* What Store promises of its modules (internal/wasm/store_module_list.go):*)
(* a list of those to close, newest first, and names that at most one      *)
(* module holds at a time.  StoreModuleList shows that the linked list and *)
(* the map of the code implement it; ModuleLifecycle builds on it.         *)
(***************************************************************************)
EXTENDS Naturals, SequencesExt

CONSTANTS
    Modules,    \* module instances
    Names,      \* module names other than ""
    NameOf,     \* the name each module is instantiated with, or NoName
    NoModule,   \* no entry in Store.nameToModule
    NoName      \* the empty name: an anonymous module

ASSUME StoreAssumption ==
    /\ NameOf \in [Modules -> Names \cup {NoName}]
    /\ NoModule \notin Modules
    /\ NoName \notin Names

VARIABLES
    storeClosed,   \* Store.nameToModule is nil
    nameToModule,  \* Store.nameToModule
    moduleList     \* Store.moduleList and what follows it

storeVars == <<storeClosed, nameToModule, moduleList>>

StoreTypeOK ==
    /\ storeClosed \in BOOLEAN
    /\ nameToModule \in [Names -> Modules \cup {NoModule}]
    /\ moduleList \in Seq(Modules)

StoreInit ==
    /\ storeClosed = FALSE
    /\ nameToModule = [n \in Names |-> NoModule]
    /\ moduleList = <<>>

(* Mutants of deleteModule: the name is freed whoever holds it (C39 of     *)
(* docs/audits/codebase-audit-2026-10-18.md); an entry that holds no       *)
(* module is left in its place.                                            *)
deleteModuleByName(m) ==
    /\ moduleList' = RemoveFirst(moduleList, m)
    /\ nameToModule' =
           [n \in Names |-> IF n = NameOf[m] THEN NoModule ELSE nameToModule[n]]
    /\ UNCHANGED storeClosed

deleteModuleTombstone(m) ==
    /\ moduleList' = RemoveFirst(moduleList, m)
    /\ nameToModule' =
           [n \in Names |-> IF nameToModule[n] = m THEN NoName
                            ELSE nameToModule[n]]
    /\ UNCHANGED storeClosed

(* deleteModule: m leaves the list, and its name is free if it was its own.*)
deleteModule(m) ==
    /\ moduleList' = RemoveFirst(moduleList, m)
    /\ nameToModule' =
           [n \in Names |-> IF nameToModule[n] = m THEN NoModule
                            ELSE nameToModule[n]]
    /\ UNCHANGED storeClosed

NameFree(m) == NameOf[m] # NoName => nameToModule[NameOf[m]] = NoModule

(* Mutant of Registrable: a closed store accepts modules. *)
RegistrableAlways(m) == NameFree(m)

(* registerModule refuses a duplicate, and everything once closed. *)
Registrable(m) == ~ storeClosed /\ NameFree(m)

registerModule(m) ==
    /\ Registrable(m)
    /\ moduleList' = <<m>> \o moduleList
    /\ nameToModule' =
           [n \in Names |-> IF n = NameOf[m] THEN m ELSE nameToModule[n]]
    /\ UNCHANGED storeClosed

(* The critical section of Store.CloseWithExitCode. *)
closeStore ==
    /\ storeClosed' = TRUE
    /\ nameToModule' = [n \in Names |-> NoModule]
    /\ moduleList' = <<>>

StoreNext ==
    \/ \E m \in Modules : deleteModule(m) \/ registerModule(m)
    \/ closeStore

StoreSpec == StoreInit /\ [][StoreNext]_storeVars
=============================================================================
