-------------------------- MODULE StoreModuleList --------------------------
(***************************************************************************)
(* The doubly linked list of modules and the name map of Store             *)
(* (internal/wasm/store_module_list.go).  Every operation runs under       *)
(* Store.mux, so each is one step.  A module is registered at most once    *)
(* and may be deleted at any time, before it is registered too (a failed   *)
(* instantiation, a late closeModuleOnCanceledOrTimeout), again, or after  *)
(* the store was closed.                                                   *)
(***************************************************************************)
EXTENDS Naturals, Sequences, FiniteSets

CONSTANTS
    Modules, Names, NameOf, NoModule, NoName,
    nameToModuleShrinkThreshold \* smallest capacity the map shrinks to

ASSUME ListAssumption ==
    /\ NameOf \in [Modules -> Names \cup {NoName}]
    /\ NoModule \notin Modules
    /\ NoName \notin Names
    /\ IsFiniteSet(Modules) /\ IsFiniteSet(Names)
    /\ nameToModuleShrinkThreshold \in Nat \ {0}

VARIABLES
    nilMap,          \* Store.nameToModule is nil
    nameToModule,    \* Store.nameToModule
    nameToModuleCap, \* Store.nameToModuleCap
    head,            \* Store.moduleList
    next, prev,      \* ModuleInstance.next, .prev
    fresh            \* modules registerModule was not called for yet

vars == <<nilMap, nameToModule, nameToModuleCap, head, next, prev, fresh>>

Pointer == Modules \cup {NoModule}

TypeOK ==
    /\ nilMap \in BOOLEAN
    /\ nameToModule \in [Names -> Pointer]
    /\ nameToModuleCap \in Nat
    /\ head \in Pointer
    /\ next \in [Modules -> Pointer]
    /\ prev \in [Modules -> Pointer]
    /\ fresh \in SUBSET Modules

(* newStore *)
Init ==
    /\ nilMap = FALSE
    /\ nameToModule = [n \in Names |-> NoModule]
    /\ nameToModuleCap = nameToModuleShrinkThreshold
    /\ head = NoModule
    /\ next = [m \in Modules |-> NoModule]
    /\ prev = [m \in Modules |-> NoModule]
    /\ fresh = Modules

(* len(nameToModule) *)
Entries(map) == Cardinality({n \in Names : map[n] # NoModule})

(* Mutant of unlink: m.next.prev still points to m. *)
unlinkForwardOnly(m) ==
    /\ next' = [x \in Modules |-> IF x = m THEN NoModule
                                  ELSE IF x = prev[m] THEN next[m] ELSE next[x]]
    /\ prev' = [prev EXCEPT ![m] = NoModule]
    /\ head' = IF head = m THEN next[m] ELSE head

(* m.prev.next = m.next, m.next.prev = m.prev, then m's own are cleared.   *)
unlink(m) ==
    /\ next' = [x \in Modules |-> IF x = m THEN NoModule
                                  ELSE IF x = prev[m] THEN next[m] ELSE next[x]]
    /\ prev' = [x \in Modules |-> IF x = m THEN NoModule
                                  ELSE IF x = next[m] THEN prev[m] ELSE prev[x]]
    /\ head' = IF head = m THEN next[m] ELSE head

Needed(map) == IF Entries(map) < nameToModuleShrinkThreshold
               THEN nameToModuleShrinkThreshold ELSE Entries(map)

(* Mutant of shrinkMap: the capacity counts deletions. *)
shrinkMapByOne(map) ==
    /\ nameToModuleCap' = nameToModuleCap - 1
    /\ UNCHANGED nilMap

(* The map is made anew when its capacity is twice what it needs. *)
shrinkMap(map) ==
    IF Needed(map) * 2 <= nameToModuleCap
    THEN nameToModuleCap' = Needed(map) /\ nilMap' = FALSE
    ELSE UNCHANGED <<nameToModuleCap, nilMap>>

deleteModule(m) ==
    /\ unlink(m)
    /\ nameToModule' =
           [n \in Names |-> IF n = NameOf[m] /\ nameToModule[n] = m
                            THEN NoModule ELSE nameToModule[n]]
    /\ IF NameOf[m] = NoName THEN UNCHANGED <<nameToModuleCap, nilMap>>
       ELSE shrinkMap(nameToModule')
    /\ UNCHANGED fresh

NameFree(m) == NameOf[m] = NoName \/ nameToModule[NameOf[m]] = NoModule

(* Mutant of registerModule: the capacity does not follow the map. *)
registerModuleKeepsCap(m) ==
    /\ m \in fresh
    /\ fresh' = fresh \ {m}
    /\ IF ~ nilMap /\ NameFree(m)
       THEN /\ nameToModule' =
                   [n \in Names |-> IF n = NameOf[m] THEN m ELSE nameToModule[n]]
            /\ next' = [next EXCEPT ![m] = head]
            /\ prev' = [x \in Modules |-> IF x = head THEN m ELSE prev[x]]
            /\ head' = m
       ELSE UNCHANGED <<nameToModule, next, prev, head>>
    /\ UNCHANGED <<nilMap, nameToModuleCap>>

registerModule(m) ==
    /\ m \in fresh
    /\ fresh' = fresh \ {m}
    /\ IF ~ nilMap /\ NameFree(m)
       THEN /\ nameToModule' =
                   [n \in Names |-> IF n = NameOf[m] THEN m ELSE nameToModule[n]]
            /\ nameToModuleCap' = IF Entries(nameToModule') > nameToModuleCap
                                  THEN Entries(nameToModule')
                                  ELSE nameToModuleCap
            /\ next' = [next EXCEPT ![m] = head]
            /\ prev' = [x \in Modules |-> IF x = head THEN m ELSE prev[x]]
            /\ head' = m
       ELSE UNCHANGED <<nameToModule, nameToModuleCap, next, prev, head>>
    /\ UNCHANGED nilMap

(* Mutant of closeStore: the capacity survives, so a later delete makes a  *)
(* new map.                                                                *)
closeStoreKeepsCap ==
    /\ head' = NoModule
    /\ nameToModule' = [n \in Names |-> NoModule]
    /\ nilMap' = TRUE
    /\ UNCHANGED <<nameToModuleCap, next, prev, fresh>>

(* The critical section of Store.CloseWithExitCode; the links stay. *)
closeStore ==
    /\ head' = NoModule
    /\ nameToModule' = [n \in Names |-> NoModule]
    /\ nilMap' = TRUE
    /\ nameToModuleCap' = 0
    /\ UNCHANGED <<next, prev, fresh>>

Next ==
    \/ \E m \in Modules : deleteModule(m) \/ registerModule(m)
    \/ closeStore

Spec == Init /\ [][Next]_vars
----------------------------------------------------------------------------
(* Where the loop "for m := moduleList; m != nil; m = m.next" of Store's   *)
(* CloseWithExitCode is after n turns.                                     *)
follow[n \in 0 .. Cardinality(Modules)] ==
    IF n = 0 THEN head
    ELSE LET m == follow[n - 1]
         IN  IF m = NoModule THEN NoModule ELSE next[m]

(* The modules it visits, given that it ends. *)
Visited ==
    LET turns == {n \in 0 .. Cardinality(Modules) - 1 : follow[n] # NoModule}
    IN  [i \in 1 .. Cardinality(turns) |-> follow[i - 1]]

(* The two directions of the list agree, which unlinking relies on. *)
LinksAgree ==
    /\ \A x, y \in Modules : next[x] = y <=> prev[y] = x
    /\ head # NoModule => prev[head] = NoModule

(* The recorded capacity covers what the map holds, and is less than twice *)
(* what it needs: the map shrinks, and not more than it may.               *)
CapFits ==
    ~ nilMap => /\ Entries(nameToModule) <= nameToModuleCap
                /\ nameToModuleCap < 2 * Needed(nameToModule)

(* A closed store stays closed, though deleteModule, which a late close of *)
(* a module still calls, may make a new map.                               *)
ClosedForGood == [][nilMap => nilMap']_vars

(* The code implements the promise of StoreModules.  In particular the     *)
(* loop that closes all modules visits those registered and not deleted,   *)
(* newest first, and a name is found if and only if its holder is there.   *)
Store == INSTANCE StoreModules
             WITH storeClosed <- nilMap, moduleList <- Visited

Implements == Store!StoreSpec
============================================================================
