----------------------- MODULE StoreModuleListProofs -----------------------
(***************************************************************************)
(* Proofs about the linked list and the name map of StoreModuleList, for   *)
(* any number of modules and names and any shrink threshold.               *)
(*                                                                         *)
(* That unlinking keeps the two directions of the list in agreement needs  *)
(* only that they agreed; that registering does, needs that a module which *)
(* was not registered yet is in no list (FreshUnlinked).  The capacity     *)
(* argument needs that a closed store has capacity zero (ClosedCap), which *)
(* is also why a late deleteModule cannot reopen it.  The refinement of    *)
(* StoreModules needs that following next from the head is a path without  *)
(* repetitions that ends (PathInv), and that a name is held by a module of *)
(* that name (NameInv).                                                    *)
(*                                                                         *)
(* The second part is about StoreTypes: an id stands for one key whichever *)
(* goroutines intern at a time (TypesInv).  Types whose references are to  *)
(* earlier ones (Backward) and that functionTypesEquivalent relates have   *)
(* one key, and without rec groups no others have.  The argument counts    *)
(* its rounds: after m of them, the pairs left of the first m types have   *)
(* one id, and a pair of one id is never lost.                             *)
(***************************************************************************)
EXTENDS StoreTypes, SequenceLemmas, FiniteSetTheorems

FreshUnlinked ==
    \A m \in fresh : next[m] = NoModule /\ prev[m] = NoModule /\ head # m

ClosedCap == nilMap => nameToModuleCap = 0

ListInv == TypeOK /\ LinksAgree /\ FreshUnlinked

CapInv == CapFits /\ ClosedCap
----------------------------------------------------------------------------
(* The number of names in use is a natural number (len(nameToModule)).     *)
LEMMA EntriesNat == \A map : Entries(map) \in Nat
  <1> SUFFICES ASSUME NEW map PROVE Entries(map) \in Nat
    OBVIOUS
  <1>1. IsFiniteSet({n \in Names : map[n] # NoModule})
    BY ListAssumption, FS_Subset,
       {n \in Names : map[n] # NoModule} \subseteq Names
  <1> QED
    BY <1>1, FS_CardinalityType DEF Entries

(* A map that holds every name another one holds has at least as many.     *)
LEMMA EntriesMonotone ==
    ASSUME NEW small, NEW large,
           \A n \in Names : small[n] # NoModule => large[n] # NoModule
    PROVE  Entries(small) <= Entries(large)
  <1> DEFINE S == {n \in Names : small[n] # NoModule}
             T == {n \in Names : large[n] # NoModule}
  <1>1. IsFiniteSet(T)
    BY ListAssumption, FS_Subset, T \subseteq Names
  <1>2. S \subseteq T
    OBVIOUS
  <1>3. Cardinality(S) <= Cardinality(T)
    BY <1>1, <1>2, FS_Subset
  <1> QED
    BY <1>3 DEF Entries

(* What a map needs is at least one, at least its size and at least the    *)
(* threshold, and is one of the two.                                       *)
LEMMA NeededBounds ==
    ASSUME NEW map
    PROVE  /\ Needed(map) \in Nat
           /\ Needed(map) >= 1
           /\ Needed(map) >= Entries(map)
           /\ Needed(map) >= nameToModuleShrinkThreshold
           /\ Needed(map) \in {Entries(map), nameToModuleShrinkThreshold}
  BY EntriesNat, ListAssumption DEF Needed

(* More entries never need less. *)
LEMMA NeededMonotone ==
    ASSUME NEW small, NEW large, Entries(small) <= Entries(large)
    PROVE  Needed(small) <= Needed(large)
  BY EntriesNat, ListAssumption DEF Needed
----------------------------------------------------------------------------
(* newStore makes an empty list. *)
LEMMA InitListInv == Init => ListInv
  BY ListAssumption
  DEF Init, ListInv, TypeOK, LinksAgree, FreshUnlinked, Pointer

(* Unlinking keeps the two directions in agreement. *)
LEMMA UnlinkAgrees ==
    ASSUME TypeOK, LinksAgree, NEW m \in Modules, unlink(m)
    PROVE  LinksAgree'
  <1>1. ASSUME NEW x \in Modules, NEW y \in Modules
        PROVE  next'[x] = y <=> prev'[y] = x
    <2>1. CASE x = m \/ y = m
      BY <2>1, ListAssumption DEF unlink, TypeOK, LinksAgree, Pointer
    <2>2. CASE x # m /\ y # m /\ x = prev[m]
      BY <2>2, ListAssumption DEF unlink, TypeOK, LinksAgree, Pointer
    <2>3. CASE x # m /\ y # m /\ x # prev[m]
      BY <2>3, ListAssumption DEF unlink, TypeOK, LinksAgree, Pointer
    <2> QED
      BY <2>1, <2>2, <2>3
  <1>2. head' # NoModule => prev'[head'] = NoModule
    BY ListAssumption DEF unlink, TypeOK, LinksAgree, Pointer
  <1> QED
    BY <1>1, <1>2 DEF LinksAgree

(* Unlinking links no module that was unlinked. *)
LEMMA UnlinkFresh ==
    ASSUME TypeOK, LinksAgree, FreshUnlinked, NEW m \in Modules, unlink(m),
           UNCHANGED fresh
    PROVE  FreshUnlinked'
  <1> SUFFICES ASSUME NEW f \in fresh
               PROVE  next'[f] = NoModule /\ prev'[f] = NoModule /\ head' # f
    BY DEF FreshUnlinked
  <1>1. f \in Modules /\ next[f] = NoModule /\ prev[f] = NoModule /\ head # f
    BY DEF TypeOK, FreshUnlinked
  <1>2. next[m] # f /\ prev[m] # f
    BY <1>1, ListAssumption DEF LinksAgree
  <1> QED
    BY <1>1, <1>2 DEF unlink, TypeOK

(* deleteModule preserves types. *)
LEMMA DeleteType ==
    ASSUME TypeOK, NEW m \in Modules, deleteModule(m)
    PROVE  TypeOK'
  <1>1. nilMap' \in BOOLEAN /\ nameToModuleCap' \in Nat
    BY NeededBounds DEF TypeOK, deleteModule, shrinkMap
  <1> QED
    BY <1>1 DEF TypeOK, deleteModule, unlink, Pointer

(* registerModule preserves the list invariant. *)
LEMMA RegisterListInv ==
    ASSUME ListInv, NEW m \in Modules, registerModule(m)
    PROVE  ListInv'
  <1> USE DEF ListInv
  <1>1. CASE ~ (~ nilMap /\ NameFree(m))
    BY <1>1 DEF registerModule, TypeOK, LinksAgree, FreshUnlinked
  <1>2. CASE ~ nilMap /\ NameFree(m)
    <2>1. /\ m \in fresh /\ fresh' = fresh \ {m}
          /\ next' = [next EXCEPT ![m] = head]
          /\ prev' = [x \in Modules |-> IF x = head THEN m ELSE prev[x]]
          /\ head' = m
          /\ next[m] = NoModule /\ prev[m] = NoModule /\ head # m
      BY <1>2 DEF registerModule, FreshUnlinked
    <2>2. nameToModule' \in [Names -> Pointer] /\ nameToModuleCap' \in Nat
      BY <1>2, EntriesNat DEF registerModule, TypeOK, Pointer
    <2>3. TypeOK'
      BY <2>1, <2>2 DEF TypeOK, registerModule, Pointer
    <2>4. LinksAgree'
      <3>1. ASSUME NEW x \in Modules, NEW y \in Modules
            PROVE  next'[x] = y <=> prev'[y] = x
        BY <2>1, ListAssumption DEF TypeOK, LinksAgree, Pointer
      <3>2. prev'[head'] = NoModule
        BY <2>1 DEF TypeOK
      <3> QED
        BY <3>1, <3>2 DEF LinksAgree
    <2>5. FreshUnlinked'
      BY <2>1 DEF TypeOK, FreshUnlinked
    <2> QED
      BY <2>3, <2>4, <2>5
  <1> QED
    BY <1>1, <1>2

(* The list invariant is inductive. *)
LEMMA NextListInv == ListInv /\ [Next]_vars => ListInv'
  <1> SUFFICES ASSUME ListInv, [Next]_vars PROVE ListInv'
    OBVIOUS
  <1>1. ASSUME NEW m \in Modules, deleteModule(m) PROVE ListInv'
    BY <1>1, DeleteType, UnlinkAgrees, UnlinkFresh DEF ListInv, deleteModule
  <1>2. ASSUME NEW m \in Modules, registerModule(m) PROVE ListInv'
    BY <1>2, RegisterListInv
  <1>3. CASE closeStore
    BY <1>3, ListAssumption
    DEF closeStore, ListInv, TypeOK, LinksAgree, FreshUnlinked, Pointer
  <1>4. CASE UNCHANGED vars
    BY <1>4 DEF vars, ListInv, TypeOK, LinksAgree, FreshUnlinked
  <1> QED
    BY <1>1, <1>2, <1>3, <1>4 DEF Next

(* The list invariant holds in every reachable state. *)
LEMMA ListInvariance == Spec => []ListInv
  BY InitListInv, NextListInv, PTL DEF Spec

(* The pointers and the map of the store are always well formed. *)
THEOREM ListTypeCorrect == Spec => []TypeOK
  <1>1. ListInv => TypeOK
    BY DEF ListInv
  <1> QED
    BY <1>1, ListInvariance, PTL

(* next and prev agree after any sequence of deleteModule, also of modules *)
(* never registered or deleted before, registerModule and closing.         *)
THEOREM ListLinksAgree == Spec => []LinksAgree
  <1>1. ListInv => LinksAgree
    BY DEF ListInv
  <1> QED
    BY <1>1, ListInvariance, PTL
----------------------------------------------------------------------------
(* newStore's map has the capacity of the threshold. *)
LEMMA InitCapInv == Init => CapInv
  <1> SUFFICES ASSUME Init PROVE CapInv
    OBVIOUS
  <1>1. {n \in Names : nameToModule[n] # NoModule} = {}
    BY DEF Init
  <1>2. Entries(nameToModule) = 0
    BY <1>1, FS_EmptySet DEF Entries
  <1>3. Needed(nameToModule) = nameToModuleShrinkThreshold
    BY <1>2, ListAssumption DEF Needed
  <1> QED
    BY <1>2, <1>3, ListAssumption DEF Init, CapInv, CapFits, ClosedCap

(* deleteModule shrinks the map as far as it may, and no map that is nil.  *)
LEMMA DeleteCapInv ==
    ASSUME TypeOK, CapInv, NEW m \in Modules, deleteModule(m)
    PROVE  CapInv'
  <1> DEFINE map == nameToModule'
  <1>1. \A n \in Names : map[n] # NoModule => nameToModule[n] # NoModule
    BY DEF deleteModule
  <1>2. Entries(map) <= Entries(nameToModule)
    BY <1>1, EntriesMonotone
  <1>3. /\ Entries(map) \in Nat /\ Entries(nameToModule) \in Nat
        /\ nameToModuleCap \in Nat
        /\ Needed(map) \in Nat /\ Needed(map) >= 1
        /\ Needed(map) >= Entries(map)
    BY EntriesNat, NeededBounds DEF TypeOK
  <1>4. CASE NameOf[m] = NoName
    <2>1. map = nameToModule
      BY <1>4, ListAssumption DEF deleteModule, TypeOK
    <2> HIDE DEF map
    <2> QED
      BY <1>4, <2>1 DEF deleteModule, CapInv, CapFits, ClosedCap, map
  <1>5. CASE NameOf[m] # NoName
    <2>1. shrinkMap(map)
      BY <1>5 DEF deleteModule
    <2> HIDE DEF map
    <2>2. CASE Needed(map) * 2 <= nameToModuleCap
      <3>1. nameToModuleCap' = Needed(map) /\ nilMap' = FALSE
        BY <2>1, <2>2 DEF shrinkMap
      <3>2. CapFits'
        BY <3>1, <1>3 DEF CapFits, map
      <3> QED
        BY <3>1, <3>2 DEF CapInv, ClosedCap
    <2>3. CASE ~ (Needed(map) * 2 <= nameToModuleCap)
      <3>1. UNCHANGED <<nameToModuleCap, nilMap>>
        BY <2>1, <2>3 DEF shrinkMap
      <3>2. CapFits'
        <4> SUFFICES ASSUME ~ nilMap
                     PROVE  /\ Entries(map) <= nameToModuleCap
                            /\ nameToModuleCap < 2 * Needed(map)
          BY <3>1 DEF CapFits, map
        <4>1. Entries(nameToModule) <= nameToModuleCap
          BY DEF CapInv, CapFits
        <4> QED
          BY <4>1, <1>2, <1>3, <2>3
      <3> QED
        BY <3>1, <3>2 DEF CapInv, ClosedCap
    <2> QED
      BY <2>2, <2>3
  <1> QED
    BY <1>4, <1>5

(* registerModule raises the recorded capacity with the map. *)
LEMMA RegisterCapInv ==
    ASSUME TypeOK, CapInv, NEW m \in Modules, registerModule(m)
    PROVE  CapInv'
  <1>1. CASE ~ (~ nilMap /\ NameFree(m))
    <2>1. UNCHANGED <<nameToModule, nameToModuleCap, nilMap>>
      BY <1>1 DEF registerModule
    <2> QED
      BY <2>1 DEF CapInv, CapFits, ClosedCap
  <1>2. CASE ~ nilMap /\ NameFree(m)
    <2> DEFINE map == nameToModule'
    <2>1. map = [n \in Names |-> IF n = NameOf[m] THEN m ELSE nameToModule[n]]
      BY <1>2 DEF registerModule
    <2>2. \A n \in Names : nameToModule[n] # NoModule => map[n] # NoModule
      BY <2>1, ListAssumption
    <2>3. Entries(nameToModule) <= Entries(map)
      BY <2>2, EntriesMonotone
    <2>4. Needed(nameToModule) <= Needed(map)
      BY <2>3, NeededMonotone
    <2>5. /\ Entries(map) \in Nat /\ nameToModuleCap \in Nat
          /\ Needed(nameToModule) \in Nat
          /\ Needed(map) \in Nat /\ Needed(map) >= 1
          /\ Needed(map) >= Entries(map)
      BY EntriesNat, NeededBounds DEF TypeOK
    <2>6. nameToModuleCap < 2 * Needed(nameToModule)
      BY <1>2 DEF CapInv, CapFits
    <2>7. /\ nameToModuleCap' = IF Entries(map) > nameToModuleCap
                                THEN Entries(map) ELSE nameToModuleCap
          /\ nilMap' = nilMap
      BY <1>2 DEF registerModule
    <2> HIDE DEF map
    <2>8. CapFits'
      BY <2>4, <2>5, <2>6, <2>7 DEF CapFits, map
    <2> QED
      BY <1>2, <2>7, <2>8 DEF CapInv, ClosedCap
  <1> QED
    BY <1>1, <1>2

(* The capacity invariant is inductive. *)
LEMMA NextCapInv == TypeOK /\ CapInv /\ [Next]_vars => CapInv'
  <1> SUFFICES ASSUME TypeOK, CapInv, [Next]_vars PROVE CapInv'
    OBVIOUS
  <1>1. ASSUME NEW m \in Modules, deleteModule(m) PROVE CapInv'
    BY <1>1, DeleteCapInv
  <1>2. ASSUME NEW m \in Modules, registerModule(m) PROVE CapInv'
    BY <1>2, RegisterCapInv
  <1>3. CASE closeStore
    BY <1>3 DEF closeStore, CapInv, CapFits, ClosedCap
  <1>4. CASE UNCHANGED vars
    BY <1>4 DEF vars, CapInv, CapFits, ClosedCap
  <1> QED
    BY <1>1, <1>2, <1>3, <1>4 DEF Next

(* The capacity invariant holds in every reachable state. *)
LEMMA CapInvariance == Spec => []CapInv
  BY InitCapInv, NextCapInv, ListTypeCorrect, PTL DEF Spec

(* The recorded capacity of the name map is never below its size and less  *)
(* than twice what it needs (nameToModuleShrinkThreshold).                 *)
THEOREM ListCapFits == Spec => []CapFits
  <1>1. CapInv => CapFits
    BY DEF CapInv
  <1> QED
    BY <1>1, CapInvariance, PTL

(* No step reopens a closed store. *)
LEMMA StepKeepsClosed ==
    TypeOK /\ CapInv /\ [Next]_vars => [nilMap => nilMap']_vars
  <1> SUFFICES ASSUME TypeOK, CapInv, [Next]_vars, nilMap PROVE nilMap'
    OBVIOUS
  <1>1. nameToModuleCap = 0
    BY DEF CapInv, ClosedCap
  <1>2. ASSUME NEW m \in Modules, deleteModule(m) PROVE nilMap'
    <2> DEFINE map == nameToModule'
    <2>1. Needed(map) \in Nat /\ Needed(map) >= 1
      BY NeededBounds
    <2>2. UNCHANGED nilMap \/ shrinkMap(map)
      BY <1>2 DEF deleteModule
    <2> HIDE DEF map
    <2>3. ~ (Needed(map) * 2 <= nameToModuleCap)
      BY <1>1, <2>1
    <2>4. UNCHANGED nilMap
      BY <2>2, <2>3 DEF shrinkMap
    <2> QED
      BY <2>4
  <1>3. ASSUME NEW m \in Modules, registerModule(m) PROVE nilMap'
    BY <1>3 DEF registerModule
  <1>4. CASE closeStore
    BY <1>4 DEF closeStore
  <1>5. CASE UNCHANGED vars
    BY <1>5 DEF vars
  <1> QED
    BY <1>2, <1>3, <1>4, <1>5 DEF Next

(* Once Store.CloseWithExitCode has set the map to nil it stays nil: a     *)
(* deleteModule that comes late does not make the store accept modules.    *)
THEOREM StoreClosedForGood == Spec => ClosedForGood
  BY StepKeepsClosed, ListTypeCorrect, CapInvariance, PTL
  DEF Spec, ClosedForGood
----------------------------------------------------------------------------
(* The linked list implements the sequence of StoreModules.                *)

(* s is what one meets from h through nx until nil. *)
Path(s, h, nx) ==
    /\ s \in Seq(Modules) /\ Distinct(s)
    /\ h = IF Len(s) = 0 THEN NoModule ELSE s[1]
    /\ \A i \in 1 .. Len(s) : nx[s[i]] = IF i < Len(s) THEN s[i + 1] ELSE NoModule

PathInv == \E s : Path(s, head, next)

(* A name is held by a module of that name. *)
NameInv == \A n \in Names : nameToModule[n] # NoModule => NameOf[nameToModule[n]] = n

(* Visited, as a function of the links. *)
Follows(f, h, nx) ==
    f = [n \in 0 .. Cardinality(Modules) |->
            IF n = 0 THEN h
            ELSE LET m == f[n - 1]
                 IN  IF m = NoModule THEN NoModule ELSE nx[m]]

FollowOf(h, nx) == CHOOSE f : Follows(f, h, nx)

VisitedOf(h, nx) ==
    LET turns == {n \in 0 .. Cardinality(Modules) - 1 : FollowOf(h, nx)[n] # NoModule}
    IN  [i \in 1 .. Cardinality(turns) |-> FollowOf(h, nx)[i - 1]]

(* Visited is a function of head and next, now and in the next state. *)
LEMMA VisitedIs == Visited = VisitedOf(head, next) /\ Visited' = VisitedOf(head', next')
  <1>1. follow = FollowOf(head, next)
    BY DEF follow, FollowOf, Follows
  <1>2. follow' = FollowOf(head', next')
    BY DEF follow, FollowOf, Follows
  <1>3. Visited = VisitedOf(head, next)
    BY <1>1 DEF Visited, VisitedOf
  <1>4. Visited' = VisitedOf(head', next')
    BY <1>2 DEF Visited, VisitedOf
  <1> QED
    BY <1>3, <1>4

(* Two functions that follow the same links are equal. *)
LEMMA FollowsUnique ==
    ASSUME NEW h, NEW nx, NEW f, Follows(f, h, nx), NEW g, Follows(g, h, nx)
    PROVE  f = g
  <1> DEFINE N == Cardinality(Modules)
             Bad == {n \in 0 .. N : f[n] # g[n]}
  <1>1. N \in Nat
    BY ListAssumption, FS_CardinalityType
  <1>2. DOMAIN f = 0 .. N /\ DOMAIN g = 0 .. N
    BY DEF Follows
  <1>3. f[0] = h /\ g[0] = h
    BY <1>1 DEF Follows
  <1>4. ASSUME NEW n \in 0 .. N, n # 0
        PROVE  /\ f[n] = IF f[n - 1] = NoModule THEN NoModule ELSE nx[f[n - 1]]
               /\ g[n] = IF g[n - 1] = NoModule THEN NoModule ELSE nx[g[n - 1]]
    BY <1>4 DEF Follows
  <1>5. Bad = {}
    <2> SUFFICES ASSUME Bad # {} PROVE FALSE
      OBVIOUS
    <2>1. Bad \in SUBSET Nat
      BY <1>1
    <2>2. PICK n \in Bad : \A y \in Bad : n <= y
      BY <2>1, LeastNatural
    <2>3. n \in 0 .. N /\ f[n] # g[n] /\ n # 0
      BY <1>3, <2>2
    <2>4. n - 1 \in 0 .. N /\ ~ (n <= n - 1)
      BY <1>1, <2>3
    <2>5. f[n - 1] = g[n - 1]
      BY <2>2, <2>4
    <2> QED
      BY <1>4, <2>3, <2>5
  <1>6. \A n \in 0 .. N : f[n] = g[n]
    BY <1>5
  <1>7. f = [n \in 0 .. N |-> f[n]] /\ g = [n \in 0 .. N |-> g[n]]
    BY DEF Follows
  <1> HIDE DEF N, Bad
  <1> QED
    BY <1>6, <1>7

(* The sizes of the intervals that sequences and counters range over. *)
LEMMA IntervalSize ==
    ASSUME NEW n \in Nat
    PROVE  Cardinality(1 .. n) = n /\ Cardinality(0 .. n - 1) = n
  <1>1. 1 \in Int /\ 0 \in Int /\ n \in Int /\ n - 1 \in Int
    OBVIOUS
  <1>2. Cardinality(1 .. n) = IF 1 > n THEN 0 ELSE n - 1 + 1
    BY <1>1, FS_Interval
  <1>3. Cardinality(0 .. n - 1) = IF 0 > n - 1 THEN 0 ELSE (n - 1) - 0 + 1
    BY <1>1, FS_Interval
  <1> QED
    BY <1>2, <1>3

(* The loop visits the path. *)
LEMMA VisitedIsPath ==
    ASSUME NEW s, NEW h, NEW nx, Path(s, h, nx)
    PROVE  VisitedOf(h, nx) = s
  <1> DEFINE N == Cardinality(Modules)
             L == Len(s)
             g == [n \in 0 .. N |-> IF n < L THEN s[n + 1] ELSE NoModule]
             f == FollowOf(h, nx)
  <1>1. N \in Nat /\ L \in Nat /\ s \in [1 .. L -> Modules]
    BY ListAssumption, FS_CardinalityType DEF Path
  <1>2. L <= N
    <2>1. s \in Injection(1 .. L, Modules)
      BY <1>1 DEF Path, Distinct, Injection, IsInjective
    <2>2. Cardinality(1 .. L) <= N
      BY <2>1, ListAssumption, FS_Injection
    <2>3. Cardinality(1 .. L) = L
      BY <1>1, IntervalSize
    <2> QED
      BY <2>2, <2>3
  <1>3. \A n \in 0 .. N : g[n] = IF n < L THEN s[n + 1] ELSE NoModule
    OBVIOUS
  <1>4. \A i \in 1 .. L : s[i] \in Modules /\ s[i] # NoModule
    BY <1>1, ListAssumption
  <1>5. ASSUME NEW n \in 0 .. N
        PROVE  g[n] = IF n = 0 THEN h
                      ELSE IF g[n - 1] = NoModule THEN NoModule ELSE nx[g[n - 1]]
    <2> HIDE DEF g
    <2>1. CASE n = 0
      BY <1>1, <1>3, <2>1 DEF Path
    <2>2. CASE n # 0 /\ n - 1 < L
      <3>1. n - 1 \in 0 .. N /\ (n - 1) + 1 = n /\ n \in 1 .. L
        BY <1>1, <2>2
      <3>2. g[n - 1] = s[n] /\ s[n] # NoModule
        BY <1>3, <1>4, <2>2, <3>1
      <3>3. nx[s[n]] = IF n < L THEN s[n + 1] ELSE NoModule
        BY <3>1 DEF Path
      <3> QED
        BY <1>3, <2>2, <3>2, <3>3
    <2>3. CASE n # 0 /\ ~ (n - 1 < L)
      <3>1. n - 1 \in 0 .. N /\ ~ (n < L)
        BY <1>1, <2>3
      <3> QED
        BY <1>3, <2>3, <3>1
    <2> QED
      BY <2>1, <2>2, <2>3
  <1>6. Follows(g, h, nx)
    <2>1. g = [n \in 0 .. N |-> g[n]]
      OBVIOUS
    <2> HIDE DEF g
    <2> QED
      BY <1>5, <2>1 DEF Follows
  <1>7. Follows(f, h, nx)
    <2> HIDE DEF g
    <2> QED
      BY <1>6 DEF FollowOf
  <1>8. f = g
    <2> HIDE DEF f, g
    <2> QED
      BY <1>6, <1>7, FollowsUnique
  <1>9. VisitedOf(h, nx) = [i \in 1 .. Cardinality({n \in 0 .. N - 1 : g[n] # NoModule}) |-> g[i - 1]]
    <2> HIDE DEF g
    <2> QED
      BY <1>8 DEF VisitedOf
  <1> HIDE DEF f, g
  <1>10. {n \in 0 .. N - 1 : g[n] # NoModule} = 0 .. L - 1
    <2>1. ASSUME NEW n \in 0 .. N - 1 PROVE g[n] # NoModule <=> n < L
      <3>1. n \in 0 .. N /\ (n < L => n + 1 \in 1 .. L)
        BY <1>1
      <3> QED
        BY <1>3, <1>4, <3>1
    <2>2. \A n \in 0 .. L - 1 : n \in 0 .. N - 1 /\ n < L
      BY <1>1, <1>2
    <2>3. \A n \in 0 .. N - 1 : n < L => n \in 0 .. L - 1
      BY <1>1
    <2> QED
      BY <2>1, <2>2, <2>3
  <1>11. Cardinality(0 .. L - 1) = L
    BY <1>1, IntervalSize
  <1>12. \A i \in 1 .. L : g[i - 1] = s[i]
    <2> SUFFICES ASSUME NEW i \in 1 .. L PROVE g[i - 1] = s[i]
      OBVIOUS
    <2>1. i - 1 \in 0 .. N /\ i - 1 < L /\ (i - 1) + 1 = i
      BY <1>1, <1>2
    <2> QED
      BY <1>3, <2>1
  <1>13. VisitedOf(h, nx) = [i \in 1 .. L |-> g[i - 1]]
    BY <1>9, <1>10, <1>11
  <1>14. s = [i \in 1 .. L |-> s[i]]
    BY <1>1
  <1> QED
    BY <1>12, <1>13, <1>14

(* Unlinking a module takes it out of the path, if it is on it. *)
LEMMA DeletePath ==
    ASSUME TypeOK, LinksAgree, NEW s, Path(s, head, next),
           NEW m \in Modules, unlink(m)
    PROVE  Path(RemoveFirst(s, m), head', next')
  <1> DEFINE L == Len(s)
             r == RemoveFirst(s, m)
  <1>1. /\ s \in Seq(Modules) /\ Distinct(s) /\ L \in Nat
        /\ head = IF L = 0 THEN NoModule ELSE s[1]
        /\ \A i \in 1 .. L : s[i] \in Modules
        /\ \A i \in 1 .. L : next[s[i]] = IF i < L THEN s[i + 1] ELSE NoModule
    BY ElementOfSeq DEF Path
  <1>2. m # NoModule /\ \A i \in 1 .. L : s[i] # NoModule
    BY <1>1, ListAssumption
  <1>3. /\ \A x \in Modules : next'[x] = IF x = m THEN NoModule
                                        ELSE IF x = prev[m] THEN next[m] ELSE next[x]
        /\ head' = IF head = m THEN next[m] ELSE head
    BY DEF unlink
  <1>4. CASE ~ Occurs(m, s)
    <2>1. r = s
      BY <1>1, <1>4, RemoveFirstProperties
    <2>2. \A i \in 1 .. L : s[i] # m
      BY <1>4 DEF Occurs
    <2>3. head' = head
      BY <1>1, <1>2, <1>3, <2>2
    <2>4. ASSUME NEW i \in 1 .. L PROVE next'[s[i]] = next[s[i]]
      <3>1. next[s[i]] # m
        <4>1. i < L => i + 1 \in 1 .. L
          BY <1>1
        <4> QED
          BY <1>1, <1>2, <2>2, <4>1
      <3>2. s[i] # prev[m]
        BY <1>1, <3>1 DEF LinksAgree
      <3> QED
        BY <1>1, <1>3, <2>2, <3>2
    <2> QED
      BY <1>1, <2>1, <2>3, <2>4 DEF Path
  <1>5. CASE Occurs(m, s)
    <2>1. PICK k \in 1 .. L : s[k] = m
      BY <1>5 DEF Occurs
    <2>2. /\ r \in Seq(Modules) /\ Len(r) = L - 1
          /\ \A j \in 1 .. L - 1 : r[j] = IF j < k THEN s[j] ELSE s[j + 1]
      BY <1>1, <2>1, RemoveFirstAt
    <2>3. Distinct(r)
      BY <1>1, RemoveFirstProperties
    <2> HIDE DEF r
    <2>4. next[m] = IF k < L THEN s[k + 1] ELSE NoModule
      BY <1>1, <2>1
    <2>5. CASE k = 1
      <3>1. head = m /\ prev[m] = NoModule
        BY <1>1, <1>2, <2>1, <2>5 DEF LinksAgree
      <3>2. head' = IF Len(r) = 0 THEN NoModule ELSE r[1]
        BY <1>1, <1>3, <2>2, <2>4, <2>5, <3>1
      <3>3. ASSUME NEW i \in 1 .. Len(r)
            PROVE  next'[r[i]] = IF i < Len(r) THEN r[i + 1] ELSE NoModule
        <4>1. /\ i \in 1 .. L - 1 /\ i + 1 \in 1 .. L /\ ~ (i < k) /\ i + 1 # k
              /\ (i < Len(r) <=> i + 1 < L)
              /\ i < Len(r) => i + 1 \in 1 .. L - 1 /\ ~ (i + 1 < k)
          BY <1>1, <2>2, <2>5
        <4>2. r[i] = s[i + 1] /\ (i < Len(r) => r[i + 1] = s[(i + 1) + 1])
          BY <2>2, <4>1
        <4>3. s[i + 1] # m
          BY <1>1, <2>1, <4>1 DEF Distinct
        <4>4. next'[s[i + 1]] = next[s[i + 1]]
          BY <1>1, <1>2, <1>3, <3>1, <4>1, <4>3
        <4> QED
          BY <1>1, <4>1, <4>2, <4>4
      <3> QED
        BY <2>2, <2>3, <3>2, <3>3 DEF Path, r
    <2>6. CASE k # 1
      <3>1. k - 1 \in 1 .. L /\ k - 1 < L /\ (k - 1) + 1 = k /\ L # 0 /\ L - 1 # 0
            /\ 1 \in 1 .. L /\ 1 \in 1 .. L - 1 /\ 1 < k
        BY <1>1, <2>6
      <3>2. prev[m] = s[k - 1]
        <4>1. next[s[k - 1]] = m
          BY <1>1, <2>1, <3>1
        <4> QED
          BY <1>1, <3>1, <4>1 DEF LinksAgree
      <3>3. head' = IF Len(r) = 0 THEN NoModule ELSE r[1]
        <4>1. head = s[1] /\ s[1] # m
          BY <1>1, <2>1, <2>6, <3>1 DEF Distinct
        <4> QED
          BY <1>3, <2>2, <3>1, <4>1
      <3>4. ASSUME NEW i \in 1 .. Len(r)
            PROVE  next'[r[i]] = IF i < Len(r) THEN r[i + 1] ELSE NoModule
        <4>1. CASE i < k - 1
          <5>1. /\ i \in 1 .. L - 1 /\ i \in 1 .. L /\ i < k /\ i # k /\ i # k - 1
                /\ i < Len(r) /\ i + 1 \in 1 .. L - 1 /\ i + 1 < k /\ i < L
            BY <1>1, <2>2, <4>1
          <5>2. r[i] = s[i] /\ r[i + 1] = s[i + 1]
            BY <2>2, <5>1
          <5>3. s[i] # m /\ s[i] # prev[m]
            BY <1>1, <2>1, <3>1, <3>2, <5>1 DEF Distinct
          <5>4. next'[s[i]] = next[s[i]]
            BY <1>1, <1>3, <5>1, <5>3
          <5> QED
            BY <1>1, <5>1, <5>2, <5>4
        <4>2. CASE i = k - 1
          <5>1. /\ i \in 1 .. L - 1 /\ i \in 1 .. L /\ i < k /\ i # k
                /\ (i < Len(r) <=> k < L) /\ i + 1 = k
                /\ k < L => k \in 1 .. L - 1
            BY <1>1, <2>2, <4>2
          <5>2. r[i] = s[i] /\ (k < L => r[k] = s[k + 1])
            BY <2>2, <5>1
          <5>3. s[i] # m /\ s[i] = prev[m]
            BY <1>1, <2>1, <3>2, <4>2, <5>1 DEF Distinct
          <5>4. next'[s[i]] = next[m]
            BY <1>1, <1>3, <5>1, <5>3
          <5> QED
            BY <2>4, <5>1, <5>2, <5>4
        <4>3. CASE i >= k
          <5>1. /\ i \in 1 .. L - 1 /\ i + 1 \in 1 .. L /\ ~ (i < k)
                /\ i + 1 # k /\ i + 1 # k - 1
                /\ (i < Len(r) <=> i + 1 < L)
                /\ i < Len(r) => i + 1 \in 1 .. L - 1 /\ ~ (i + 1 < k)
            BY <1>1, <2>2, <4>3
          <5>2. r[i] = s[i + 1] /\ (i < Len(r) => r[i + 1] = s[(i + 1) + 1])
            BY <2>2, <5>1
          <5>3. s[i + 1] # m /\ s[i + 1] # prev[m]
            BY <1>1, <2>1, <3>1, <3>2, <5>1 DEF Distinct
          <5>4. next'[s[i + 1]] = next[s[i + 1]]
            BY <1>1, <1>3, <5>1, <5>3
          <5> QED
            BY <1>1, <5>1, <5>2, <5>4
        <4> QED
          BY <1>1, <2>2, <4>1, <4>2, <4>3
      <3> QED
        BY <2>2, <2>3, <3>3, <3>4 DEF Path, r
    <2> QED
      BY <2>5, <2>6
  <1> QED
    BY <1>4, <1>5

(* A module that registerModule links comes before the path. *)
LEMMA RegisterPath ==
    ASSUME ListInv, NEW s, Path(s, head, next), NEW m \in fresh,
           next' = [next EXCEPT ![m] = head], head' = m
    PROVE  Path(<<m>> \o s, head', next')
  <1> DEFINE L == Len(s)
             t == <<m>> \o s
  <1>1. /\ s \in Seq(Modules) /\ Distinct(s) /\ L \in Nat
        /\ head = IF L = 0 THEN NoModule ELSE s[1]
        /\ \A i \in 1 .. L : s[i] \in Modules
        /\ \A i \in 1 .. L : next[s[i]] = IF i < L THEN s[i + 1] ELSE NoModule
    BY ElementOfSeq DEF Path
  <1>2. m \in Modules /\ head # m /\ prev[m] = NoModule /\ next \in [Modules -> Pointer]
    BY DEF ListInv, TypeOK, FreshUnlinked
  <1>3. ASSUME NEW i \in 1 .. L, s[i] = m PROVE FALSE
    <2>1. CASE i = 1
      BY <1>1, <1>2, <1>3, <2>1
    <2>2. CASE i # 1
      <3>1. i - 1 \in 1 .. L /\ i - 1 < L /\ (i - 1) + 1 = i
        BY <1>1, <2>2
      <3>2. next[s[i - 1]] = m
        BY <1>1, <1>3, <3>1
      <3>3. prev[m] = s[i - 1] /\ s[i - 1] # NoModule
        BY <1>1, <1>2, <3>1, <3>2, ListAssumption DEF ListInv, LinksAgree
      <3> QED
        BY <1>2, <3>3
    <2> QED
      BY <2>1, <2>2
  <1>4. <<m>> \in Seq(Modules) /\ Len(<<m>>) = 1 /\ <<m>>[1] = m
    BY <1>2
  <1>5. /\ t \in Seq(Modules)
        /\ Len(t) = Len(<<m>>) + L
        /\ \A i \in 1 .. Len(<<m>>) + L :
              t[i] = IF i <= Len(<<m>>) THEN <<m>>[i] ELSE s[i - Len(<<m>>)]
    BY <1>1, <1>4, ConcatProperties
  <1> HIDE DEF t
  <1>6. Len(t) = L + 1 /\ t[1] = m
    BY <1>1, <1>4, <1>5
  <1>7. \A i \in 2 .. L + 1 : t[i] = s[i - 1] /\ i - 1 \in 1 .. L
    BY <1>1, <1>4, <1>5
  <1>8. Distinct(t)
    <2> SUFFICES ASSUME NEW i \in 1 .. L + 1, NEW j \in 1 .. L + 1, t[i] = t[j]
                 PROVE  i = j
      BY <1>6 DEF Distinct
    <2>1. (i = 1 \/ i \in 2 .. L + 1) /\ (j = 1 \/ j \in 2 .. L + 1)
      BY <1>1
    <2>2. CASE i = 1 \/ j = 1
      BY <1>3, <1>6, <1>7, <2>1, <2>2
    <2>3. CASE i \in 2 .. L + 1 /\ j \in 2 .. L + 1
      <3>1. i - 1 = j - 1
        BY <1>1, <1>7, <2>3 DEF Distinct
      <3> QED
        BY <3>1
    <2> QED
      BY <2>1, <2>2, <2>3
  <1>9. ASSUME NEW i \in 1 .. L + 1
        PROVE  next'[t[i]] = IF i < L + 1 THEN t[i + 1] ELSE NoModule
    <2>1. CASE i = 1
      <3>1. /\ next'[m] = head /\ (1 < L + 1 <=> L # 0)
            /\ L # 0 => 2 \in 2 .. L + 1 /\ 2 - 1 = 1 /\ 1 + 1 = 2
        BY <1>1, <1>2
      <3>2. L # 0 => t[1 + 1] = s[1]
        BY <1>7, <3>1
      <3> QED
        BY <1>1, <1>6, <2>1, <3>1, <3>2
    <2>2. CASE i # 1
      <3>1. /\ i \in 2 .. L + 1 /\ (i < L + 1 <=> i - 1 < L) /\ (i - 1) + 1 = i
            /\ i < L + 1 => i + 1 \in 2 .. L + 1 /\ (i + 1) - 1 = i
        BY <1>1, <2>2
      <3>2. t[i] = s[i - 1] /\ i - 1 \in 1 .. L /\ (i < L + 1 => t[i + 1] = s[i])
        BY <1>7, <3>1
      <3>3. next'[s[i - 1]] = next[s[i - 1]]
        BY <1>1, <1>2, <1>3, <3>2
      <3> QED
        BY <1>1, <3>1, <3>2, <3>3
    <2> QED
      BY <2>1, <2>2
  <1>10. Len(t) # 0
    BY <1>1, <1>6
  <1> QED
    BY <1>5, <1>6, <1>8, <1>9, <1>10 DEF Path, t

(* An empty list has the empty path. *)
LEMMA EmptyPath == \A nx : Path(<<>>, NoModule, nx)
  BY EmptySeq DEF Path, Distinct

(* The modules on the path and their names, initially. *)
LEMMA InitPathInv == Init => PathInv /\ NameInv
  BY EmptyPath DEF Init, PathInv, NameInv

(* Every operation leaves a path. *)
LEMMA NextPathInv == ListInv /\ PathInv /\ [Next]_vars => PathInv'
  <1> SUFFICES ASSUME ListInv, PathInv, [Next]_vars PROVE PathInv'
    OBVIOUS
  <1>1. PICK s : Path(s, head, next)
    BY DEF PathInv
  <1>2. ASSUME NEW m \in Modules, deleteModule(m) PROVE PathInv'
    <2>1. Path(RemoveFirst(s, m), head', next')
      BY <1>1, <1>2, DeletePath DEF ListInv, deleteModule
    <2> QED
      BY <2>1 DEF PathInv
  <1>3. ASSUME NEW m \in Modules, registerModule(m) PROVE PathInv'
    <2>1. CASE ~ nilMap /\ NameFree(m)
      <3>1. Path(<<m>> \o s, head', next')
        BY <1>1, <1>3, <2>1, RegisterPath DEF registerModule
      <3> QED
        BY <3>1 DEF PathInv
    <2>2. CASE ~ (~ nilMap /\ NameFree(m))
      BY <1>1, <1>3, <2>2 DEF registerModule, PathInv
    <2> QED
      BY <2>1, <2>2
  <1>4. CASE closeStore
    BY <1>4, EmptyPath DEF closeStore, PathInv
  <1>5. CASE UNCHANGED vars
    BY <1>1, <1>5 DEF vars, PathInv
  <1> QED
    BY <1>2, <1>3, <1>4, <1>5 DEF Next

(* No operation gives a name to a module of another. *)
LEMMA NextNameInv == TypeOK /\ NameInv /\ [Next]_vars => NameInv'
  <1> SUFFICES ASSUME TypeOK, NameInv, [Next]_vars PROVE NameInv'
    OBVIOUS
  <1>1. ASSUME NEW m \in Modules, deleteModule(m) PROVE NameInv'
    BY <1>1 DEF deleteModule, NameInv
  <1>2. ASSUME NEW m \in Modules, registerModule(m) PROVE NameInv'
    BY <1>2 DEF registerModule, NameInv
  <1>3. CASE closeStore
    BY <1>3 DEF closeStore, NameInv
  <1>4. CASE UNCHANGED vars
    BY <1>4 DEF vars, NameInv
  <1> QED
    BY <1>1, <1>2, <1>3, <1>4 DEF Next

(* The path and the names, in every reachable state. *)
LEMMA PathInvariance == Spec => [](PathInv /\ NameInv)
  BY InitPathInv, NextPathInv, NextNameInv, ListInvariance, ListTypeCorrect, PTL DEF Spec

(* A late deleteModule leaves nil what is nil, and no deleteModule makes   *)
(* it nil.                                                                 *)
LEMMA DeleteKeepsNil ==
    ASSUME TypeOK, CapInv, NEW m \in Modules, deleteModule(m)
    PROVE  UNCHANGED nilMap
  <1> DEFINE map == nameToModule'
  <1>1. Needed(map) \in Nat /\ Needed(map) >= 1
    BY NeededBounds
  <1>2. UNCHANGED nilMap \/ shrinkMap(map)
    BY DEF deleteModule
  <1> HIDE DEF map
  <1>3. CASE nilMap
    <2>1. ~ (Needed(map) * 2 <= nameToModuleCap)
      BY <1>1, <1>3 DEF CapInv, ClosedCap
    <2> QED
      BY <1>2, <2>1 DEF shrinkMap
  <1>4. CASE ~ nilMap
    <2>1. nilMap = FALSE
      BY <1>4 DEF TypeOK
    <2> QED
      BY <1>2, <2>1 DEF shrinkMap
  <1> QED
    BY <1>3, <1>4

(* Every operation is one of StoreModules, or leaves its state alone. *)
LEMMA StepImplements ==
    ListInv /\ CapInv /\ PathInv /\ NameInv /\ [Next]_vars
        => [Store!StoreNext]_(Store!storeVars)
  <1> SUFFICES ASSUME ListInv, CapInv, PathInv, NameInv, [Next]_vars
               PROVE  Store!StoreNext \/ UNCHANGED <<nilMap, nameToModule, Visited>>
    BY DEF Store!storeVars
  <1>1. PICK s : Path(s, head, next)
    BY DEF PathInv
  <1>2. Visited = s
    BY <1>1, VisitedIs, VisitedIsPath
  <1>3. ASSUME NEW t, Path(t, head', next') PROVE Visited' = t
    BY <1>3, VisitedIs, VisitedIsPath
  <1>4. ASSUME NEW m \in Modules, deleteModule(m) PROVE Store!deleteModule(m)
    <2>1. Visited' = RemoveFirst(s, m)
      BY <1>1, <1>3, <1>4, DeletePath DEF ListInv, deleteModule
    <2>2. Store!RemoveFirst(s, m) = RemoveFirst(s, m)
      BY DEF Store!RemoveFirst, RemoveFirst, Store!RemoveAt, RemoveAt,
             Store!SelectInSeq, SelectInSeq, Min, Store!Min
    <2>3. nameToModule' = [n \in Names |-> IF nameToModule[n] = m THEN NoModule
                                           ELSE nameToModule[n]]
      <3>1. ASSUME NEW n \in Names, nameToModule[n] = m PROVE n = NameOf[m]
        BY <3>1, ListAssumption DEF NameInv
      <3> QED
        BY <1>4, <3>1 DEF deleteModule
    <2>4. UNCHANGED nilMap
      BY <1>4, DeleteKeepsNil DEF ListInv
    <2> QED
      BY <1>2, <2>1, <2>2, <2>3, <2>4 DEF Store!deleteModule
  <1>5. ASSUME NEW m \in Modules, registerModule(m), ~ nilMap, NameFree(m)
        PROVE  Store!registerModule(m)
    <2>1. Visited' = <<m>> \o s
      BY <1>1, <1>3, <1>5, RegisterPath DEF registerModule
    <2>2. Store!Registrable(m)
      BY <1>5 DEF NameFree, Store!Registrable, Store!NameFree
    <2> QED
      BY <1>2, <1>5, <2>1, <2>2 DEF registerModule, Store!registerModule
  <1>6. ASSUME NEW m \in Modules, registerModule(m), ~ (~ nilMap /\ NameFree(m))
        PROVE  UNCHANGED <<nilMap, nameToModule, Visited>>
    <2>1. UNCHANGED <<nilMap, nameToModule, head, next>>
      BY <1>6 DEF registerModule
    <2>2. Visited' = s
      BY <1>1, <1>3, <2>1
    <2> QED
      BY <1>2, <2>1, <2>2
  <1>7. CASE closeStore
    <2>1. Visited' = <<>>
      BY <1>3, <1>7, EmptyPath DEF closeStore
    <2> QED
      BY <1>7, <2>1 DEF closeStore, Store!closeStore, Store!StoreNext
  <1>8. CASE UNCHANGED vars
    <2>1. UNCHANGED <<nilMap, nameToModule, head, next>>
      BY <1>8 DEF vars
    <2>2. Visited' = s
      BY <1>1, <1>3, <2>1
    <2> QED
      BY <1>2, <2>1, <2>2
  <1> QED
    BY <1>4, <1>5, <1>6, <1>7, <1>8 DEF Next, Store!StoreNext

(* The linked list, whose links stay after closing and which any module    *)
(* may be unlinked from at any time, is a sequence: the loop that closes   *)
(* all modules visits those registered and not deleted, newest first, and  *)
(* the name map gives a name to the one that registered it until that one  *)
(* is deleted.                                                             *)
THEOREM ListImplements == Spec => Implements
  <1>1. Init => Store!StoreInit
    <2> SUFFICES ASSUME Init PROVE Store!StoreInit
      OBVIOUS
    <2>1. Visited = <<>>
      BY EmptyPath, VisitedIs, VisitedIsPath DEF Init
    <2> QED
      BY <2>1 DEF Init, Store!StoreInit
  <1> QED
    BY <1>1, StepImplements, ListInvariance, CapInvariance, PathInvariance, PTL
    DEF Spec, Implements, Store!StoreSpec
----------------------------------------------------------------------------
(* Function types.                                                         *)

(* The key of type x of a section, of which the types before have ids. *)
KeyAt(a, x) == structuralTypeKey(a.ts[x], SubSeq(a.ret, 1, x - 1))

(* What a goroutine asks for, and has got. *)
Asked(a) ==
    /\ DOMAIN a = {"at", "ts", "ret"} /\ a.ret \in Seq(Nat)
    /\ \/ a.at \in {"idle", "refused"} /\ a.ret = <<>>
       \/ a.at \in {"lookup", "missed"} /\ a.ts \in Sections /\ Len(a.ret) < Len(a.ts)
       \/ a.at = "compiled" /\ a.ts \in Sections /\ Len(a.ret) = Len(a.ts)

(* typeIDs numbers its keys. *)
Numbered ==
    /\ IsFiniteSet(DOMAIN typeIDs)
    /\ \A k \in DOMAIN typeIDs : typeIDs[k] \in 0 .. Cardinality(DOMAIN typeIDs) - 1
    /\ \A k, l \in DOMAIN typeIDs : typeIDs[k] = typeIDs[l] => k = l

(* An id that was got is that of its key, as long as there is a map. *)
GotIDs ==
    ~ nilTypes =>
        \A g \in Compilers : \A x \in 1 .. Len(asks[g].ret) :
            /\ KeyAt(asks[g], x) \in DOMAIN typeIDs
            /\ asks[g].ret[x] = typeIDs[KeyAt(asks[g], x)]

(* Equal keys have equal ids and others others, also after the map went. *)
SameIDs ==
    \A g, h \in Compilers : \A x \in 1 .. Len(asks[g].ret), y \in 1 .. Len(asks[h].ret) :
        asks[g].ret[x] = asks[h].ret[y] <=> KeyAt(asks[g], x) = KeyAt(asks[h], y)

TypesInv ==
    /\ DOMAIN asks = Compilers /\ \A g \in Compilers : Asked(asks[g])
    /\ nilTypes \in BOOLEAN /\ Numbered /\ GotIDs /\ SameIDs

(* One more id leaves the keys of those before, and is of the next key. *)
LEMMA KeyAppended ==
    ASSUME NEW a, NEW b, a.ret \in Seq(Nat), NEW id \in Nat, b.ts = a.ts,
           b.ret = Append(a.ret, id)
    PROVE  /\ b.ret \in Seq(Nat) /\ Len(b.ret) = Len(a.ret) + 1 /\ Len(a.ret) \in Nat
           /\ b.ret[Len(a.ret) + 1] = id /\ KeyAt(b, Len(a.ret) + 1) = KeyOf(a)
           /\ \A x \in 1 .. Len(a.ret) : b.ret[x] = a.ret[x] /\ KeyAt(b, x) = KeyAt(a, x)
  <1>1. /\ b.ret \in Seq(Nat) /\ Len(b.ret) = Len(a.ret) + 1 /\ Len(a.ret) \in Nat
        /\ b.ret[Len(a.ret) + 1] = id /\ \A x \in 1 .. Len(a.ret) : b.ret[x] = a.ret[x]
    OBVIOUS
  <1>2. ASSUME NEW x \in 0 .. Len(a.ret)
        PROVE  SubSeq(b.ret, 1, x) = SubSeq(a.ret, 1, x)
    <2>1. /\ SubSeq(a.ret, 1, x) = [i \in 1 .. x - 1 + 1 |-> a.ret[1 + i - 1]]
          /\ SubSeq(b.ret, 1, x) = [i \in 1 .. x - 1 + 1 |-> b.ret[1 + i - 1]]
      OBVIOUS
    <2>2. \A i \in 1 .. x - 1 + 1 : a.ret[1 + i - 1] = b.ret[1 + i - 1]
      BY <1>1
    <2> QED
      BY <2>1, <2>2
  <1>3. SubSeq(a.ret, 1, Len(a.ret)) = a.ret
    BY <1>1, SubSeqFull
  <1>4. SubSeq(b.ret, 1, Len(a.ret) + 1 - 1) = a.ret
    BY <1>1, <1>2, <1>3
  <1>5. KeyAt(b, Len(a.ret) + 1) = KeyOf(a)
    <2> DEFINE y == Len(a.ret) + 1
    <2>1. SubSeq(b.ret, 1, y - 1) = a.ret
      BY <1>4
    <2> HIDE DEF y
    <2>2. KeyAt(b, y) = structuralTypeKey(a.ts[y], a.ret)
      BY <2>1 DEF KeyAt
    <2> QED
      BY <2>2 DEF y, KeyOf
  <1>6. ASSUME NEW x \in 1 .. Len(a.ret) PROVE KeyAt(b, x) = KeyAt(a, x)
    <2>1. x - 1 \in 0 .. Len(a.ret)
      BY <1>1
    <2> QED
      BY <1>2, <2>1 DEF KeyAt
  <1> QED
    BY <1>1, <1>5, <1>6

(* A goroutine that begins, is refused or goes on without an id, and the   *)
(* close of the store, keep what was got.                                  *)
LEMMA NoNewIDs ==
    ASSUME TypesInv, DOMAIN asks' = Compilers,
           \A g \in Compilers : Asked(asks'[g]),
           \A g \in Compilers : \/ asks'[g].ret = <<>>
                                \/ asks'[g].ret = asks[g].ret /\ asks'[g].ts = asks[g].ts,
           \/ UNCHANGED <<typeIDs, nilTypes>>
           \/ nilTypes' = TRUE /\ typeIDs' = [k \in {} |-> 0]
    PROVE  TypesInv'
  <1>1. ASSUME NEW g \in Compilers, NEW x \in 1 .. Len(asks'[g].ret)
        PROVE  /\ x \in 1 .. Len(asks[g].ret) /\ asks'[g].ret[x] = asks[g].ret[x]
               /\ KeyAt(asks[g], x)' = KeyAt(asks[g], x)
    <2>1. asks'[g].ret # <<>>
      OBVIOUS
    <2> QED
      BY <2>1 DEF KeyAt
  <1>2. SameIDs'
    BY <1>1 DEF TypesInv, SameIDs
  <1>3. CASE UNCHANGED <<typeIDs, nilTypes>>
    <2>1. Numbered'
      BY <1>3 DEF TypesInv, Numbered
    <2>2. GotIDs'
      BY <1>1, <1>3 DEF TypesInv, GotIDs
    <2> QED
      BY <1>2, <1>3, <2>1, <2>2 DEF TypesInv
  <1>4. CASE nilTypes' = TRUE /\ typeIDs' = [k \in {} |-> 0]
    <2>1. DOMAIN typeIDs' = {}
      BY <1>4
    <2>2. Numbered'
      BY <2>1, FS_EmptySet DEF Numbered
    <2> QED
      BY <1>2, <1>4, <2>2 DEF TypesInv, GotIDs
  <1> QED
    BY <1>3, <1>4

(* An id that is in the map for the key, or was just put there, is right. *)
LEMMA NewID ==
    ASSUME TypesInv, ~ nilTypes, nilTypes' = nilTypes, NEW g \in Compilers,
           asks[g].at \in {"lookup", "missed"}, Numbered',
           \A k \in DOMAIN typeIDs : k \in DOMAIN typeIDs' /\ typeIDs'[k] = typeIDs[k],
           KeyOf(asks[g]) \in DOMAIN typeIDs', Got(g, typeIDs'[KeyOf(asks[g])])
    PROVE  TypesInv'
  <1> DEFINE id == typeIDs'[KeyOf(asks[g])]
             a == asks[g]
             ret == Append(a.ret, id)
             at == IF Len(ret) < Len(a.ts) THEN "lookup" ELSE "compiled"
             b == [a EXCEPT !.ret = ret, !.at = at]
  <1>0. Asked(a) /\ DOMAIN asks = Compilers
    BY DEF TypesInv
  <1>1. a.ret \in Seq(Nat) /\ a.ts \in Sections /\ Len(a.ret) < Len(a.ts)
        /\ DOMAIN a = {"at", "ts", "ret"} /\ Len(a.ts) \in Nat
    BY <1>0, TypesAssumption DEF Asked, decodeTypeSection
  <1>2. id \in Nat
    <2>1. Cardinality(DOMAIN typeIDs') \in Nat
      BY FS_CardinalityType DEF Numbered
    <2> QED
      BY <2>1 DEF Numbered
  <1>3. asks' = [asks EXCEPT ![g] = b]
    <2> HIDE DEF id
    <2> QED
      BY <1>0, <1>1 DEF Got, id
  <1> HIDE DEF id
  <1>4. asks'[g] = b /\ DOMAIN asks' = Compilers
        /\ \A h \in Compilers : h # g => asks'[h] = asks[h]
    <2> HIDE DEF b
    <2> QED
      BY <1>0, <1>3
  <1>5. b.ret = ret /\ b.ts = a.ts /\ b.at = at /\ DOMAIN b = {"at", "ts", "ret"}
    <2> HIDE DEF ret, at, a
    <2> QED
      BY <1>1
  <1> HIDE DEF b
  <1>6. /\ b.ret \in Seq(Nat) /\ Len(b.ret) = Len(a.ret) + 1 /\ Len(a.ret) \in Nat
        /\ b.ret[Len(a.ret) + 1] = id /\ KeyAt(b, Len(a.ret) + 1) = KeyOf(a)
        /\ \A x \in 1 .. Len(a.ret) : b.ret[x] = a.ret[x] /\ KeyAt(b, x) = KeyAt(a, x)
    <2>1. a.ret \in Seq(Nat) /\ b.ts = a.ts /\ b.ret = Append(a.ret, id)
      BY <1>1, <1>5
    <2> HIDE DEF a
    <2> QED
      BY <1>2, <2>1, KeyAppended
  <1>7. Asked(b)
    <2> HIDE DEF a
    <2>1. at = IF Len(b.ret) < Len(a.ts) THEN "lookup" ELSE "compiled"
      BY <1>5
    <2> HIDE DEF at
    <2> QED
      BY <1>1, <1>5, <1>6, <2>1 DEF Asked
  <1>8. \A h \in Compilers : Asked(asks'[h])
    BY <1>4, <1>7 DEF TypesInv
  <1>9. GotIDs'
    <2>1. ASSUME NEW h \in Compilers, NEW x \in 1 .. Len(asks'[h].ret)
          PROVE  /\ KeyAt(asks'[h], x) \in DOMAIN typeIDs'
                 /\ asks'[h].ret[x] = typeIDs'[KeyAt(asks'[h], x)]
      <3>1. CASE h # g
        BY <1>4, <3>1 DEF TypesInv, GotIDs
      <3>2. CASE h = g /\ x = Len(a.ret) + 1
        BY <1>4, <1>6, <3>2 DEF id
      <3>3. CASE h = g /\ x # Len(a.ret) + 1
        <4>1. x \in 1 .. Len(a.ret)
          BY <1>4, <1>6, <3>3
        <4>2. KeyAt(a, x) \in DOMAIN typeIDs /\ a.ret[x] = typeIDs[KeyAt(a, x)]
          BY <4>1 DEF TypesInv, GotIDs
        <4> QED
          BY <1>4, <1>6, <3>3, <4>1, <4>2
      <3> QED
        BY <3>1, <3>2, <3>3
    <2> QED
      BY <2>1 DEF GotIDs, KeyAt, structuralTypeKey
  <1>10. SameIDs'
    BY <1>9 DEF Numbered, GotIDs, SameIDs
  <1> QED
    BY <1>4, <1>8, <1>9, <1>10 DEF TypesInv

(* Interning a key that is not there yet numbers it next. *)
LEMMA NumberedNext ==
    ASSUME Numbered, NEW key, key \notin DOMAIN typeIDs,
           typeIDs' = [k \in DOMAIN typeIDs \cup {key} |->
                          IF k = key THEN Cardinality(DOMAIN typeIDs) ELSE typeIDs[k]]
    PROVE  /\ Numbered' /\ key \in DOMAIN typeIDs'
           /\ typeIDs'[key] = Cardinality(DOMAIN typeIDs)
           /\ \A k \in DOMAIN typeIDs : k \in DOMAIN typeIDs' /\ typeIDs'[k] = typeIDs[k]
  <1> DEFINE l == Cardinality(DOMAIN typeIDs)
  <1>1. /\ DOMAIN typeIDs' = DOMAIN typeIDs \cup {key} /\ typeIDs'[key] = l
        /\ \A k \in DOMAIN typeIDs : typeIDs'[k] = typeIDs[k]
    OBVIOUS
  <1>2. IsFiniteSet(DOMAIN typeIDs') /\ Cardinality(DOMAIN typeIDs') = l + 1 /\ l \in Nat
    BY <1>1, FS_AddElement, FS_CardinalityType DEF Numbered
  <1>3. \A k \in DOMAIN typeIDs : typeIDs[k] \in 0 .. l - 1
    BY DEF Numbered
  <1> HIDE DEF l
  <1>4. \A k \in DOMAIN typeIDs' : typeIDs'[k] \in 0 .. l + 1 - 1
    BY <1>1, <1>2, <1>3
  <1>5. \A k, m \in DOMAIN typeIDs' : typeIDs'[k] = typeIDs'[m] => k = m
    BY <1>1, <1>2, <1>3 DEF Numbered
  <1>6. \A k \in DOMAIN typeIDs' : typeIDs'[k] \in 0 .. Cardinality(DOMAIN typeIDs') - 1
    BY <1>2, <1>4
  <1>7. Numbered'
    BY <1>2, <1>5, <1>6 DEF Numbered
  <1> QED
    BY <1>1, <1>7 DEF l

(* Every step keeps TypesInv. *)
LEMMA TypesStep ==
    ASSUME TypesInv, [TypesNext]_<<vars, typeVars>>
    PROVE  TypesInv'
  <1>0. DOMAIN asks = Compilers /\ \A g \in Compilers : Asked(asks[g])
    BY DEF TypesInv
  <1>1. ASSUME UNCHANGED asks,
               \/ UNCHANGED <<typeIDs, nilTypes>>
               \/ nilTypes' = TRUE /\ typeIDs' = [k \in {} |-> 0]
        PROVE  TypesInv'
    BY <1>0, <1>1, NoNewIDs
  <1>2. ASSUME NEW g \in Compilers, NEW b, Asked(b), asks' = [asks EXCEPT ![g] = b],
               b.ret = <<>> \/ (b.ret = asks[g].ret /\ b.ts = asks[g].ts),
               UNCHANGED <<typeIDs, nilTypes>>
        PROVE  TypesInv'
    <2>1. asks'[g] = b /\ DOMAIN asks' = Compilers
          /\ \A h \in Compilers : h # g => asks'[h] = asks[h]
      BY <1>0, <1>2
    <2>2. \A h \in Compilers : Asked(asks'[h])
      BY <1>0, <1>2, <2>1
    <2>3. \A h \in Compilers : \/ asks'[h].ret = <<>>
                               \/ asks'[h].ret = asks[h].ret /\ asks'[h].ts = asks[h].ts
      BY <1>2, <2>1
    <2> QED
      BY <1>2, <2>1, <2>2, <2>3, NoNewIDs
  <1>3. ASSUME NEW g \in Compilers, Refused(g), UNCHANGED <<typeIDs, nilTypes>>
        PROVE  TypesInv'
    <2> DEFINE b == [Idle EXCEPT !.at = "refused"]
    <2>1. b.ret = <<>> /\ b.at = "refused" /\ DOMAIN b = {"at", "ts", "ret"}
      BY DEF Idle
    <2>2. asks' = [asks EXCEPT ![g] = b]
      BY <1>3 DEF Refused
    <2> HIDE DEF b
    <2>3. Asked(b)
      BY <2>1 DEF Asked
    <2> QED
      BY <1>2, <1>3, <2>1, <2>2, <2>3
  <1>4. ASSUME NEW g \in Compilers, NEW ts \in Sections, StartCompile(g, ts)
        PROVE  TypesInv'
    <2> DEFINE b == [at |-> "lookup", ts |-> ts, ret |-> <<>>]
    <2>1. b.ret = <<>> /\ b.at = "lookup" /\ b.ts = ts /\ DOMAIN b = {"at", "ts", "ret"}
      OBVIOUS
    <2>2. asks' = [asks EXCEPT ![g] = b] /\ UNCHANGED <<typeIDs, nilTypes>>
      BY <1>4 DEF StartCompile
    <2> HIDE DEF b
    <2>3. Len(ts) > 0 /\ Len(<<>>) = 0
      BY TypesAssumption
    <2>4. Asked(b)
      BY <2>1, <2>3 DEF Asked
    <2> QED
      BY <1>2, <2>1, <2>2, <2>4
  <1>5. ASSUME NEW g \in Compilers, LookupTypeID(g) PROVE TypesInv'
    <2> DEFINE key == KeyOf(asks[g])
    <2>0. asks[g].at = "lookup" /\ UNCHANGED <<typeIDs, nilTypes>>
      BY <1>5 DEF LookupTypeID
    <2>1. CASE nilTypes
      BY <1>3, <1>5, <2>0, <2>1 DEF LookupTypeID
    <2>2. CASE ~ nilTypes /\ key \in DOMAIN typeIDs
      <3>1. Got(g, typeIDs[key])
        BY <1>5, <2>2 DEF LookupTypeID
      <3>2. Numbered'
        BY <2>0 DEF TypesInv, Numbered
      <3> QED
        BY <2>0, <2>2, <3>1, <3>2, NewID
    <2>3. CASE ~ nilTypes /\ key \notin DOMAIN typeIDs
      <3> DEFINE a == asks[g]
                 b == [a EXCEPT !.at = "missed"]
      <3>1. asks' = [asks EXCEPT ![g] = b]
        BY <1>0, <1>5, <2>3 DEF LookupTypeID
      <3>2. DOMAIN a = {"at", "ts", "ret"}
        BY <1>0 DEF Asked
      <3>3. b.ret = a.ret /\ b.ts = a.ts /\ b.at = "missed" /\ DOMAIN b = {"at", "ts", "ret"}
        <4> HIDE DEF a
        <4> QED
          BY <3>2
      <3> HIDE DEF b
      <3>4. Asked(b)
        BY <1>0, <2>0, <3>3 DEF Asked
      <3> QED
        BY <1>2, <2>0, <3>1, <3>3, <3>4
    <2> QED
      BY <2>1, <2>2, <2>3
  <1>6. ASSUME NEW g \in Compilers, InternTypeID(g) PROVE TypesInv'
    <2> DEFINE key == KeyOf(asks[g])
               l == Cardinality(DOMAIN typeIDs)
    <2>0. asks[g].at = "missed" /\ nilTypes' = nilTypes
      BY <1>6 DEF InternTypeID
    <2>1. CASE ~ nilTypes /\ key \in DOMAIN typeIDs
      <3>1. Got(g, typeIDs[key]) /\ UNCHANGED typeIDs
        BY <1>6, <2>1 DEF InternTypeID
      <3>2. Numbered'
        BY <3>1 DEF TypesInv, Numbered
      <3> QED
        BY <2>0, <2>1, <3>1, <3>2, NewID
    <2>2. CASE nilTypes \/ (key \notin DOMAIN typeIDs /\ l >= functionMaxTypes)
      <3>1. Refused(g) /\ UNCHANGED typeIDs
        BY <1>6, <2>2 DEF InternTypeID
      <3> QED
        BY <1>3, <2>0, <3>1
    <2>3. CASE ~ nilTypes /\ key \notin DOMAIN typeIDs /\ ~ (l >= functionMaxTypes)
      <3>1. /\ typeIDs' = [k \in DOMAIN typeIDs \cup {key} |->
                              IF k = key THEN l ELSE typeIDs[k]]
            /\ Got(g, l)
        BY <1>6, <2>3 DEF InternTypeID
      <3> HIDE DEF key
      <3>2. /\ Numbered' /\ key \in DOMAIN typeIDs' /\ typeIDs'[key] = l
            /\ \A k \in DOMAIN typeIDs : k \in DOMAIN typeIDs' /\ typeIDs'[k] = typeIDs[k]
        BY <2>3, <3>1, NumberedNext DEF TypesInv
      <3>3. Got(g, typeIDs'[key])
        BY <3>1, <3>2
      <3> HIDE DEF l
      <3> QED
        BY <2>0, <2>3, <3>2, <3>3, NewID DEF key
    <2> QED
      BY <2>1, <2>2, <2>3
  <1>7. CASE UNCHANGED <<vars, typeVars>>
    BY <1>1, <1>7 DEF typeVars
  <1>8. CASE TypesNext
    <2>1. CASE (\E m \in Modules : deleteModule(m) \/ registerModule(m)) /\ UNCHANGED typeVars
      BY <1>1, <2>1 DEF typeVars
    <2>2. CASE CloseStoreAndTypes
      BY <1>1, <2>2 DEF CloseStoreAndTypes
    <2> QED
      BY <1>4, <1>5, <1>6, <1>8, <2>1, <2>2 DEF TypesNext
  <1> QED
    BY <1>7, <1>8

(* Whatever goroutines compile at a time, and whenever the store is        *)
(* closed, an id stands for one key.                                       *)
THEOREM IDsStandForKeys == TypesSpec => []TypesInv
  <1>1. TypesInit => TypesInv
    <2> SUFFICES ASSUME TypesInit PROVE TypesInv
      OBVIOUS
    <2>1. ASSUME NEW g \in Compilers PROVE asks[g].ret = <<>> /\ Asked(asks[g])
      <3>1. asks[g] = [at |-> "idle", ts |-> <<>>, ret |-> <<>>]
        BY DEF TypesInit, Idle
      <3>2. asks[g].ret = <<>> /\ asks[g].at = "idle" /\ DOMAIN asks[g] = {"at", "ts", "ret"}
        BY <3>1
      <3>3. <<>> \in Seq(Nat)
        OBVIOUS
      <3> QED
        BY <3>2, <3>3 DEF Asked
    <2>2. DOMAIN typeIDs = {} /\ DOMAIN asks = Compilers /\ nilTypes = FALSE
      BY DEF TypesInit
    <2>3. Numbered
      BY <2>2, FS_EmptySet DEF Numbered
    <2>4. \A g \in Compilers : \A x \in 1 .. Len(asks[g].ret) : FALSE
      BY <2>1
    <2>5. GotIDs /\ SameIDs
      BY <2>4 DEF GotIDs, SameIDs
    <2> QED
      BY <2>1, <2>2, <2>3, <2>5 DEF TypesInv
  <1>2. TypesInv /\ [TypesNext]_<<vars, typeVars>> => TypesInv'
    BY TypesStep
  <1> QED
    BY <1>1, <1>2, PTL DEF TypesSpec

(* Every reference is to a type before type i. *)
Earlier(vts, i) == \A j \in DOMAIN vts : IsConcreteRef(vts[j]) => vts[j].idx + 1 < i

(* No rec group of the section has a member that refers to itself or to a  *)
(* later one.                                                              *)
Backward(ts) ==
    \A i \in DOMAIN ts : Earlier(ts[i].params, i) /\ Earlier(ts[i].results, i)

(* The types of two sections that have one id. *)
OneID(a, b) == {p \in Pairs(a.ts, b.ts) : a.ret[p[1]] = b.ret[p[2]]}

(* A value type that is no reference, or one to a type of the first n. *)
RefersBelow(v, n) ==
    IsConcreteRef(v) =>
        v \in [kind : {"ref"}, nullable : BOOLEAN, idx : Nat] /\ v.idx < n

(* R relates what the two refer to when they have one id. *)
IDsRelated(v, ra, w, rb, R) ==
    IsConcreteRef(v) /\ IsConcreteRef(w) =>
        (<<v.idx + 1, w.idx + 1>> \in R <=> ra[v.idx + 1] = rb[w.idx + 1])

(* The names of two value types in a key are equal when the types are      *)
(* equivalent, for the references that have one id.                        *)
LEMMA NamesEqual ==
    ASSUME NEW ra, NEW rb, NEW R, NEW v, NEW w,
           RefersBelow(v, Len(ra)), RefersBelow(w, Len(rb)), IDsRelated(v, ra, w, rb, R)
    PROVE  structuralValueTypeName(v, ra) = structuralValueTypeName(w, rb)
               <=> valueTypesEquivalent(v, w, R)
  <1> DEFINE nv == structuralValueTypeName(v, ra)
             nw == structuralValueTypeName(w, rb)
  <1>1. ASSUME IsConcreteRef(v)
        PROVE  nv = [kind |-> "ref", nullable |-> v.nullable, idx |-> ra[v.idx + 1]]
    BY <1>1 DEF structuralValueTypeName, RefersBelow
  <1>2. ASSUME IsConcreteRef(w)
        PROVE  nw = [kind |-> "ref", nullable |-> w.nullable, idx |-> rb[w.idx + 1]]
    BY <1>2 DEF structuralValueTypeName, RefersBelow
  <1>3. /\ ~ IsConcreteRef(v) => nv = v
        /\ ~ IsConcreteRef(w) => nw = w
    BY DEF structuralValueTypeName
  <1> HIDE DEF nv, nw
  <1>4. CASE IsConcreteRef(v) /\ IsConcreteRef(w)
    <2>1. nv = nw <=> v.nullable = w.nullable /\ ra[v.idx + 1] = rb[w.idx + 1]
      BY <1>1, <1>2, <1>4
    <2>2. valueTypesEquivalent(v, w, R)
              <=> v.nullable = w.nullable /\ <<v.idx + 1, w.idx + 1>> \in R
      BY <1>4 DEF valueTypesEquivalent
    <2> QED
      BY <1>4, <2>1, <2>2 DEF nv, nw, IDsRelated
  <1>5. CASE ~ IsConcreteRef(v) /\ ~ IsConcreteRef(w)
    BY <1>3, <1>5 DEF valueTypesEquivalent, nv, nw
  <1>6. CASE IsConcreteRef(v) /\ ~ IsConcreteRef(w)
    <2>1. nv.kind = "ref" /\ v.kind = "ref" /\ nw = w /\ w.kind # "ref"
      BY <1>1, <1>3, <1>6 DEF IsConcreteRef
    <2>2. nv # nw /\ v # w
      BY <2>1
    <2> QED
      BY <1>6, <2>2 DEF valueTypesEquivalent, nv, nw
  <1>7. CASE ~ IsConcreteRef(v) /\ IsConcreteRef(w)
    <2>1. nw.kind = "ref" /\ w.kind = "ref" /\ nv = v /\ v.kind # "ref"
      BY <1>2, <1>3, <1>7 DEF IsConcreteRef
    <2>2. nv # nw /\ v # w
      BY <2>1
    <2> QED
      BY <1>7, <2>2 DEF valueTypesEquivalent, nv, nw
  <1> QED
    BY <1>4, <1>5, <1>6, <1>7

(* The first ids of a section. *)
LEMMA Prefix ==
    ASSUME NEW ret \in Seq(Nat), NEW x \in 1 .. Len(ret)
    PROVE  /\ Len(SubSeq(ret, 1, x - 1)) = x - 1
           /\ \A k \in 1 .. x - 1 : SubSeq(ret, 1, x - 1)[k] = ret[k]
  <1>1. \A k \in 1 .. Len(ret) : ret[k] \in Nat
    OBVIOUS
  <1> QED
    BY <1>1, SubSeqProperties

(* A reference that decodeTypeSection accepted. *)
LEMMA EarlierRef ==
    ASSUME NEW vts, NEW m \in Int, NEW z \in Int,
           validateTypeForwardRefs(vts, m), Earlier(vts, z),
           NEW i \in DOMAIN vts, IsConcreteRef(vts[i])
    PROVE  RefersBelow(vts[i], z - 1) /\ vts[i].idx + 1 \in 1 .. z - 1
  <1> DEFINE v == vts[i]
  <1>1. v \in [kind : {"ref"}, nullable : BOOLEAN, idx : 0 .. m - 1]
    BY DEF validateTypeForwardRefs
  <1>2. v.idx + 1 < z
    BY DEF Earlier
  <1> HIDE DEF v
  <1>3. v.idx \in Nat /\ v \in [kind : {"ref"}, nullable : BOOLEAN, idx : Nat]
    BY <1>1
  <1> QED
    BY <1>2, <1>3 DEF v, RefersBelow

(* Sequences of one domain are of one length. *)
LEMMA BoundOf == ASSUME NEW p \in Nat, NEW q \in Nat, 1 .. p = 1 .. q PROVE p = q
  <1>1. /\ p > 0 => p \in 1 .. q
        /\ q > 0 => q \in 1 .. p
    OBVIOUS
  <1> QED
    BY <1>1

(* A goroutine that has all ids of its section. *)
Compiled(a) == a.ret \in Seq(Nat) /\ a.ts \in Sections /\ Len(a.ret) = Len(a.ts)

(* What the decoder says of type i of a section. *)
LEMMA SectionFacts ==
    ASSUME NEW ts \in Sections
    PROVE  /\ Len(ts) \in Nat /\ Len(ts) > 0 /\ DOMAIN ts = 1 .. Len(ts)
           /\ \A i \in DOMAIN ts :
                 /\ ts[i].pos \in Nat /\ ts[i].size \in Nat
                 /\ ts[i].size > 0 => ts[i].pos < ts[i].size
                 /\ \E m \in Int : /\ ts[i].size = 0 => m = i - 1
                                   /\ validateTypeForwardRefs(ts[i].params, m)
                                   /\ validateTypeForwardRefs(ts[i].results, m)
  <1>1. Len(ts) > 0 /\ decodeTypeSection(ts)
    BY TypesAssumption
  <1>2. Len(ts) \in Nat /\ DOMAIN ts = 1 .. Len(ts)
    BY <1>1 DEF decodeTypeSection
  <1>3. ASSUME NEW i \in DOMAIN ts
        PROVE  /\ ts[i].pos \in Nat /\ ts[i].size \in Nat
               /\ ts[i].size > 0 => ts[i].pos < ts[i].size
               /\ \E m \in Int : /\ ts[i].size = 0 => m = i - 1
                                 /\ validateTypeForwardRefs(ts[i].params, m)
                                 /\ validateTypeForwardRefs(ts[i].results, m)
    <2> DEFINE m == IF ts[i].size = 0 THEN i - 1 ELSE i - 1 - ts[i].pos + ts[i].size
    <2>1. /\ ts[i].pos \in Nat /\ ts[i].size \in Nat
          /\ ts[i].size > 0 => ts[i].pos < ts[i].size
      BY <1>1 DEF decodeTypeSection
    <2>2. validateTypeForwardRefs(ts[i].params, m) /\ validateTypeForwardRefs(ts[i].results, m)
      BY <1>1 DEF decodeTypeSection
    <2>3. m \in Int /\ (ts[i].size = 0 => m = i - 1)
      BY <1>2, <2>1
    <2> HIDE DEF m
    <2> QED
      BY <2>1, <2>2, <2>3
  <1> QED
    BY <1>1, <1>2, <1>3

(* Parameters or results of type i of a section. *)
ListOf(vts, i) == Earlier(vts, i) /\ \E m \in Int : validateTypeForwardRefs(vts, m)

(* The same of parameters or results. *)
LEMMA ListsEqual ==
    ASSUME NEW a, NEW b, Compiled(a), Compiled(b),
           NEW x \in DOMAIN a.ts, NEW y \in DOMAIN b.ts,
           NEW vx, NEW vy, ListOf(vx, x), ListOf(vy, y)
    PROVE  [i \in DOMAIN vx |-> structuralValueTypeName(vx[i], SubSeq(a.ret, 1, x - 1))]
             = [i \in DOMAIN vy |-> structuralValueTypeName(vy[i], SubSeq(b.ret, 1, y - 1))]
           <=> AllEquivalent(vx, vy, OneID(a, b))
  <1> DEFINE ra == SubSeq(a.ret, 1, x - 1)
             rb == SubSeq(b.ret, 1, y - 1)
             Nx(i) == structuralValueTypeName(vx[i], ra)
             Ny(i) == structuralValueTypeName(vy[i], rb)
             E == OneID(a, b)
  <1>1. /\ a.ret \in Seq(Nat) /\ DOMAIN a.ts = 1 .. Len(a.ret) /\ x \in 1 .. Len(a.ret)
        /\ b.ret \in Seq(Nat) /\ DOMAIN b.ts = 1 .. Len(b.ret) /\ y \in 1 .. Len(b.ret)
    BY SectionFacts DEF Compiled
  <1>2. /\ Len(ra) = x - 1 /\ \A k \in 1 .. x - 1 : ra[k] = a.ret[k]
        /\ Len(rb) = y - 1 /\ \A k \in 1 .. y - 1 : rb[k] = b.ret[k]
    BY <1>1, Prefix
  <1>3. PICK m \in Int : validateTypeForwardRefs(vx, m)
    BY DEF ListOf
  <1>4. PICK n \in Int : validateTypeForwardRefs(vy, n)
    BY DEF ListOf
  <1>5. Earlier(vx, x) /\ Earlier(vy, y) /\ x \in Int /\ y \in Int
    BY <1>1 DEF ListOf
  <1> HIDE DEF ra, rb
  <1>6. \A k \in 1 .. x - 1, l \in 1 .. y - 1 : <<k, l>> \in E <=> ra[k] = rb[l]
    <2> SUFFICES ASSUME NEW k \in 1 .. x - 1, NEW l \in 1 .. y - 1
                 PROVE  <<k, l>> \in E <=> ra[k] = rb[l]
      OBVIOUS
    <2>1. k \in DOMAIN a.ts
      BY <1>1
    <2>2. l \in DOMAIN b.ts
      BY <1>1
    <2>3. <<k, l>> \in E <=> a.ret[k] = b.ret[l]
      BY <2>1, <2>2 DEF OneID, Pairs
    <2> QED
      BY <1>2, <2>3
  <1> HIDE DEF E
  <1> HIDE DEF Nx, Ny
  <1>7. ASSUME NEW i \in DOMAIN vx, NEW j \in DOMAIN vy
        PROVE  Nx(i) = Ny(j) <=> valueTypesEquivalent(vx[i], vy[j], E)
    <2>1. /\ RefersBelow(vx[i], Len(ra))
          /\ IsConcreteRef(vx[i]) => vx[i].idx + 1 \in 1 .. x - 1
      <3>1. CASE IsConcreteRef(vx[i])
        <4>1. RefersBelow(vx[i], x - 1) /\ vx[i].idx + 1 \in 1 .. x - 1
          BY <1>3, <1>4, <1>5, <3>1, EarlierRef
        <4> QED
          BY <1>2, <4>1
      <3>2. CASE ~ IsConcreteRef(vx[i])
        BY <3>2 DEF RefersBelow
      <3> QED
        BY <3>1, <3>2
    <2>2. /\ RefersBelow(vy[j], Len(rb))
          /\ IsConcreteRef(vy[j]) => vy[j].idx + 1 \in 1 .. y - 1
      <3>1. CASE IsConcreteRef(vy[j])
        <4>1. RefersBelow(vy[j], y - 1) /\ vy[j].idx + 1 \in 1 .. y - 1
          BY <1>3, <1>4, <1>5, <3>1, EarlierRef
        <4> QED
          BY <1>2, <4>1
      <3>2. CASE ~ IsConcreteRef(vy[j])
        BY <3>2 DEF RefersBelow
      <3> QED
        BY <3>1, <3>2
    <2>3. IDsRelated(vx[i], ra, vy[j], rb, E)
      BY <1>6, <2>1, <2>2 DEF IDsRelated
    <2> QED
      BY <2>1, <2>2, <2>3, NamesEqual DEF Nx, Ny
  <1>8. /\ DOMAIN vx = 1 .. Len(vx) /\ Len(vx) \in Nat
        /\ DOMAIN vy = 1 .. Len(vy) /\ Len(vy) \in Nat
    BY <1>3, <1>4 DEF validateTypeForwardRefs
  <1>9. DOMAIN vx = DOMAIN vy <=> Len(vx) = Len(vy)
    <2> SUFFICES ASSUME DOMAIN vx = DOMAIN vy PROVE Len(vx) = Len(vy)
      BY <1>8
    <2> QED
      BY <1>8, BoundOf
  <1> DEFINE fx == [i \in DOMAIN vx |-> Nx(i)]
             fy == [i \in DOMAIN vy |-> Ny(i)]
  <1>10. fx = fy <=> DOMAIN vx = DOMAIN vy /\ \A i \in DOMAIN vx : Nx(i) = Ny(i)
    <2>1. DOMAIN fx = DOMAIN vx /\ DOMAIN fy = DOMAIN vy
          /\ (\A i \in DOMAIN vx : fx[i] = Nx(i)) /\ \A i \in DOMAIN vy : fy[i] = Ny(i)
      OBVIOUS
    <2>2. ASSUME fx = fy
          PROVE  DOMAIN vx = DOMAIN vy /\ \A i \in DOMAIN vx : Nx(i) = Ny(i)
      <3> HIDE DEF fx, fy
      <3> QED
        BY <2>1, <2>2
    <2>3. ASSUME DOMAIN vx = DOMAIN vy, \A i \in DOMAIN vx : Nx(i) = Ny(i)
          PROVE  fx = fy
      BY <2>3
    <2> QED
      BY <2>2, <2>3
  <1> HIDE DEF fx, fy
  <1>11. AllEquivalent(vx, vy, E)
            <=> Len(vx) = Len(vy) /\ \A i \in DOMAIN vx : valueTypesEquivalent(vx[i], vy[i], E)
    BY DEF AllEquivalent
  <1>12. fx = fy <=> AllEquivalent(vx, vy, E)
    BY <1>7, <1>9, <1>10, <1>11
  <1> QED
    BY <1>12 DEF fx, fy, Nx, Ny, ra, rb, E

(* What a key says of the group of a type. *)
RecOf(t) == IF t.size > 1 THEN <<t.pos, t.size>> ELSE <<>>

(* Parameters, results and place in the group agree. *)
SameShape(t, u, R) ==
    /\ AllEquivalent(t.params, u.params, R) /\ AllEquivalent(t.results, u.results, R)
    /\ RecOf(t) = RecOf(u)

(* Without rec groups, references are to earlier types. *)
LEMMA PlainBackward ==
    ASSUME NEW ts \in Sections, ~ Recursive(ts)
    PROVE  Backward(ts)
  <1> SUFFICES ASSUME NEW i \in DOMAIN ts
               PROVE  Earlier(ts[i].params, i) /\ Earlier(ts[i].results, i)
    BY DEF Backward
  <1>1. ts[i].size \in Nat /\ ~ (ts[i].size > 0)
    BY SectionFacts DEF Recursive
  <1>2. PICK m \in Int : /\ ts[i].size = 0 => m = i - 1
                         /\ validateTypeForwardRefs(ts[i].params, m)
                         /\ validateTypeForwardRefs(ts[i].results, m)
    BY SectionFacts
  <1>3. m = i - 1 /\ i \in Int
    BY <1>1, <1>2, SectionFacts
  <1>4. ASSUME NEW vts, validateTypeForwardRefs(vts, m) PROVE Earlier(vts, i)
    <2> SUFFICES ASSUME NEW j \in DOMAIN vts, IsConcreteRef(vts[j]) PROVE vts[j].idx + 1 < i
      BY DEF Earlier
    <2>1. vts[j] \in [kind : {"ref"}, nullable : BOOLEAN, idx : 0 .. m - 1]
      BY <1>4 DEF validateTypeForwardRefs
    <2>2. vts[j].idx \in 0 .. m - 1
      BY <2>1
    <2> QED
      BY <1>3, <2>2
  <1> QED
    BY <1>2, <1>4

(* Keys are equal when the types agree up to the ids of their references. *)
LEMMA KeysEqual ==
    ASSUME NEW a, NEW b, Compiled(a), Compiled(b), Backward(a.ts), Backward(b.ts),
           NEW x \in DOMAIN a.ts, NEW y \in DOMAIN b.ts
    PROVE  KeyAt(a, x) = KeyAt(b, y) <=> SameShape(a.ts[x], b.ts[y], OneID(a, b))
  <1> DEFINE t == a.ts[x]
             u == b.ts[y]
             ra == SubSeq(a.ret, 1, x - 1)
             rb == SubSeq(b.ret, 1, y - 1)
             pt == [i \in DOMAIN t.params |-> structuralValueTypeName(t.params[i], ra)]
             pu == [i \in DOMAIN u.params |-> structuralValueTypeName(u.params[i], rb)]
             qt == [i \in DOMAIN t.results |-> structuralValueTypeName(t.results[i], ra)]
             qu == [i \in DOMAIN u.results |-> structuralValueTypeName(u.results[i], rb)]
             E == OneID(a, b)
  <1>1. ListOf(t.params, x) /\ ListOf(t.results, x)
    BY SectionFacts DEF Compiled, ListOf, Backward
  <1>2. ListOf(u.params, y) /\ ListOf(u.results, y)
    BY SectionFacts DEF Compiled, ListOf, Backward
  <1>3. /\ KeyAt(a, x) = [params |-> pt, results |-> qt, rec |-> RecOf(t)]
        /\ KeyAt(b, y) = [params |-> pu, results |-> qu, rec |-> RecOf(u)]
    BY DEF KeyAt, structuralTypeKey, RecOf
  <1> HIDE DEF t, u
  <1>4. pt = pu <=> AllEquivalent(t.params, u.params, E)
    BY <1>1, <1>2, ListsEqual
  <1>5. qt = qu <=> AllEquivalent(t.results, u.results, E)
    BY <1>1, <1>2, ListsEqual
  <1> HIDE DEF pt, pu, qt, qu, E
  <1>6. KeyAt(a, x) = KeyAt(b, y) <=> pt = pu /\ qt = qu /\ RecOf(t) = RecOf(u)
    BY <1>3
  <1> QED
    BY <1>4, <1>5, <1>6 DEF SameShape, t, u, E

(* f[m] is what m rounds leave of all pairs. *)
Refined(f, tx, ty, n) ==
    f = [m \in 0 .. n |->
            IF m = 0 THEN Pairs(tx, ty)
            ELSE {p \in f[m - 1] : GroupsEquivalent(tx, p[1], ty, p[2], f[m - 1])}]

(* Such a function exists: a longest one could be extended. *)
LEMMA RefinedExist ==
    ASSUME NEW tx, NEW ty
    PROVE  \A n \in Nat : \E f : Refined(f, tx, ty, n)
  <1> DEFINE Bad == {n \in Nat : ~ \E f : Refined(f, tx, ty, n)}
             Round(R) == {p \in R : GroupsEquivalent(tx, p[1], ty, p[2], R)}
  <1> SUFFICES ASSUME Bad # {} PROVE FALSE
    OBVIOUS
  <1>1. PICK n \in Bad : \A y \in Bad : n <= y
    <2>1. Bad \in SUBSET Nat
      OBVIOUS
    <2> HIDE DEF Bad
    <2> QED
      BY <2>1, LeastNatural
  <1>2. n \in Nat /\ ~ \E f : Refined(f, tx, ty, n)
    BY <1>1
  <1>0. \A f, l : Refined(f, tx, ty, l) <=>
            f = [m \in 0 .. l |-> IF m = 0 THEN Pairs(tx, ty) ELSE Round(f[m - 1])]
    BY DEF Refined
  <1>3. n # 0
    <2> DEFINE z == [m \in 0 .. 0 |-> Pairs(tx, ty)]
    <2> HIDE DEF Round
    <2>1. z = [m \in 0 .. 0 |-> IF m = 0 THEN Pairs(tx, ty) ELSE Round(z[m - 1])]
      OBVIOUS
    <2> HIDE DEF z
    <2> QED
      BY <1>0, <1>2, <2>1
  <1>4. n - 1 \in Nat /\ ~ (n <= n - 1)
    BY <1>2, <1>3
  <1>5. PICK f : Refined(f, tx, ty, n - 1)
    BY <1>1, <1>4
  <1> HIDE DEF Round, Bad
  <1>6. \A m \in 0 .. n - 1 : f[m] = IF m = 0 THEN Pairs(tx, ty) ELSE Round(f[m - 1])
    <2>1. f = [m \in 0 .. n - 1 |-> IF m = 0 THEN Pairs(tx, ty) ELSE Round(f[m - 1])]
      BY <1>0, <1>5
    <2> QED
      BY <2>1
  <1> DEFINE g == [m \in 0 .. n |-> IF m < n THEN f[m] ELSE Round(f[n - 1])]
  <1>7. ASSUME NEW m \in 0 .. n
        PROVE  g[m] = IF m = 0 THEN Pairs(tx, ty) ELSE Round(g[m - 1])
    <2>1. CASE m = 0
      BY <1>2, <1>3, <1>6, <2>1
    <2>2. CASE m # 0 /\ m < n
      <3>1. m \in 0 .. n - 1 /\ m - 1 \in 0 .. n /\ m - 1 < n
        BY <1>2, <2>2
      <3>2. g[m] = f[m] /\ g[m - 1] = f[m - 1]
        BY <2>2, <3>1
      <3> QED
        BY <1>6, <2>2, <3>1, <3>2
    <2>3. CASE m = n
      <3>1. n - 1 \in 0 .. n /\ n - 1 < n /\ ~ (n < n)
        BY <1>2, <1>3
      <3>2. g[n - 1] = f[n - 1] /\ g[n] = Round(f[n - 1])
        BY <2>3, <3>1
      <3> QED
        BY <1>3, <2>3, <3>2
    <2> QED
      BY <1>2, <2>1, <2>2, <2>3
  <1>8. g = [m \in 0 .. n |-> g[m]]
    OBVIOUS
  <1> HIDE DEF g
  <1>9. g = [m \in 0 .. n |-> IF m = 0 THEN Pairs(tx, ty) ELSE Round(g[m - 1])]
    BY <1>7, <1>8
  <1> QED
    BY <1>0, <1>2, <1>9

(* Rounds are as many as there are pairs, at least one for each type. *)
LEMMA PairsMany ==
    ASSUME NEW tx \in Sections, NEW ty \in Sections
    PROVE  Cardinality(Pairs(tx, ty)) \in Nat /\ Cardinality(Pairs(tx, ty)) >= Len(tx)
  <1> DEFINE m == Len(tx)
             n == Len(ty)
  <1>1. m \in Nat /\ n \in Nat /\ n > 0 /\ DOMAIN tx = 1 .. m /\ DOMAIN ty = 1 .. n
    BY SectionFacts
  <1> HIDE DEF m, n
  <1>2. /\ IsFiniteSet(1 .. m) /\ Cardinality(1 .. m) = m
        /\ IsFiniteSet(1 .. n) /\ Cardinality(1 .. n) = n
    BY <1>1, FS_Interval
  <1>3. Cardinality(Pairs(tx, ty)) = m * n
    <2>1. Pairs(tx, ty) = (1 .. m) \X (1 .. n)
      BY <1>1 DEF Pairs
    <2>2. Cardinality((1 .. m) \X (1 .. n)) = Cardinality(1 .. m) * Cardinality(1 .. n)
      BY <1>2, FS_Product, Zenon
    <2> QED
      BY <1>2, <2>1, <2>2
  <1>4. m * n \in Nat /\ m * n >= m
    <2>1. m * n = m + m * (n - 1) /\ m * (n - 1) \in Nat
      BY <1>1
    <2> QED
      BY <1>1, <2>1
  <1> QED
    BY <1>3, <1>4 DEF m

(* What functionTypesEquivalent computes, round by round. *)
LEMMA Rounds ==
    ASSUME NEW tx \in Sections, NEW ty \in Sections
    PROVE  \E f :
             /\ f[0] = Pairs(tx, ty)
             /\ \A m \in 1 .. Cardinality(Pairs(tx, ty)) :
                   f[m] = {p \in f[m - 1] : GroupsEquivalent(tx, p[1], ty, p[2], f[m - 1])}
             /\ \A x, y : functionTypesEquivalent(tx, x, ty, y) <=>
                             <<x, y>> \in f[Cardinality(Pairs(tx, ty))]
  <1> DEFINE n == Cardinality(Pairs(tx, ty))
             f == CHOOSE f : Refined(f, tx, ty, n)
  <1>1. n \in Nat
    BY PairsMany
  <1>2. \A x, y : functionTypesEquivalent(tx, x, ty, y) <=> <<x, y>> \in f[n]
    BY DEF functionTypesEquivalent, Refined
  <1> HIDE DEF n
  <1>3. Refined(f, tx, ty, n)
    BY <1>1, RefinedExist
  <1> HIDE DEF f
  <1>4. ASSUME NEW m \in 0 .. n
        PROVE  f[m] = IF m = 0 THEN Pairs(tx, ty)
                      ELSE {p \in f[m - 1] : GroupsEquivalent(tx, p[1], ty, p[2], f[m - 1])}
    BY <1>3 DEF Refined
  <1>5. f[0] = Pairs(tx, ty)
    <2>1. 0 \in 0 .. n
      BY <1>1
    <2>2. f[0] = IF 0 = 0 THEN Pairs(tx, ty)
                 ELSE {p \in f[0 - 1] : GroupsEquivalent(tx, p[1], ty, p[2], f[0 - 1])}
      BY <1>4, <2>1, Zenon
    <2> QED
      BY <2>2, Zenon
  <1>6. ASSUME NEW m \in 1 .. n
        PROVE  f[m] = {p \in f[m - 1] : GroupsEquivalent(tx, p[1], ty, p[2], f[m - 1])}
    <2>1. m \in 0 .. n /\ m # 0
      BY <1>1
    <2> QED
      BY <1>4, <2>1
  <1> QED
    BY <1>2, <1>5, <1>6 DEF n

(* Equivalent groups have members that agree. *)
LEMMA MembersAgree ==
    ASSUME NEW tx \in Sections, NEW ty \in Sections, NEW x \in DOMAIN tx, NEW y \in DOMAIN ty,
           NEW R, GroupsEquivalent(tx, x, ty, y, R)
    PROVE  SameShape(tx[x], ty[y], R)
  <1> DEFINE gx == groupOf(tx, x)
             gy == groupOf(ty, y)
             k == x - gx
  <1>1. /\ x \in Nat /\ tx[x].pos \in Nat /\ tx[x].size \in Nat
        /\ tx[x].size > 0 => tx[x].pos < tx[x].size
    BY SectionFacts
  <1>2. /\ y \in Nat /\ ty[y].pos \in Nat /\ ty[y].size \in Nat
        /\ ty[y].size > 0 => ty[y].pos < ty[y].size
    BY SectionFacts
  <1>3. /\ groupSize(tx[x]) = groupSize(ty[y]) /\ x - gx = y - gy
        /\ \A i \in 0 .. groupSize(tx[x]) - 1 :
              /\ AllEquivalent(tx[gx + i].params, ty[gy + i].params, R)
              /\ AllEquivalent(tx[gx + i].results, ty[gy + i].results, R)
    BY DEF GroupsEquivalent
  <1>4. /\ k = (IF tx[x].size <= 1 THEN 0 ELSE tx[x].pos) /\ gx \in Int
        /\ y - gy = (IF ty[y].size <= 1 THEN 0 ELSE ty[y].pos) /\ gy \in Int
    BY <1>1, <1>2 DEF groupOf
  <1> HIDE DEF gx, gy
  <1>5. k \in 0 .. groupSize(tx[x]) - 1
    BY <1>1, <1>4 DEF groupSize
  <1>6. gx + k = x /\ gy + k = y
    BY <1>1, <1>2, <1>3, <1>4
  <1>7. RecOf(tx[x]) = RecOf(ty[y])
    <2>1. /\ tx[x].size > 1 <=> ty[y].size > 1
          /\ tx[x].size > 1 => tx[x].size = ty[y].size /\ tx[x].pos = ty[y].pos
      BY <1>1, <1>2, <1>3, <1>4 DEF groupSize
    <2> QED
      BY <2>1 DEF RecOf
  <1>8. /\ AllEquivalent(tx[gx + k].params, ty[gy + k].params, R)
        /\ AllEquivalent(tx[gx + k].results, ty[gy + k].results, R)
    <2> HIDE DEF k
    <2> QED
      BY <1>3, <1>5
  <1> QED
    BY <1>6, <1>7, <1>8 DEF SameShape

(* More pairs taken to be equivalent make more lists equivalent. *)
LEMMA ListsMonotone ==
    ASSUME NEW R, NEW Q, R \subseteq Q, NEW sx, NEW sy, AllEquivalent(sx, sy, R)
    PROVE  AllEquivalent(sx, sy, Q)
  <1>1. ASSUME NEW i \in DOMAIN sx, valueTypesEquivalent(sx[i], sy[i], R)
        PROVE  valueTypesEquivalent(sx[i], sy[i], Q)
    BY <1>1 DEF valueTypesEquivalent
  <1> QED
    BY <1>1 DEF AllEquivalent

(* Ids of a and b are equal as their keys are. *)
SameByKey(a, b) ==
    \A x \in DOMAIN a.ts, y \in DOMAIN b.ts :
        a.ret[x] = b.ret[y] <=> KeyAt(a, x) = KeyAt(b, y)

(* Without rec groups, types of one id are equivalent: no round loses them. *)
LEMMA OneIDEquivalent ==
    ASSUME NEW a, NEW b, Compiled(a), Compiled(b), SameByKey(a, b),
           ~ Recursive(a.ts), ~ Recursive(b.ts),
           NEW x \in DOMAIN a.ts, NEW y \in DOMAIN b.ts, a.ret[x] = b.ret[y]
    PROVE  functionTypesEquivalent(a.ts, x, b.ts, y)
  <1> DEFINE tx == a.ts
             ty == b.ts
             E == OneID(a, b)
             n == Cardinality(Pairs(tx, ty))
  <1>1. tx \in Sections /\ ty \in Sections /\ Backward(tx) /\ Backward(ty) /\ n \in Nat
    BY PlainBackward, PairsMany DEF Compiled
  <1>2. PICK f : /\ f[0] = Pairs(tx, ty)
                 /\ \A m \in 1 .. n :
                       f[m] = {p \in f[m - 1] : GroupsEquivalent(tx, p[1], ty, p[2], f[m - 1])}
                 /\ \A v, w : functionTypesEquivalent(tx, v, ty, w) <=> <<v, w>> \in f[n]
    BY <1>1, Rounds
  <1>3. ASSUME NEW p \in E
        PROVE  p[1] \in DOMAIN tx /\ p[2] \in DOMAIN ty /\ a.ret[p[1]] = b.ret[p[2]]
    BY DEF OneID, Pairs
  <1>4. ASSUME NEW R, E \subseteq R, NEW p \in E
        PROVE  GroupsEquivalent(tx, p[1], ty, p[2], R)
    <2> DEFINE t == tx[p[1]]
               u == ty[p[2]]
    <2>1. SameShape(t, u, E)
      BY <1>1, <1>3, KeysEqual DEF SameByKey
    <2>2. AllEquivalent(t.params, u.params, R) /\ AllEquivalent(t.results, u.results, R)
      BY <1>4, <2>1, ListsMonotone DEF SameShape
    <2>3. p[1] \in Int /\ p[2] \in Int /\ t.size = 0 /\ u.size = 0
      <3>1. p[1] \in DOMAIN tx /\ p[2] \in DOMAIN ty
        BY <1>3
      <3>2. p[1] \in Int /\ t.size \in Nat
        BY <1>1, <3>1, SectionFacts
      <3>3. p[2] \in Int /\ u.size \in Nat
        BY <1>1, <3>1, SectionFacts
      <3>4. ~ (t.size > 0) /\ ~ (u.size > 0)
        BY <3>1 DEF Recursive
      <3> QED
        BY <3>2, <3>3, <3>4
    <2>4. groupOf(tx, p[1]) = p[1] /\ groupOf(ty, p[2]) = p[2]
      BY <2>3 DEF groupOf
    <2>5. groupSize(t) = 1 /\ groupSize(u) = 1
      BY <2>3 DEF groupSize
    <2>6. p[1] - p[1] = p[2] - p[2]
      BY <2>3
    <2>7. \A k \in 0 .. 1 - 1 : p[1] + k = p[1] /\ p[2] + k = p[2]
      BY <2>3
    <2> QED
      BY <2>2, <2>4, <2>5, <2>6, <2>7 DEF GroupsEquivalent
  <1> DEFINE Bad == {m \in 0 .. n : ~ (E \subseteq f[m])}
  <1>5. Bad = {}
    <2> SUFFICES ASSUME Bad # {} PROVE FALSE
      OBVIOUS
    <2>1. PICK m \in Bad : \A l \in Bad : m <= l
      <3>1. Bad \in SUBSET Nat
        BY <1>1
      <3> HIDE DEF Bad
      <3> QED
        BY <3>1, LeastNatural
    <2>2. m \in 0 .. n /\ ~ (E \subseteq f[m])
      BY <2>1
    <2>3. m # 0
      BY <1>2, <2>2 DEF OneID
    <2>4. m \in 1 .. n /\ m - 1 \in 0 .. n /\ ~ (m <= m - 1)
      BY <1>1, <2>2, <2>3
    <2>5. E \subseteq f[m - 1]
      BY <2>1, <2>4
    <2>6. \A p \in E : GroupsEquivalent(tx, p[1], ty, p[2], f[m - 1])
      BY <1>4, <2>5
    <2>7. f[m] = {p \in f[m - 1] : GroupsEquivalent(tx, p[1], ty, p[2], f[m - 1])}
      BY <1>2, <2>4
    <2> QED
      BY <2>2, <2>5, <2>6, <2>7
  <1>6. E \subseteq f[n]
    BY <1>1, <1>5
  <1>7. <<x, y>> \in E
    BY DEF OneID, Pairs
  <1> QED
    BY <1>2, <1>6, <1>7

(* Equivalent types have one id: after m rounds, the first m types do. *)
LEMMA EquivalentOneID ==
    ASSUME NEW a, NEW b, Compiled(a), Compiled(b), SameByKey(a, b),
           Backward(a.ts), Backward(b.ts),
           NEW x \in DOMAIN a.ts, NEW y \in DOMAIN b.ts,
           functionTypesEquivalent(a.ts, x, b.ts, y)
    PROVE  a.ret[x] = b.ret[y]
  <1> DEFINE tx == a.ts
             ty == b.ts
             E == OneID(a, b)
             n == Cardinality(Pairs(tx, ty))
  <1>1. /\ tx \in Sections /\ ty \in Sections /\ n \in Nat /\ n >= Len(tx)
        /\ Len(tx) \in Nat /\ DOMAIN tx = 1 .. Len(tx) /\ DOMAIN ty = 1 .. Len(ty)
        /\ Len(ty) \in Nat
    BY PairsMany, SectionFacts DEF Compiled
  <1>2. PICK f : /\ f[0] = Pairs(tx, ty)
                 /\ \A m \in 1 .. n :
                       f[m] = {p \in f[m - 1] : GroupsEquivalent(tx, p[1], ty, p[2], f[m - 1])}
                 /\ \A v, w : functionTypesEquivalent(tx, v, ty, w) <=> <<v, w>> \in f[n]
    BY <1>1, Rounds
  <1> HIDE DEF n
  <1> DEFINE Good(m) == \A v \in DOMAIN tx, w \in DOMAIN ty :
                            v <= m /\ <<v, w>> \in f[m] => <<v, w>> \in E
             Bad == {m \in 0 .. n : ~ Good(m)}
  <1>3. Bad = {}
    <2> SUFFICES ASSUME Bad # {} PROVE FALSE
      OBVIOUS
    <2>1. PICK m \in Bad : \A l \in Bad : m <= l
      <3>1. Bad \in SUBSET Nat
        BY <1>1
      <3> HIDE DEF Bad
      <3> QED
        BY <3>1, LeastNatural
    <2>2. m \in 0 .. n /\ ~ Good(m)
      BY <2>1
    <2>3. PICK v \in DOMAIN tx, w \in DOMAIN ty :
                   v <= m /\ <<v, w>> \in f[m] /\ ~ (<<v, w>> \in E)
      BY <2>2
    <2>4. m \in 1 .. n /\ m - 1 \in 0 .. n /\ ~ (m <= m - 1) /\ v \in Nat /\ w \in Nat
      <3>1. v \in Nat /\ w \in Nat /\ v > 0
        BY <1>1
      <3>2. m \in Nat /\ v <= m /\ m <= n
        BY <1>1, <2>2, <2>3
      <3> HIDE DEF Good
      <3> QED
        BY <1>1, <3>1, <3>2
    <2>5. Good(m - 1)
      BY <2>1, <2>4
    <2> HIDE DEF Bad
    <2> DEFINE R == f[m - 1]
               t == tx[v]
               u == ty[w]
    <2>6. GroupsEquivalent(tx, v, ty, w, R)
      BY <1>2, <2>3, <2>4
    <2>7. SameShape(t, u, R)
      BY <1>1, <2>6, MembersAgree
    <2>8. ASSUME NEW vx, NEW vy, AllEquivalent(vx, vy, R), Earlier(vx, v), Earlier(vy, w),
                 \E i \in Int : validateTypeForwardRefs(vx, i),
                 \E i \in Int : validateTypeForwardRefs(vy, i)
          PROVE  AllEquivalent(vx, vy, E)
      <3>1. Len(vx) = Len(vy) /\ DOMAIN vx = DOMAIN vy
        BY <2>8 DEF AllEquivalent, validateTypeForwardRefs
      <3>2. ASSUME NEW i \in DOMAIN vx PROVE valueTypesEquivalent(vx[i], vy[i], E)
        <4>1. valueTypesEquivalent(vx[i], vy[i], R)
          BY <2>8 DEF AllEquivalent
        <4>2. CASE IsConcreteRef(vx[i]) /\ IsConcreteRef(vy[i])
          <5>1. vx[i].idx + 1 \in 1 .. v - 1 /\ vy[i].idx + 1 \in 1 .. w - 1
            BY <2>4, <2>8, <3>1, <4>2, EarlierRef
          <5>2. /\ vx[i].idx + 1 \in DOMAIN tx /\ vy[i].idx + 1 \in DOMAIN ty
                /\ vx[i].idx + 1 <= m - 1
            <6> DEFINE p == vx[i].idx + 1
                       q == vy[i].idx + 1
            <6>1. p \in 1 .. v - 1 /\ q \in 1 .. w - 1
              BY <5>1
            <6>2. v \in 1 .. Len(tx) /\ w \in 1 .. Len(ty) /\ v <= m /\ m \in Int
              BY <1>1, <2>3, <2>4
            <6> HIDE DEF p, q
            <6>3. p \in 1 .. Len(tx) /\ q \in 1 .. Len(ty) /\ p <= m - 1
              BY <1>1, <6>1, <6>2
            <6> QED
              BY <1>1, <6>3 DEF p, q
          <5>3. vx[i].nullable = vy[i].nullable /\ <<vx[i].idx + 1, vy[i].idx + 1>> \in R
            BY <4>1, <4>2 DEF valueTypesEquivalent
          <5>4. <<vx[i].idx + 1, vy[i].idx + 1>> \in E
            BY <2>5, <5>2, <5>3
          <5> QED
            BY <4>2, <5>3, <5>4 DEF valueTypesEquivalent
        <4>3. CASE ~ (IsConcreteRef(vx[i]) /\ IsConcreteRef(vy[i]))
          BY <4>1, <4>3 DEF valueTypesEquivalent
        <4> QED
          BY <4>2, <4>3
      <3> QED
        BY <3>1, <3>2 DEF AllEquivalent
    <2>9. /\ Earlier(t.params, v) /\ Earlier(t.results, v)
          /\ Earlier(u.params, w) /\ Earlier(u.results, w)
      BY <2>3 DEF Backward
    <2>10. /\ \E i \in Int : validateTypeForwardRefs(t.params, i)
           /\ \E i \in Int : validateTypeForwardRefs(t.results, i)
           /\ \E i \in Int : validateTypeForwardRefs(u.params, i)
           /\ \E i \in Int : validateTypeForwardRefs(u.results, i)
      BY <1>1, <2>3, SectionFacts
    <2>11. SameShape(t, u, E)
      <3> HIDE DEF R, t, u, E, Good
      <3> QED
        BY <2>7, <2>8, <2>9, <2>10 DEF SameShape
    <2>12. a.ret[v] = b.ret[w]
      BY <2>3, <2>11, KeysEqual DEF SameByKey
    <2> QED
      BY <2>3, <2>12 DEF OneID, Pairs
  <1>4. Good(n) /\ x <= n
    BY <1>1, <1>3
  <1>5. <<x, y>> \in f[n]
    BY <1>2
  <1> HIDE DEF E
  <1>6. <<x, y>> \in E
    BY <1>4, <1>5
  <1> QED
    BY <1>6 DEF OneID, E

(* What TypesInv says of two goroutines that have all their ids. *)
LEMMA CompiledSame ==
    ASSUME TypesInv, NEW g \in Compilers, NEW h \in Compilers,
           asks[g].at = "compiled", asks[h].at = "compiled"
    PROVE  Compiled(asks[g]) /\ Compiled(asks[h]) /\ SameByKey(asks[g], asks[h])
  <1>1. Compiled(asks[g]) /\ Compiled(asks[h])
    BY DEF TypesInv, Asked, Compiled
  <1>2. /\ DOMAIN asks[g].ts = 1 .. Len(asks[g].ret)
        /\ DOMAIN asks[h].ts = 1 .. Len(asks[h].ret)
    BY <1>1, SectionFacts DEF Compiled
  <1> QED
    BY <1>1, <1>2 DEF TypesInv, SameIDs, SameByKey

(* SharedExactly for every number of goroutines and every set of sections, *)
(* in which no member of a rec group refers to itself or to a later one:   *)
(* the id that call_indirect compares is that of the type.                 *)
THEOREM TypesSharedExactly ==
    ASSUME \A ts \in Sections : Backward(ts)
    PROVE  TypesSpec => []SharedExactly
  <1>1. TypesInv => SharedExactly
    <2> SUFFICES ASSUME TypesInv, NEW g \in Compilers, NEW h \in Compilers,
                        asks[g].at = "compiled", asks[h].at = "compiled",
                        NEW x \in DOMAIN asks[g].ts, NEW y \in DOMAIN asks[h].ts
                 PROVE  LET tx == asks[g].ts ty == asks[h].ts
                            same == asks[g].ret[x] = asks[h].ret[y]
                        IN  /\ functionTypesEquivalent(tx, x, ty, y) => same
                            /\ ~ Recursive(tx) /\ ~ Recursive(ty) /\ same =>
                                   functionTypesEquivalent(tx, x, ty, y)
      BY DEF SharedExactly, ForEveryTwo
    <2> DEFINE a == asks[g]
               b == asks[h]
    <2>1. Compiled(a) /\ Compiled(b) /\ SameByKey(a, b)
      BY CompiledSame
    <2>2. Backward(a.ts) /\ Backward(b.ts)
      BY <2>1 DEF Compiled
    <2> HIDE DEF a, b
    <2>3. functionTypesEquivalent(a.ts, x, b.ts, y) => a.ret[x] = b.ret[y]
      BY <2>1, <2>2, EquivalentOneID DEF a, b
    <2>4. ~ Recursive(a.ts) /\ ~ Recursive(b.ts) /\ a.ret[x] = b.ret[y] =>
              functionTypesEquivalent(a.ts, x, b.ts, y)
      BY <2>1, OneIDEquivalent DEF a, b
    <2> QED
      BY <2>3, <2>4 DEF a, b
  <1> QED
    BY <1>1, IDsStandForKeys, PTL

(* Interning leaves the list and the names alone, and the critical section *)
(* that drops the types is the one that drops the names: what is proved of *)
(* the list holds of the store with its types.                             *)
THEOREM TypesKeepList == TypesSpec => Spec
  <1>1. TypesInit => Init
    BY DEF TypesInit
  <1>2. [TypesNext]_<<vars, typeVars>> => [Next]_vars
    BY DEF TypesNext, Next, CloseStoreAndTypes
  <1> QED
    BY <1>1, <1>2, PTL DEF TypesSpec, Spec
============================================================================
