------------------------- MODULE EngineCacheProofs -------------------------
(***************************************************************************)
(* Proofs about EngineCache, for any number of goroutines, handles,        *)
(* modules and addresses.                                                  *)
(*                                                                         *)
(* BaseInv (types, what a compilation works for, what was synced before a  *)
(* rename) carries the cache directory and the reference counts; MemInv    *)
(* relates the sorted addresses to the modules in memory: SortedExact and  *)
(* OneOwner for the stack walk, NoRefNoCode and CodeOwned for the release, *)
(* CodeComplete for what another goroutine may find.                       *)
(***************************************************************************)
EXTENDS EngineCache, SequenceLemmas, FiniteSetTheorems

(* Strictly increasing, as sort.Search needs it. *)
Increasing(s) == \A i, j \in 1 .. Len(s) : i < j => s[i] < s[j]
----------------------------------------------------------------------------
(* The sorted list.                                                        *)

(* Where sort.Search finds the first address that is not below a, and the  *)
(* first one above a.                                                      *)
IndexFrom(a) == Search(LAMBDA x : x >= a)

IndexAbove(a) == Search(LAMBDA x : x > a)

(* sort.Search of addCompiledModuleToSortedList: the first index with an   *)
(* address not below a.                                                    *)
LEMMA SearchFrom ==
    ASSUME sorted \in Seq(Nat), NEW a \in Nat
    PROVE  /\ IndexFrom(a) \in 1 .. Len(sorted) + 1
           /\ \A j \in 1 .. Len(sorted) :
                 j < IndexFrom(a) => sorted[j] < a
           /\ IndexFrom(a) <= Len(sorted) =>
                 sorted[IndexFrom(a)] >= a
  <1> DEFINE I == {i \in 1 .. Len(sorted) : sorted[i] >= a}
             m == IF I # {} THEN Min(I) ELSE 0
             r == IF m = 0 THEN Len(sorted) + 1 ELSE m
  <1>1. IndexFrom(a) = r
    BY DEF IndexFrom, Search, SelectInSeq
  <1>2. Len(sorted) \in Nat /\ \A j \in 1 .. Len(sorted) : sorted[j] \in Nat
    BY ElementOfSeq
  <1>3. CASE I = {}
    <2>1. IndexFrom(a) = Len(sorted) + 1
      BY <1>1, <1>3
    <2>2. ASSUME NEW j \in 1 .. Len(sorted) PROVE sorted[j] < a
      <3>1. j \notin I
        BY <1>3
      <3> QED
        BY <1>2, <3>1
    <2>3. \A n \in Nat : n + 1 \in 1 .. n + 1 /\ ~ (n + 1 <= n)
      OBVIOUS
    <2> QED
      BY <1>2, <2>1, <2>2, <2>3
  <1>4. CASE I # {}
    <2>1. Min(I) \in I /\ \A y \in I : Min(I) <= y
      <3>1. I \in SUBSET Nat
        BY <1>2
      <3> QED
        BY <1>4, <3>1, MinProperties
    <2>2. r = Min(I)
      <3>1. Min(I) # 0
        BY <1>2, <2>1
      <3> QED
        BY <1>4, <3>1
    <2>3. IndexFrom(a) \in I /\ \A y \in I : IndexFrom(a) <= y
      BY <1>1, <2>1, <2>2
    <2>4. ASSUME NEW j \in 1 .. Len(sorted), j < IndexFrom(a) PROVE sorted[j] < a
      <3>1. j \notin I
        BY <1>2, <2>3, <2>4
      <3> QED
        BY <1>2, <3>1
    <2> QED
      BY <1>2, <2>3, <2>4
  <1> QED
    BY <1>3, <1>4

(* sort.Search of compiledModuleOfAddr: the first index with an address    *)
(* above a.                                                                *)
LEMMA SearchAbove ==
    ASSUME sorted \in Seq(Nat), NEW a \in Nat
    PROVE  /\ IndexAbove(a) \in 1 .. Len(sorted) + 1
           /\ \A j \in 1 .. Len(sorted) :
                 j < IndexAbove(a) => sorted[j] <= a
           /\ IndexAbove(a) <= Len(sorted) =>
                 sorted[IndexAbove(a)] > a
  <1> DEFINE I == {i \in 1 .. Len(sorted) : sorted[i] > a}
             m == IF I # {} THEN Min(I) ELSE 0
             r == IF m = 0 THEN Len(sorted) + 1 ELSE m
  <1>1. IndexAbove(a) = r
    BY DEF IndexAbove, Search, SelectInSeq
  <1>2. Len(sorted) \in Nat /\ \A j \in 1 .. Len(sorted) : sorted[j] \in Nat
    BY ElementOfSeq
  <1>3. CASE I = {}
    <2>1. IndexAbove(a) = Len(sorted) + 1
      BY <1>1, <1>3
    <2>2. ASSUME NEW j \in 1 .. Len(sorted) PROVE sorted[j] <= a
      <3>1. j \notin I
        BY <1>3
      <3> QED
        BY <1>2, <3>1
    <2>3. \A n \in Nat : n + 1 \in 1 .. n + 1 /\ ~ (n + 1 <= n)
      OBVIOUS
    <2> QED
      BY <1>2, <2>1, <2>2, <2>3
  <1>4. CASE I # {}
    <2>1. Min(I) \in I /\ \A y \in I : Min(I) <= y
      <3>1. I \in SUBSET Nat
        BY <1>2
      <3> QED
        BY <1>4, <3>1, MinProperties
    <2>2. r = Min(I)
      <3>1. Min(I) # 0
        BY <1>2, <2>1
      <3> QED
        BY <1>4, <3>1
    <2>3. IndexAbove(a) \in I /\ \A y \in I : IndexAbove(a) <= y
      BY <1>1, <2>1, <2>2
    <2>4. ASSUME NEW j \in 1 .. Len(sorted), j < IndexAbove(a) PROVE sorted[j] <= a
      <3>1. j \notin I
        BY <1>2, <2>3, <2>4
      <3> QED
        BY <1>2, <3>1
    <2> QED
      BY <1>2, <2>3, <2>4
  <1> QED
    BY <1>3, <1>4

(* Addresses are numbers. *)
LEMMA SortedNat == sorted \in Seq(Addrs) => sorted \in Seq(Nat)
  BY CacheAssumption, SeqMonotonic

(* addCompiledModuleToSortedList keeps the order and adds the address. *)
LEMMA AddToList ==
    ASSUME sorted \in Seq(Addrs), NEW a \in Addrs
    PROVE  /\ addCompiledModuleToSortedList(a) \in Seq(Addrs)
           /\ Increasing(sorted) /\ ~ Occurs(a, sorted) =>
                 Increasing(addCompiledModuleToSortedList(a))
           /\ \A y : Occurs(y, addCompiledModuleToSortedList(a)) <=>
                     Occurs(y, sorted) \/ y = a
  <1> DEFINE k == IndexFrom(a)
             r == InsertAt(sorted, k, a)
  <1>0. a \in Nat /\ sorted \in Seq(Nat) /\ Len(sorted) \in Nat
    BY CacheAssumption, SortedNat
  <1>1. /\ k \in 1 .. Len(sorted) + 1
        /\ \A j \in 1 .. Len(sorted) : j < k => sorted[j] < a
        /\ k <= Len(sorted) => sorted[k] >= a
    BY <1>0, SearchFrom
  <1>2. addCompiledModuleToSortedList(a) = r
    BY DEF addCompiledModuleToSortedList, IndexFrom
  <1> HIDE DEF k
  <1>3. /\ r \in Seq(Addrs)
        /\ Len(r) = Len(sorted) + 1
        /\ \A j \in 1 .. Len(sorted) + 1 : r[j] =
              IF j < k THEN sorted[j] ELSE IF j = k THEN a ELSE sorted[j - 1]
    BY <1>1, InsertAtProperties
  <1> HIDE DEF r
  <1>4. \A j \in 1 .. Len(sorted) : sorted[j] \in Nat
    BY <1>0, ElementOfSeq
  <1>5. ASSUME Increasing(sorted), ~ Occurs(a, sorted) PROVE Increasing(r)
    <2>1. \A j \in 1 .. Len(sorted) : j >= k => sorted[j] > a
      <3> SUFFICES ASSUME NEW j \in 1 .. Len(sorted), j >= k PROVE sorted[j] > a
        OBVIOUS
      <3>1. sorted[k] >= a /\ k \in 1 .. Len(sorted)
        BY <1>0, <1>1
      <3>2. sorted[j] >= sorted[k]
        BY <1>4, <1>5, <3>1 DEF Increasing
      <3>3. sorted[j] # a
        BY <1>5 DEF Occurs
      <3> QED
        BY <1>0, <1>4, <3>1, <3>2, <3>3
    <2> SUFFICES ASSUME NEW i \in 1 .. Len(r), NEW j \in 1 .. Len(r), i < j
                 PROVE  r[i] < r[j]
      BY DEF Increasing
    <2>2. CASE j < k
      <3>1. i \in 1 .. Len(sorted) /\ j \in 1 .. Len(sorted)
        BY <1>0, <1>1, <2>2
      <3>2. r[i] = sorted[i] /\ r[j] = sorted[j]
        BY <1>0, <1>1, <1>3, <2>2
      <3> QED
        BY <1>5, <3>1, <3>2 DEF Increasing
    <2>3. CASE j = k
      <3>1. i \in 1 .. Len(sorted) /\ r[i] = sorted[i] /\ r[j] = a
        BY <1>0, <1>1, <1>3, <2>3
      <3> QED
        BY <1>1, <2>3, <3>1
    <2>4. CASE i < k /\ k < j
      <3>1. /\ i \in 1 .. Len(sorted) /\ j - 1 \in 1 .. Len(sorted)
            /\ j - 1 >= k /\ r[i] = sorted[i] /\ r[j] = sorted[j - 1]
        BY <1>0, <1>1, <1>3, <2>4
      <3>2. sorted[i] < a /\ a < sorted[j - 1]
        BY <1>1, <2>1, <2>4, <3>1
      <3> QED
        BY <1>0, <1>4, <3>1, <3>2
    <2>5. CASE i = k
      <3>1. /\ j - 1 \in 1 .. Len(sorted) /\ j - 1 >= k
            /\ r[i] = a /\ r[j] = sorted[j - 1]
        BY <1>0, <1>1, <1>3, <2>5
      <3> QED
        BY <1>0, <1>4, <2>1, <3>1
    <2>6. CASE k < i
      <3>1. /\ i - 1 \in 1 .. Len(sorted) /\ j - 1 \in 1 .. Len(sorted)
            /\ i - 1 < j - 1 /\ r[i] = sorted[i - 1] /\ r[j] = sorted[j - 1]
        BY <1>0, <1>1, <1>3, <2>6
      <3> QED
        BY <1>5, <3>1 DEF Increasing
    <2> QED
      BY <1>0, <1>1, <1>3, <2>2, <2>3, <2>4, <2>5, <2>6
  <1>6. ASSUME NEW y, Occurs(y, r) PROVE Occurs(y, sorted) \/ y = a
    <2>1. PICK j \in 1 .. Len(r) : r[j] = y
      BY <1>6 DEF Occurs
    <2>2. CASE j < k
      BY <1>0, <1>1, <1>3, <2>1, <2>2 DEF Occurs
    <2>3. CASE j = k
      BY <1>0, <1>1, <1>3, <2>1, <2>3
    <2>4. CASE j > k
      <3>1. j - 1 \in 1 .. Len(sorted) /\ sorted[j - 1] = y
        BY <1>0, <1>1, <1>3, <2>1, <2>4
      <3> QED
        BY <3>1 DEF Occurs
    <2> QED
      BY <1>0, <1>1, <1>3, <2>2, <2>3, <2>4
  <1>7. ASSUME NEW y, Occurs(y, sorted) PROVE Occurs(y, r)
    <2>1. PICK j \in 1 .. Len(sorted) : sorted[j] = y
      BY <1>7 DEF Occurs
    <2>2. CASE j < k
      <3>1. j \in 1 .. Len(r) /\ r[j] = y
        BY <1>0, <1>1, <1>3, <2>1, <2>2
      <3> QED
        BY <3>1 DEF Occurs
    <2>3. CASE j >= k
      <3>1. j + 1 \in 1 .. Len(sorted) + 1 /\ ~ (j + 1 < k) /\ j + 1 # k /\ (j + 1) - 1 = j
        BY <1>0, <1>1, <2>3
      <3>2. j + 1 \in 1 .. Len(r) /\ r[j + 1] = y
        BY <1>3, <2>1, <3>1
      <3> QED
        BY <3>2 DEF Occurs
    <2> QED
      BY <1>0, <1>1, <2>2, <2>3
  <1>8. Occurs(a, r)
    <2>1. k \in 1 .. Len(r) /\ r[k] = a
      BY <1>0, <1>1, <1>3
    <2> QED
      BY <2>1 DEF Occurs
  <1> QED
    BY <1>2, <1>3, <1>5, <1>6, <1>7, <1>8

(* deleteCompiledModuleFromSortedList removes the address it is asked to,  *)
(* not the one after it.                                                   *)
LEMMA DeleteFromList ==
    ASSUME sorted \in Seq(Addrs), NEW a \in Addrs
    PROVE  /\ deleteCompiledModuleFromSortedList(a) \in Seq(Addrs)
           /\ Increasing(sorted) /\ Occurs(a, sorted) =>
                 /\ Increasing(deleteCompiledModuleFromSortedList(a))
                 /\ \A y : Occurs(y, deleteCompiledModuleFromSortedList(a)) <=>
                           Occurs(y, sorted) /\ y # a
  <1> DEFINE k == IndexFrom(a)
             r == RemoveAt(sorted, k)
  <1>0. a \in Nat /\ sorted \in Seq(Nat) /\ Len(sorted) \in Nat
    BY CacheAssumption, SortedNat
  <1>1. /\ k \in 1 .. Len(sorted) + 1
        /\ \A j \in 1 .. Len(sorted) : j < k => sorted[j] < a
        /\ k <= Len(sorted) => sorted[k] >= a
    BY <1>0, SearchFrom
  <1>2. deleteCompiledModuleFromSortedList(a) = IF k > Len(sorted) THEN sorted ELSE r
    BY DEF deleteCompiledModuleFromSortedList, IndexFrom
  <1> HIDE DEF k
  <1>3. ASSUME k <= Len(sorted)
        PROVE  /\ r \in Seq(Addrs)
               /\ Len(r) = Len(sorted) - 1
               /\ \A j \in 1 .. Len(sorted) - 1 :
                     r[j] = IF j < k THEN sorted[j] ELSE sorted[j + 1]
    BY <1>0, <1>1, <1>3, RemoveAtProperties
  <1> HIDE DEF r
  <1>4. \A j \in 1 .. Len(sorted) : sorted[j] \in Nat
    BY <1>0, ElementOfSeq
  <1>5. deleteCompiledModuleFromSortedList(a) \in Seq(Addrs)
    BY <1>0, <1>1, <1>2, <1>3
  <1>6. ASSUME Increasing(sorted), Occurs(a, sorted)
        PROVE  /\ Increasing(deleteCompiledModuleFromSortedList(a))
               /\ \A y : Occurs(y, deleteCompiledModuleFromSortedList(a)) <=>
                         Occurs(y, sorted) /\ y # a
    <2>1. PICK p \in 1 .. Len(sorted) : sorted[p] = a
      BY <1>6 DEF Occurs
    <2>2. k <= Len(sorted) /\ k <= p
      BY <1>0, <1>1, <1>4, <2>1
    <2>3. k \in 1 .. Len(sorted) /\ sorted[k] = a
      BY <1>0, <1>1, <1>4, <1>6, <2>1, <2>2 DEF Increasing
    <2>4. /\ deleteCompiledModuleFromSortedList(a) = r
          /\ r \in Seq(Addrs)
          /\ Len(r) = Len(sorted) - 1
          /\ \A j \in 1 .. Len(sorted) - 1 :
                r[j] = IF j < k THEN sorted[j] ELSE sorted[j + 1]
      BY <1>0, <1>1, <1>2, <1>3, <2>2
    <2>5. Increasing(r)
      <3> SUFFICES ASSUME NEW i \in 1 .. Len(r), NEW j \in 1 .. Len(r), i < j
                   PROVE  r[i] < r[j]
        BY DEF Increasing
      <3>1. \E p1, q1 \in 1 .. Len(sorted) :
               p1 < q1 /\ r[i] = sorted[p1] /\ r[j] = sorted[q1]
        <4> DEFINE p1 == IF i < k THEN i ELSE i + 1
                   q1 == IF j < k THEN j ELSE j + 1
        <4>1. p1 \in 1 .. Len(sorted) /\ q1 \in 1 .. Len(sorted) /\ p1 < q1
          BY <1>0, <2>3, <2>4
        <4>2. r[i] = sorted[p1] /\ r[j] = sorted[q1]
          BY <1>0, <2>3, <2>4
        <4> QED
          BY <4>1, <4>2
      <3> QED
        BY <1>6, <3>1 DEF Increasing
    <2>6. ASSUME NEW y, Occurs(y, r) PROVE Occurs(y, sorted) /\ y # a
      <3>1. PICK j \in 1 .. Len(r) : r[j] = y
        BY <2>6 DEF Occurs
      <3>2. PICK m \in 1 .. Len(sorted) : sorted[m] = y /\ m # k
        <4> DEFINE m == IF j < k THEN j ELSE j + 1
        <4>1. m \in 1 .. Len(sorted) /\ m # k
          BY <1>0, <2>3, <2>4
        <4>2. r[j] = sorted[m]
          BY <1>0, <2>3, <2>4
        <4> QED
          BY <3>1, <4>1, <4>2
      <3>3. y # a
        BY <1>0, <1>4, <1>6, <2>3, <3>2 DEF Increasing
      <3> QED
        BY <3>2, <3>3 DEF Occurs
    <2>7. ASSUME NEW y, Occurs(y, sorted), y # a PROVE Occurs(y, r)
      <3>1. PICK j \in 1 .. Len(sorted) : sorted[j] = y
        BY <2>7 DEF Occurs
      <3>2. j # k
        BY <2>3, <2>7, <3>1
      <3>3. CASE j < k
        <4>1. j \in 1 .. Len(r) /\ r[j] = y
          BY <1>0, <2>3, <2>4, <3>1, <3>3
        <4> QED
          BY <4>1 DEF Occurs
      <3>4. CASE j > k
        <4>1. j - 1 \in 1 .. Len(sorted) - 1 /\ ~ (j - 1 < k) /\ (j - 1) + 1 = j
          BY <1>0, <2>3, <3>4
        <4>2. j - 1 \in 1 .. Len(r) /\ r[j - 1] = y
          BY <2>4, <3>1, <4>1
        <4> QED
          BY <4>2 DEF Occurs
      <3> QED
        BY <1>0, <2>3, <3>2, <3>3, <3>4
    <2> QED
      BY <2>4, <2>5, <2>6, <2>7
  <1> QED
    BY <1>5, <1>6

(* compiledModuleOfAddr finds what is in a sorted list, and nothing else.  *)
LEMMA LookupFinds ==
    ASSUME sorted \in Seq(Addrs), Increasing(sorted), NEW a \in Addrs
    PROVE  compiledModuleOfAddr(a) = IF Occurs(a, sorted) THEN a ELSE NoAddr
  <1> DEFINE k == IndexAbove(a)
  <1>0. a \in Nat /\ sorted \in Seq(Nat) /\ Len(sorted) \in Nat
    BY CacheAssumption, SortedNat
  <1>1. /\ k \in 1 .. Len(sorted) + 1
        /\ \A j \in 1 .. Len(sorted) : j < k => sorted[j] <= a
        /\ k <= Len(sorted) => sorted[k] > a
    BY <1>0, SearchAbove
  <1>2. compiledModuleOfAddr(a) = IF k - 1 > 0 /\ sorted[k - 1] = a THEN a ELSE NoAddr
    BY DEF compiledModuleOfAddr, IndexAbove
  <1> HIDE DEF k
  <1>3. \A j \in 1 .. Len(sorted) : sorted[j] \in Nat
    BY <1>0, ElementOfSeq
  <1>4. CASE Occurs(a, sorted)
    <2>1. PICK p \in 1 .. Len(sorted) : sorted[p] = a
      BY <1>4 DEF Occurs
    <2>2. p < k
      <3> SUFFICES ASSUME k <= p PROVE FALSE
        BY <1>0, <1>1
      <3>1. k \in 1 .. Len(sorted) /\ sorted[k] > a
        BY <1>0, <1>1
      <3> QED
        BY <1>0, <1>3, <2>1, <3>1 DEF Increasing
    <2>3. k - 1 \in 1 .. Len(sorted) /\ k - 1 > 0 /\ sorted[k - 1] <= a /\ p <= k - 1
      BY <1>0, <1>1, <2>2
    <2>4. p = k - 1
      BY <1>0, <1>3, <2>1, <2>3 DEF Increasing
    <2> QED
      BY <1>2, <1>4, <2>1, <2>3, <2>4
  <1>5. CASE ~ Occurs(a, sorted)
    <2>1. ~ (k - 1 > 0 /\ sorted[k - 1] = a)
      <3> SUFFICES ASSUME k - 1 > 0, sorted[k - 1] = a PROVE FALSE
        OBVIOUS
      <3>1. k - 1 \in 1 .. Len(sorted)
        BY <1>0, <1>1
      <3> QED
        BY <1>5, <3>1 DEF Occurs
    <2> QED
      BY <1>2, <1>5, <2>1
  <1> QED
    BY <1>4, <1>5
----------------------------------------------------------------------------
(* Types, goroutines and files.                                            *)

(* A goroutine in CompileModule has a handle of its own, which nobody else *)
(* can use yet.                                                            *)
JobsCompile ==
    /\ \A t \in Threads : pc[t] = "idle" <=> job[t] = NoHandle
    /\ \A t \in Threads : job[t] \in Handles => handle[job[t]] = "compiling"
    /\ \A t, u \in Threads : job[t] = job[u] /\ job[t] # NoHandle => t = u

(* What is renamed was synced, so no entry ever depends on luck. *)
FilesSynced ==
    /\ \A t \in Threads : pc[t] = "rename" => temp[t] = "whole"
    /\ \A i \in IDs : file[i] # "unsynced"

BaseInv == TypeOK /\ JobsCompile /\ FilesSynced

(* A new engine satisfies BaseInv. *)
LEMMA InitBaseInv == Init => BaseInv
  BY CacheAssumption
  DEF Init, Fresh, BaseInv, TypeOK, JobsCompile, FilesSynced, Labels, Contents

(* The goroutine that compiles has a handle, so its module is known. *)
LEMMA JobKnown ==
    ASSUME BaseInv, NEW t \in Threads, pc[t] # "idle"
    PROVE  job[t] \in Handles /\ Id(t) \in IDs /\ handle[job[t]] = "compiling"
  BY CacheAssumption DEF BaseInv, TypeOK, JobsCompile, Id

(* CompileModule returns. *)
LEMMA ReturnBase ==
    ASSUME BaseInv, NEW t \in Threads, pc[t] # "idle",
           NEW result \in {"none", "open"}, Return(t, result),
           closed' \in BOOLEAN, refCount' \in [IDs -> Nat],
           addrOf' \in [IDs -> Addrs \cup {NoAddr}], sorted' \in Seq(Addrs),
           complete' \in SUBSET Addrs, instance' = instance,
           file' \in [IDs -> Contents \ {"unsynced"}]
    PROVE  BaseInv'
  <1>0. job[t] \in Handles /\ NoHandle \notin Handles
    BY JobKnown, CacheAssumption
  <1>1. TypeOK'
    BY <1>0 DEF BaseInv, TypeOK, Return, Goto, Labels, Contents
  <1>2. JobsCompile'
    BY <1>0 DEF BaseInv, TypeOK, JobsCompile, Return, Goto
  <1>3. FilesSynced'
    BY DEF BaseInv, TypeOK, FilesSynced, Return, Goto, Contents
  <1> QED
    BY <1>1, <1>2, <1>3 DEF BaseInv

(* A step within CompileModule. *)
LEMMA GotoBase ==
    ASSUME BaseInv, NEW t \in Threads, pc[t] # "idle",
           NEW l \in Labels \ {"idle"}, Goto(t, l), UNCHANGED <<handle, job>>,
           closed' \in BOOLEAN, refCount' \in [IDs -> Nat],
           addrOf' \in [IDs -> Addrs \cup {NoAddr}], sorted' \in Seq(Addrs),
           complete' \in SUBSET Addrs, instance' = instance,
           file' \in [IDs -> Contents \ {"unsynced"}],
           code' \in [Threads -> Addrs \cup {NoAddr}],
           fd' \in [Threads -> Contents],
           temp' \in [Threads -> {"none", "empty", "unsynced", "whole"}],
           \A u \in Threads : u # t => temp'[u] = temp[u],
           l = "rename" => temp'[t] = "whole"
    PROVE  BaseInv'
  <1>1. TypeOK'
    BY DEF BaseInv, TypeOK, Goto, Labels, Contents
  <1>2. JobsCompile'
    BY DEF BaseInv, TypeOK, JobsCompile, Goto
  <1>3. FilesSynced'
    BY DEF BaseInv, TypeOK, FilesSynced, Goto, Contents
  <1> QED
    BY <1>1, <1>2, <1>3 DEF BaseInv

(* No file of the cache has unsynced content while the process lives. *)
LEMMA FilesNow ==
    ASSUME BaseInv PROVE file \in [IDs -> Contents \ {"unsynced"}]
  BY DEF BaseInv, TypeOK, FilesSynced

(* addCompiledModuleToMemory keeps the types of the maps. *)
LEMMA AddTypes ==
    ASSUME BaseInv, NEW i \in IDs, NEW a \in Addrs \cup {NoAddr},
           addCompiledModuleToMemory(i, a)
    PROVE  /\ refCount' \in [IDs -> Nat]
           /\ addrOf' \in [IDs -> Addrs \cup {NoAddr}]
           /\ sorted' \in Seq(Addrs)
  <1>1. CASE closed
    BY <1>1 DEF BaseInv, TypeOK, addCompiledModuleToMemory
  <1>2. CASE ~ closed /\ refCount[i] > 0
    BY <1>2 DEF BaseInv, TypeOK, addCompiledModuleToMemory
  <1>3. CASE ~ closed /\ ~ (refCount[i] > 0)
    <2>1. /\ refCount' = [refCount EXCEPT ![i] = 1]
          /\ addrOf' = [addrOf EXCEPT ![i] = a]
          /\ sorted' = IF a = NoAddr THEN sorted
                       ELSE addCompiledModuleToSortedList(a)
      BY <1>3 DEF addCompiledModuleToMemory
    <2>2. sorted \in Seq(Addrs)
      BY DEF BaseInv, TypeOK
    <2>3. sorted' \in Seq(Addrs)
      BY <2>1, <2>2, AddToList
    <2> QED
      BY <2>1, <2>3 DEF BaseInv, TypeOK
  <1> QED
    BY <1>1, <1>2, <1>3 DEF BaseInv, TypeOK

(* DeleteCompiledModule keeps the types of the maps. *)
LEMMA DeleteTypes ==
    ASSUME BaseInv, NEW i \in IDs, DeleteCompiledModule(i)
    PROVE  /\ refCount' \in [IDs -> Nat]
           /\ addrOf' \in [IDs -> Addrs \cup {NoAddr}]
           /\ sorted' \in Seq(Addrs)
  <1>1. CASE refCount[i] = 1
    <2>1. /\ refCount' = [refCount EXCEPT ![i] = 0]
          /\ addrOf' = [addrOf EXCEPT ![i] = NoAddr]
          /\ sorted' = IF addrOf[i] = NoAddr THEN sorted
                       ELSE deleteCompiledModuleFromSortedList(addrOf[i])
      BY <1>1 DEF DeleteCompiledModule
    <2>2. sorted \in Seq(Addrs) /\ addrOf[i] \in Addrs \cup {NoAddr}
      BY DEF BaseInv, TypeOK
    <2>3. sorted' \in Seq(Addrs)
      BY <2>1, <2>2, DeleteFromList
    <2> QED
      BY <2>1, <2>3 DEF BaseInv, TypeOK
  <1>2. CASE refCount[i] # 1
    <2>1. /\ refCount' = [refCount EXCEPT ![i] = IF @ = 0 THEN 0 ELSE @ - 1]
          /\ UNCHANGED <<addrOf, sorted>>
      BY <1>2 DEF DeleteCompiledModule
    <2>2. refCount[i] \in Nat
      BY DEF BaseInv, TypeOK
    <2> QED
      BY <2>1, <2>2 DEF BaseInv, TypeOK
  <1> QED
    BY <1>1, <1>2

(* Each step of CompileModule keeps BaseInv. *)
LEMMA CompileModuleBase ==
    ASSUME BaseInv, NEW t \in Threads, CompileModule(t)
    PROVE  BaseInv'
  <1> USE DEF At
  <1>0. /\ file \in [IDs -> Contents \ {"unsynced"}]
        /\ pc[t] # "idle" =>
              job[t] \in Handles /\ Id(t) \in IDs /\ handle[job[t]] = "compiling"
    BY FilesNow, JobKnown
  <1>1. ASSUME NEW h \in Handles, StartCompile(t, h) PROVE BaseInv'
    <2> USE <1>1, CacheAssumption DEF StartCompile, Goto, BaseInv, memVars
    <2>1. TypeOK'
      BY DEF TypeOK, Labels
    <2>2. JobsCompile'
      BY DEF TypeOK, JobsCompile
    <2>3. FilesSynced'
      BY DEF TypeOK, FilesSynced
    <2> QED
      BY <2>1, <2>2, <2>3
  <1>2. CASE CheckClosed(t)
    <2>1. CASE closed
      BY <1>0, <1>2, <2>1, ReturnBase DEF CheckClosed, memVars, BaseInv, TypeOK
    <2>2. CASE ~ closed
      BY <1>0, <1>2, <2>2, GotoBase
      DEF CheckClosed, memVars, BaseInv, TypeOK, Labels
    <2> QED
      BY <2>1, <2>2
  <1>3. CASE FromMemory(t)
    <2>1. CASE refCount[Id(t)] > 0
      <3>1. refCount' \in [IDs -> Nat]
        <4>1. refCount' = [refCount EXCEPT ![Id(t)] = refCount[Id(t)] + 1]
          BY <1>3, <2>1 DEF FromMemory
        <4>2. refCount \in [IDs -> Nat] /\ Id(t) \in IDs
          BY <1>0, <1>3 DEF FromMemory, BaseInv, TypeOK
        <4> QED
          BY <4>1, <4>2
      <3> QED
        BY <1>0, <1>3, <2>1, <3>1, ReturnBase DEF FromMemory, BaseInv, TypeOK
    <2>2. CASE ~ (refCount[Id(t)] > 0)
      <3>1. PICK l \in {"compile", "file"} : Goto(t, l)
        BY <1>3, <2>2 DEF FromMemory
      <3> QED
        BY <1>0, <1>3, <2>2, <3>1, GotoBase
        DEF FromMemory, BaseInv, TypeOK, Labels
    <2> QED
      BY <2>1, <2>2
  <1>4. CASE FileGet(t)
    <2>1. PICK l \in {"compile", "read"} : Goto(t, l)
      BY <1>4 DEF FileGet
    <2>2. fd' \in [Threads -> Contents]
      BY <1>0, <1>4 DEF FileGet, BaseInv, TypeOK
    <2> QED
      BY <1>0, <1>4, <2>1, <2>2, GotoBase
      DEF FileGet, memVars, BaseInv, TypeOK, Labels
  <1>5. CASE FileGetError(t)
    BY <1>0, <1>5, ReturnBase DEF FileGetError, memVars, BaseInv, TypeOK
  <1>6. CASE FileDiscard(t)
    <2>1. /\ file' \in [IDs -> Contents \ {"unsynced"}]
          /\ fd' \in [Threads -> Contents]
      BY <1>0, <1>6 DEF FileDiscard, BaseInv, TypeOK, Contents
    <2> QED
      BY <1>0, <1>6, <2>1, GotoBase
      DEF FileDiscard, memVars, BaseInv, TypeOK, Labels
  <1>7. CASE FileDiscardError(t)
    <2>1. CASE fd[t] = "stale"
      BY <1>0, <1>7, <2>1, ReturnBase DEF FileDiscardError, memVars, BaseInv, TypeOK
    <2>2. CASE fd[t] # "stale"
      <3>1. fd' \in [Threads -> Contents]
        BY <1>7, <2>2 DEF FileDiscardError, BaseInv, TypeOK, Contents
      <3> QED
        BY <1>0, <1>7, <2>2, <3>1, GotoBase
        DEF FileDiscardError, memVars, BaseInv, TypeOK, Labels
    <2> QED
      BY <2>1, <2>2
  <1>8. ASSUME NEW a \in Addrs \cup {NoAddr}, FileRead(t, a) PROVE BaseInv'
    <2>1. /\ code' \in [Threads -> Addrs \cup {NoAddr}]
          /\ complete' \in SUBSET Addrs
      BY <1>8 DEF FileRead, NewCode, BaseInv, TypeOK
    <2>2. PICK l \in {"attach", "discard"} : Goto(t, l)
      BY <1>8 DEF FileRead
    <2> QED
      BY <1>0, <1>8, <2>1, <2>2, GotoBase DEF FileRead, BaseInv, TypeOK, Labels
  <1>9. ASSUME NEW a \in Addrs \cup {NoAddr}, Compile(t, a) PROVE BaseInv'
    <2>1. /\ code' \in [Threads -> Addrs \cup {NoAddr}]
          /\ complete' \in SUBSET Addrs
      BY <1>9 DEF Compile, NewCode, BaseInv, TypeOK
    <2> QED
      BY <1>0, <1>9, <2>1, GotoBase DEF Compile, BaseInv, TypeOK, Labels
  <1>10. CASE CompileError(t)
    BY <1>0, <1>10, ReturnBase DEF CompileError, memVars, BaseInv, TypeOK
  <1>11. CASE Attach(t)
    <2>1. complete' \in SUBSET Addrs
      BY <1>11 DEF Attach, BaseInv, TypeOK
    <2>2. PICK l \in {"panicked", "publish"} : Goto(t, l)
      BY <1>11 DEF Attach
    <2> QED
      BY <1>0, <1>11, <2>1, <2>2, GotoBase DEF Attach, BaseInv, TypeOK, Labels
  <1>12. CASE Publish(t)
    <2>1. /\ refCount' \in [IDs -> Nat]
          /\ addrOf' \in [IDs -> Addrs \cup {NoAddr}]
          /\ sorted' \in Seq(Addrs)
      BY <1>0, <1>12, AddTypes DEF Publish, BaseInv, TypeOK
    <2>2. CASE fd[t] # "none" \/ Id(t) \in HostIDs
      BY <1>0, <1>12, <2>1, <2>2, ReturnBase DEF Publish, BaseInv, TypeOK
    <2>3. CASE ~ (fd[t] # "none" \/ Id(t) \in HostIDs)
      BY <1>0, <1>12, <2>1, <2>3, GotoBase DEF Publish, BaseInv, TypeOK, Labels
    <2> QED
      BY <2>2, <2>3
  <1>13. CASE AddCreate(t)
    <2>1. temp' \in [Threads -> {"none", "empty", "unsynced", "whole"}]
      BY <1>13 DEF AddCreate, Write, BaseInv, TypeOK
    <2> QED
      BY <1>0, <1>13, <2>1, GotoBase
      DEF AddCreate, Write, memVars, BaseInv, TypeOK, Labels
  <1>14. CASE AddCopy(t)
    <2>1. temp' \in [Threads -> {"none", "empty", "unsynced", "whole"}]
      BY <1>14 DEF AddCopy, Write, BaseInv, TypeOK
    <2> QED
      BY <1>0, <1>14, <2>1, GotoBase
      DEF AddCopy, Write, memVars, BaseInv, TypeOK, Labels
  <1>15. CASE AddSync(t)
    <2>1. temp' \in [Threads -> {"none", "empty", "unsynced", "whole"}]
      BY <1>15 DEF AddSync, Write, BaseInv, TypeOK
    <2> QED
      BY <1>0, <1>15, <2>1, GotoBase
      DEF AddSync, Write, memVars, BaseInv, TypeOK, Labels
  <1>16. CASE AddRename(t)
    <2>1. temp[t] = "whole"
      BY <1>16 DEF AddRename, BaseInv, FilesSynced
    <2>2. file' \in [IDs -> Contents \ {"unsynced"}]
      BY <1>0, <1>16, <2>1 DEF AddRename, Contents
    <2> QED
      BY <1>0, <1>16, <2>2, ReturnBase DEF AddRename, memVars, BaseInv, TypeOK
  <1>17. CASE AddError(t)
    BY <1>0, <1>17, ReturnBase DEF AddError, memVars, BaseInv, TypeOK
  <1> QED
    BY <1>1, <1>2, <1>3, <1>4, <1>5, <1>6, <1>7, <1>8, <1>9, <1>10, <1>11,
       <1>12, <1>13, <1>14, <1>15, <1>16, <1>17 DEF CompileModule

(* Every step keeps BaseInv. *)
LEMMA NextBase ==
    ASSUME BaseInv, [Next]_vars
    PROVE  BaseInv'
  <1>1. ASSUME NEW h \in Handles, CloseHandle(h) PROVE BaseInv'
    <2>1. IdOf[h] \in IDs
      BY CacheAssumption
    <2>2. /\ refCount' \in [IDs -> Nat]
          /\ addrOf' \in [IDs -> Addrs \cup {NoAddr}]
          /\ sorted' \in Seq(Addrs)
      BY <1>1, <2>1, DeleteTypes DEF CloseHandle, BaseInv, TypeOK
    <2>3. /\ UNCHANGED <<closed, complete, instance, file, locals>>
          /\ handle' = [handle EXCEPT ![h] = "closed"]
          /\ handle[h] \in {"open", "closed"}
      BY <1>1 DEF CloseHandle
    <2>4. TypeOK'
      BY <2>2, <2>3 DEF BaseInv, TypeOK, locals
    <2>5. JobsCompile' /\ FilesSynced'
      BY <2>3 DEF BaseInv, TypeOK, JobsCompile, FilesSynced, locals
    <2> QED
      BY <2>4, <2>5 DEF BaseInv
  <1>2. ASSUME NEW h \in Handles, NewModuleEngine(h) PROVE BaseInv'
    <2>1. IdOf[h] \in IDs
      BY CacheAssumption
    <2> QED
      BY <1>2, <2>1
      DEF NewModuleEngine, memVars, locals, BaseInv, TypeOK, JobsCompile, FilesSynced
  <1>3. ASSUME NEW h \in Handles, DropInstance(h) PROVE BaseInv'
    BY <1>3
    DEF DropInstance, memVars, locals, BaseInv, TypeOK, JobsCompile, FilesSynced
  <1>4. ASSUME NEW i \in IDs, Damage(i) PROVE BaseInv'
    BY <1>4
    DEF Damage, memVars, locals, BaseInv, TypeOK, JobsCompile, FilesSynced, Contents
  <1>5. CASE Close
    BY <1>5 DEF Close, locals, BaseInv, TypeOK, JobsCompile, FilesSynced
  <1>6. CASE Restart
    BY <1>6, CacheAssumption
    DEF Restart, Fresh, BaseInv, TypeOK, JobsCompile, FilesSynced, Labels, Contents
  <1>7. CASE UNCHANGED vars
    BY <1>7 DEF vars, memVars, locals, BaseInv, TypeOK, JobsCompile, FilesSynced
  <1> QED
    BY <1>1, <1>2, <1>3, <1>4, <1>5, <1>6, <1>7, CompileModuleBase DEF Next

(* Who compiles has a handle of its own, and a file that is renamed into   *)
(* the cache was written and synced: what the proofs about the entries and *)
(* about the references rest on.                                           *)
THEOREM BaseInvariance == Spec => []BaseInv
  <1>1. BaseInv /\ [Next]_vars => BaseInv'
    BY NextBase
  <1> QED
    BY <1>1, InitBaseInv, PTL DEF Spec

(* The engine, its cache entries and the goroutines have their types: a    *)
(* cache entry is never a half-written file.                               *)
THEOREM CacheTypeCorrect == Spec => []TypeOK
  <1>1. BaseInv => TypeOK
    BY DEF BaseInv
  <1> QED
    BY <1>1, BaseInvariance, PTL

(* The process may end, power lost, at any point of the code that writes   *)
(* an entry: an entry that becomes unreadable was damaged from outside.    *)
THEOREM EntriesWrittenWhole == Spec => WrittenWhole
  <1>1. ASSUME BaseInv, [Next]_vars
        PROVE  [\A i \in IDs : file[i] # "torn" /\ file'[i] = "torn" => Damage(i)]_vars
    <2> SUFFICES ASSUME NEW i \in IDs, file[i] # "torn", file'[i] = "torn"
                 PROVE  Damage(i)
      OBVIOUS
    <2>0. file' # file /\ file \in [IDs -> Contents] /\ file[i] # "unsynced"
      BY <1>1 DEF BaseInv, TypeOK, FilesSynced
    <2>1. ASSUME NEW t \in Threads, CompileModule(t) PROVE FALSE
      <3>1. CASE FileDiscard(t)
        BY <2>0, <3>1 DEF FileDiscard
      <3>2. CASE AddRename(t)
        BY <1>1, <2>0, <3>2 DEF AddRename, BaseInv, FilesSynced, At
      <3>3. file' = file \/ FileDiscard(t) \/ AddRename(t)
        BY <2>1 DEF CompileModule, StartCompile, CheckClosed, FromMemory, FileGet,
           FileGetError, FileDiscardError, FileRead, Compile, CompileError, Attach,
           Publish, AddCreate, AddCopy, AddSync, Write, AddError
      <3> QED
        BY <2>0, <3>1, <3>2, <3>3
    <2>2. ASSUME NEW h \in Handles, CloseHandle(h) \/ NewModuleEngine(h) \/ DropInstance(h)
          PROVE  FALSE
      BY <2>0, <2>2 DEF CloseHandle, NewModuleEngine, DropInstance
    <2>3. ASSUME NEW j \in IDs, Damage(j) PROVE Damage(i)
      BY <2>0, <2>3 DEF Damage
    <2>4. CASE Close
      BY <2>0, <2>4 DEF Close
    <2>5. CASE Restart
      BY <2>0, <2>5 DEF Restart
    <2>6. CASE UNCHANGED vars
      BY <2>0, <2>6 DEF vars
    <2> QED
      BY <1>1, <2>1, <2>2, <2>3, <2>4, <2>5, <2>6 DEF Next
  <1> QED
    BY <1>1, BaseInvariance, PTL DEF Spec, WrittenWhole
----------------------------------------------------------------------------
(* References.                                                             *)

Adding == {"create", "copy", "sync", "rename"}

(* Handle h has its reference. *)
Holds(h) ==
    handle[h] = "open" \/ \E t \in Threads : job[t] = h /\ pc[t] \in Adding

(* The handles that hold a reference can be counted. *)
LEMMA HoldersFinite ==
    ASSUME NEW i
    PROVE  /\ IsFiniteSet(Holders(i))
           /\ Cardinality(Holders(i)) \in Nat
  <1>1. Holders(i) \in SUBSET Handles
    BY DEF Holders
  <1>2. IsFiniteSet(Holders(i))
    BY <1>1, CacheAssumption, FS_Subset
  <1> QED
    BY <1>2, FS_CardinalityType

(* Holders in terms of Holds. *)
LEMMA HoldersAre ==
    \A i : Holders(i) = {h \in Handles : IdOf[h] = i /\ Holds(h)}
  BY DEF Holders, Holds, Adding

(* The references stay exact if no handle gains or loses its own. *)
LEMMA SameHolders ==
    ASSUME RefExact, \A h \in Handles : Holds(h)' <=> Holds(h),
           refCount' = refCount, closed' = closed
    PROVE  RefExact'
  <1>1. \A i : Holders(i)' = Holders(i)
    BY DEF Holders, Holds, Adding
  <1> QED
    BY <1>1 DEF RefExact

(* They stay exact if one handle gains its reference and is counted. *)
LEMMA GainedHolder ==
    ASSUME RefExact, ~ closed, closed' = closed,
           NEW g \in Handles, ~ Holds(g), Holds(g)',
           \A h \in Handles \ {g} : Holds(h)' <=> Holds(h),
           refCount \in [IDs -> Nat],
           refCount' = [refCount EXCEPT ![IdOf[g]] = refCount[IdOf[g]] + 1]
    PROVE  RefExact'
  <1> SUFFICES ASSUME NEW i \in IDs
               PROVE  refCount'[i] = Cardinality(Holders(i)')
    BY DEF RefExact
  <1>1. refCount[i] = Cardinality(Holders(i))
    BY DEF RefExact
  <1>2. CASE i = IdOf[g]
    <2>1. Holders(i)' = Holders(i) \cup {g} /\ g \notin Holders(i)
      BY <1>2 DEF Holders, Holds, Adding
    <2>2. Cardinality(Holders(i) \cup {g}) = Cardinality(Holders(i)) + 1
      BY <2>1, HoldersFinite, FS_AddElement
    <2>3. refCount'[i] = refCount[i] + 1
      BY <1>2
    <2> QED
      BY <1>1, <2>1, <2>2, <2>3
  <1>3. CASE i # IdOf[g]
    <2>1. Holders(i)' = Holders(i)
      BY <1>3 DEF Holders, Holds, Adding
    <2>2. refCount'[i] = refCount[i]
      BY <1>3
    <2> QED
      BY <1>1, <2>1, <2>2
  <1> QED
    BY <1>2, <1>3

(* They stay exact if one handle gives its reference back. *)
LEMMA LostHolder ==
    ASSUME RefExact, ~ closed, closed' = closed,
           NEW g \in Handles, Holds(g), ~ Holds(g)',
           \A h \in Handles \ {g} : Holds(h)' <=> Holds(h),
           refCount \in [IDs -> Nat],
           refCount[IdOf[g]] > 0 =>
              refCount' = [refCount EXCEPT ![IdOf[g]] = refCount[IdOf[g]] - 1]
    PROVE  RefExact'
  <1>0. IdOf[g] \in IDs /\ refCount[IdOf[g]] = Cardinality(Holders(IdOf[g]))
    BY CacheAssumption DEF RefExact
  <1>1. g \in Holders(IdOf[g])
    BY DEF Holders, Holds, Adding
  <1>2. Cardinality(Holders(IdOf[g])) > 0
    BY <1>1, HoldersFinite, FS_EmptySet
  <1>3. refCount' = [refCount EXCEPT ![IdOf[g]] = refCount[IdOf[g]] - 1]
    BY <1>0, <1>2
  <1> SUFFICES ASSUME NEW i \in IDs
               PROVE  refCount'[i] = Cardinality(Holders(i)')
    BY DEF RefExact
  <1>4. refCount[i] = Cardinality(Holders(i))
    BY DEF RefExact
  <1>5. CASE i = IdOf[g]
    <2>1. Holders(i)' = Holders(i) \ {g}
      BY <1>5 DEF Holders, Holds, Adding
    <2>2. Cardinality(Holders(i) \ {g}) = Cardinality(Holders(i)) - 1
      BY <1>1, <1>5, HoldersFinite, FS_RemoveElement
    <2>3. refCount'[i] = refCount[i] - 1
      BY <1>3, <1>5
    <2> QED
      BY <1>4, <2>1, <2>2, <2>3
  <1>6. CASE i # IdOf[g]
    <2>1. Holders(i)' = Holders(i)
      BY <1>6 DEF Holders, Holds, Adding
    <2>2. refCount'[i] = refCount[i]
      BY <1>3, <1>6
    <2> QED
      BY <1>4, <2>1, <2>2
  <1> QED
    BY <1>5, <1>6

(* A closed engine has no references, and gets none. *)
LEMMA ClosedRefs ==
    ASSUME closed', \A i \in IDs : refCount'[i] = 0
    PROVE  RefExact'
  BY DEF RefExact

(* A goroutine that has not published holds nothing for its handle. *)
LEMMA NotHeldYet ==
    ASSUME BaseInv, NEW t \in Threads, pc[t] \notin Adding \cup {"idle"}
    PROVE  ~ Holds(job[t])
  BY JobKnown, CacheAssumption DEF Holds, Adding, BaseInv, JobsCompile, TypeOK

(* CompileModule returns: only its own handle changes, and is open now or  *)
(* is unused again.                                                        *)
LEMMA ReturnHolds ==
    ASSUME BaseInv, NEW t \in Threads, pc[t] # "idle", NEW result, Return(t, result),
           NEW g, g = job[t]
    PROVE  /\ \A h \in Handles \ {g} : Holds(h)' <=> Holds(h)
           /\ Holds(g)' <=> result = "open"
  <1>0. g \in Handles /\ NoHandle \notin Handles
    BY JobKnown, CacheAssumption
  <1>1. /\ handle' = [handle EXCEPT ![g] = result]
        /\ pc' = [pc EXCEPT ![t] = "idle"]
        /\ job' = [job EXCEPT ![t] = NoHandle]
        /\ handle \in [Handles -> {"none", "compiling", "open", "closed"}]
        /\ pc \in [Threads -> Labels]
        /\ job \in [Threads -> Handles \cup {NoHandle}]
    BY DEF Return, Goto, BaseInv, TypeOK
  <1>2. ASSUME NEW h \in Handles \ {g} PROVE Holds(h)' <=> Holds(h)
    BY <1>0, <1>1 DEF Holds, Adding
  <1>3. ASSUME NEW u \in Threads, job'[u] = g PROVE FALSE
    BY <1>0, <1>1, <1>3 DEF BaseInv, JobsCompile
  <1>4. Holds(g)' <=> result = "open"
    BY <1>0, <1>1, <1>3 DEF Holds
  <1> QED
    BY <1>2, <1>4

(* A step within CompileModule that publishes nothing. *)
LEMMA GotoHolds ==
    ASSUME BaseInv, NEW t \in Threads, NEW l, Goto(t, l), UNCHANGED <<handle, job>>,
           pc[t] \in Adding <=> l \in Adding
    PROVE  \A h \in Handles : Holds(h)' <=> Holds(h)
  BY DEF Goto, Holds, BaseInv, TypeOK

(* CompileModule counts a reference exactly when a handle gets one. *)
LEMMA CompileModuleRef ==
    ASSUME BaseInv, RefExact, NEW t \in Threads, CompileModule(t)
    PROVE  RefExact'
  <1> USE DEF At
  <1>1. ASSUME NEW h \in Handles, StartCompile(t, h) PROVE RefExact'
    <2>1. job[t] = NoHandle /\ NoHandle \notin Handles
      BY <1>1, CacheAssumption DEF StartCompile, BaseInv, JobsCompile
    <2>2. \A g \in Handles : Holds(g)' <=> Holds(g)
      BY <1>1, <2>1 DEF StartCompile, Goto, Holds, Adding, BaseInv, TypeOK
    <2> QED
      BY <1>1, <2>2, SameHolders DEF StartCompile, memVars
  <1>2. ASSUME pc[t] \notin Adding \cup {"idle"}, Return(t, "none"),
               refCount' = refCount, closed' = closed
        PROVE  RefExact'
    <2>1. PICK g : g = job[t]
      OBVIOUS
    <2>2. \A h \in Handles : Holds(h)' <=> Holds(h)
      BY <1>2, <2>1, NotHeldYet, ReturnHolds DEF Adding
    <2> QED
      BY <1>2, <2>2, SameHolders
  <1>3. ASSUME NEW l, Goto(t, l), UNCHANGED <<handle, job>>,
               pc[t] \in Adding <=> l \in Adding,
               refCount' = refCount, closed' = closed
        PROVE  RefExact'
    BY <1>3, GotoHolds, SameHolders
  <1>4. ASSUME pc[t] \in Adding, Return(t, "open"),
               refCount' = refCount, closed' = closed
        PROVE  RefExact'
    <2>1. PICK g : g = job[t]
      OBVIOUS
    <2>2. Holds(g)
      BY <1>4, <2>1 DEF Holds
    <2>3. \A h \in Handles : Holds(h)' <=> Holds(h)
      BY <1>4, <2>1, <2>2, ReturnHolds DEF Adding
    <2> QED
      BY <1>4, <2>3, SameHolders
  <1>5. CASE CheckClosed(t)
    <2>1. CASE closed
      BY <1>2, <1>5, <2>1 DEF CheckClosed, memVars, Adding
    <2>2. CASE ~ closed
      BY <1>3, <1>5, <2>2 DEF CheckClosed, memVars, Adding
    <2> QED
      BY <2>1, <2>2
  <1>6. CASE FromMemory(t)
    <2>1. CASE refCount[Id(t)] > 0
      <3>1. PICK g : g = job[t]
        OBVIOUS
      <3>2. g \in Handles /\ Id(t) \in IDs /\ Id(t) = IdOf[g] /\ pc[t] = "memory"
        BY <1>6, <3>1, JobKnown DEF FromMemory, Id
      <3>3. ~ closed
        BY <2>1, <3>2 DEF RefExact
      <3>4. /\ refCount' = [refCount EXCEPT ![IdOf[g]] = refCount[IdOf[g]] + 1]
            /\ closed' = closed /\ Return(t, "open")
        BY <1>6, <2>1, <3>2 DEF FromMemory
      <3>5. ~ Holds(g)
        BY <3>1, <3>2, NotHeldYet DEF Adding
      <3>6. Holds(g)' /\ \A h \in Handles \ {g} : Holds(h)' <=> Holds(h)
        BY <3>1, <3>2, <3>4, ReturnHolds
      <3>7. refCount \in [IDs -> Nat]
        BY DEF BaseInv, TypeOK
      <3> QED
        BY <3>2, <3>3, <3>4, <3>5, <3>6, <3>7, GainedHolder
    <2>2. CASE ~ (refCount[Id(t)] > 0)
      <3>1. PICK l \in {"compile", "file"} : Goto(t, l)
        BY <1>6, <2>2 DEF FromMemory
      <3> QED
        BY <1>3, <1>6, <2>2, <3>1 DEF FromMemory, Adding
    <2> QED
      BY <2>1, <2>2
  <1>7. CASE FileGet(t)
    <2>1. PICK l \in {"compile", "read"} : Goto(t, l)
      BY <1>7 DEF FileGet
    <2> QED
      BY <1>3, <1>7, <2>1 DEF FileGet, memVars, Adding
  <1>8. CASE FileGetError(t) \/ CompileError(t)
    BY <1>2, <1>8 DEF FileGetError, CompileError, memVars, Adding
  <1>9. CASE FileDiscard(t)
    BY <1>3, <1>9 DEF FileDiscard, memVars, Adding
  <1>10. CASE FileDiscardError(t)
    <2>1. CASE fd[t] = "stale"
      BY <1>2, <1>10, <2>1 DEF FileDiscardError, memVars, Adding
    <2>2. CASE fd[t] # "stale"
      BY <1>3, <1>10, <2>2 DEF FileDiscardError, memVars, Adding
    <2> QED
      BY <2>1, <2>2
  <1>11. ASSUME NEW a \in Addrs \cup {NoAddr}, FileRead(t, a) \/ Compile(t, a)
         PROVE  RefExact'
    <2>1. PICK l \in {"attach", "discard"} : Goto(t, l)
      BY <1>11 DEF FileRead, Compile
    <2> QED
      BY <1>3, <1>11, <2>1 DEF FileRead, Compile, Adding
  <1>12. CASE Attach(t)
    <2>1. PICK l \in {"panicked", "publish"} : Goto(t, l)
      BY <1>12 DEF Attach
    <2> QED
      BY <1>3, <1>12, <2>1 DEF Attach, Adding
  <1>13. CASE Publish(t)
    <2>1. PICK g : g = job[t]
      OBVIOUS
    <2>2. g \in Handles /\ Id(t) \in IDs /\ Id(t) = IdOf[g] /\ pc[t] = "publish"
      BY <1>13, <2>1, JobKnown DEF Publish, Id
    <2>3. closed' = closed /\ addCompiledModuleToMemory(IdOf[g], code[t])
      BY <1>13, <2>2 DEF Publish
    <2>4. refCount \in [IDs -> Nat] /\ pc \in [Threads -> Labels]
          /\ job \in [Threads -> Handles \cup {NoHandle}]
      BY DEF BaseInv, TypeOK
    <2>5. CASE closed
      <3>1. refCount' = refCount
        BY <2>3, <2>5 DEF addCompiledModuleToMemory
      <3> QED
        BY <2>3, <2>5, <3>1 DEF RefExact
    <2>6. CASE ~ closed
      <3>1. refCount' = [refCount EXCEPT ![IdOf[g]] = refCount[IdOf[g]] + 1]
        <4>1. CASE refCount[IdOf[g]] > 0
          BY <2>3, <2>6, <4>1 DEF addCompiledModuleToMemory
        <4>2. CASE ~ (refCount[IdOf[g]] > 0)
          <5>1. refCount' = [refCount EXCEPT ![IdOf[g]] = 1]
            BY <2>3, <2>6, <4>2 DEF addCompiledModuleToMemory
          <5>2. refCount[IdOf[g]] = 0
            BY <2>2, <2>4, <4>2
          <5> QED
            BY <5>1, <5>2
        <4> QED
          BY <4>1, <4>2
      <3>2. ~ Holds(g)
        BY <2>1, <2>2, NotHeldYet DEF Adding
      <3>3. Holds(g)' /\ \A h \in Handles \ {g} : Holds(h)' <=> Holds(h)
        <4>1. CASE Return(t, "open")
          BY <2>1, <2>2, <4>1, ReturnHolds
        <4>2. CASE Goto(t, "create") /\ UNCHANGED <<handle, job>>
          BY <2>1, <2>2, <2>4, <4>2 DEF Goto, Holds, Adding
        <4> QED
          BY <1>13, <4>1, <4>2 DEF Publish
      <3> QED
        BY <2>2, <2>3, <2>4, <2>6, <3>1, <3>2, <3>3, GainedHolder
    <2> QED
      BY <2>5, <2>6
  <1>14. CASE AddCreate(t) \/ AddCopy(t) \/ AddSync(t)
    BY <1>3, <1>14 DEF AddCreate, AddCopy, AddSync, Write, memVars, Adding
  <1>15. CASE AddRename(t) \/ AddError(t)
    BY <1>4, <1>15 DEF AddRename, AddError, memVars, Adding
  <1> QED
    BY <1>1, <1>5, <1>6, <1>7, <1>8, <1>9, <1>10, <1>11, <1>12, <1>13, <1>14,
       <1>15 DEF CompileModule

(* Every step keeps the reference counts exact. *)
LEMMA NextRef ==
    ASSUME BaseInv, RefExact, [Next]_vars
    PROVE  RefExact'
  <1>1. ASSUME NEW g \in Handles, CloseHandle(g) PROVE RefExact'
    <2>0. /\ handle \in [Handles -> {"none", "compiling", "open", "closed"}]
          /\ refCount \in [IDs -> Nat] /\ IdOf[g] \in IDs
      BY CacheAssumption DEF BaseInv, TypeOK
    <2>1. /\ handle' = [handle EXCEPT ![g] = "closed"]
          /\ closed' = closed /\ UNCHANGED <<pc, job>>
      BY <1>1 DEF CloseHandle, locals
    <2>2. CASE handle[g] = "closed"
      <3>1. refCount' = refCount /\ handle' = handle
        BY <1>1, <2>0, <2>1, <2>2 DEF CloseHandle
      <3>2. \A h \in Handles : Holds(h)' <=> Holds(h)
        BY <2>1, <3>1 DEF Holds
      <3> QED
        BY <2>1, <3>1, <3>2, SameHolders
    <2>3. CASE handle[g] = "open"
      <3>1. DeleteCompiledModule(IdOf[g])
        BY <1>1, <2>3 DEF CloseHandle
      <3>2. CASE closed
        <4>1. \A i \in IDs : refCount[i] = 0
          BY <3>2 DEF RefExact
        <4>2. \A i \in IDs : refCount'[i] = 0
          BY <2>0, <3>1, <4>1 DEF DeleteCompiledModule
        <4> QED
          BY <2>1, <3>2, <4>2, ClosedRefs
      <3>3. CASE ~ closed
        <4>1. Holds(g) /\ ~ Holds(g)'
          BY <2>0, <2>1, <2>3 DEF Holds, BaseInv, JobsCompile
        <4>2. \A h \in Handles \ {g} : Holds(h)' <=> Holds(h)
          BY <2>0, <2>1 DEF Holds
        <4>3. ASSUME refCount[IdOf[g]] > 0
              PROVE  refCount' = [refCount EXCEPT ![IdOf[g]] = refCount[IdOf[g]] - 1]
          <5>1. CASE refCount[IdOf[g]] = 1
            BY <3>1, <5>1 DEF DeleteCompiledModule
          <5>2. CASE refCount[IdOf[g]] # 1
            BY <2>0, <3>1, <4>3, <5>2 DEF DeleteCompiledModule
          <5> QED
            BY <5>1, <5>2
        <4> QED
          BY <2>0, <2>1, <3>3, <4>1, <4>2, <4>3, LostHolder
      <3> QED
        BY <3>2, <3>3
    <2> QED
      BY <1>1, <2>2, <2>3 DEF CloseHandle
  <1>2. ASSUME UNCHANGED <<handle, job, pc, refCount, closed>> PROVE RefExact'
    <2>1. \A h \in Handles : Holds(h)' <=> Holds(h)
      BY <1>2 DEF Holds
    <2> QED
      BY <1>2, <2>1, SameHolders
  <1>3. ASSUME NEW h \in Handles, NewModuleEngine(h) \/ DropInstance(h) PROVE RefExact'
    BY <1>2, <1>3 DEF NewModuleEngine, DropInstance, memVars, locals
  <1>4. ASSUME NEW i \in IDs, Damage(i) PROVE RefExact'
    BY <1>2, <1>4 DEF Damage, memVars, locals
  <1>5. CASE Close
    BY <1>5, ClosedRefs DEF Close
  <1>6. CASE Restart
    <2>1. \A i \in IDs : Holders(i)' = {}
      BY <1>6 DEF Restart, Fresh, Holders
    <2> QED
      BY <1>6, <2>1, FS_EmptySet DEF Restart, Fresh, RefExact
  <1>7. CASE UNCHANGED vars
    BY <1>2, <1>7 DEF vars, memVars, locals
  <1> QED
    BY <1>1, <1>3, <1>4, <1>5, <1>6, <1>7, CompileModuleRef DEF Next

(* A new engine counts nothing, and nobody holds anything. *)
LEMMA InitRef == Init => RefExact
  <1> SUFFICES ASSUME Init PROVE RefExact
    OBVIOUS
  <1>1. \A i \in IDs : Holders(i) = {}
    BY DEF Init, Fresh, Holders
  <1> QED
    BY <1>1, FS_EmptySet DEF Init, Fresh, RefExact

(* Whichever goroutines compile the same binary, fail, write cache entries *)
(* or close handles twice, an open engine counts for every module exactly  *)
(* the handles that have their reference, and a closed one counts nothing. *)
THEOREM ReferencesExact == Spec => []RefExact
  <1>1. BaseInv /\ RefExact /\ [Next]_vars => RefExact'
    BY NextRef
  <1> QED
    BY <1>1, InitRef, BaseInvariance, PTL DEF Spec
----------------------------------------------------------------------------
(* The list that stack walks search, and what is in memory.                *)

(* The list is sorted and holds the executables of the map. *)
SortedExact ==
    /\ Increasing(sorted)
    /\ \A a \in Addrs : Occurs(a, sorted) <=> \E i \in IDs : addrOf[i] = a

(* Two modules never have the same executable. *)
OneOwner ==
    \A i, j \in IDs : addrOf[i] = addrOf[j] /\ addrOf[i] # NoAddr => i = j

NoRefNoCode == \A i \in IDs : refCount[i] = 0 => addrOf[i] = NoAddr

(* An executable that is not published yet is the goroutine's own. *)
CodeOwned ==
    \A t \in Threads : pc[t] \in {"attach", "publish"} /\ code[t] # NoAddr =>
        /\ \A i \in IDs : addrOf[i] # code[t]
        /\ \A u \in Threads \ {t} : code[u] # code[t]

(* It is complete before it is published. *)
CodeComplete ==
    \A t \in Threads : pc[t] = "publish" /\ code[t] # NoAddr => code[t] \in complete

MemInv ==
    /\ SortedExact /\ OneOwner /\ NoRefNoCode /\ CodeOwned
    /\ CodeComplete /\ PublishedComplete

(* Nothing is in memory. *)
NothingInMemory == (\A i \in IDs : addrOf[i] = NoAddr) /\ sorted = <<>>

(* With nothing in memory there is nothing to get wrong: after             *)
(* engine.Close or a restart.                                              *)
LEMMA EmptyMemory ==
    NothingInMemory => SortedExact /\ OneOwner /\ NoRefNoCode /\ PublishedComplete
  <1> SUFFICES ASSUME NothingInMemory
               PROVE  SortedExact /\ OneOwner /\ NoRefNoCode /\ PublishedComplete
    OBVIOUS
  <1> USE DEF NothingInMemory
  <1>1. Len(sorted) = 0
    OBVIOUS
  <1>2. Increasing(sorted)
    BY <1>1 DEF Increasing
  <1>3. \A a : ~ Occurs(a, sorted)
    BY <1>1 DEF Occurs
  <1> QED
    BY <1>2, <1>3, CacheAssumption
    DEF SortedExact, OneOwner, NoRefNoCode, PublishedComplete

(* The same of the next state. *)
LEMMA EmptyMemoryNext ==
    (NothingInMemory => SortedExact /\ OneOwner /\ NoRefNoCode /\ PublishedComplete)'
  BY EmptyMemory, PTL

(* A new engine satisfies MemInv. *)
LEMMA InitMem == Init => MemInv
  <1> SUFFICES ASSUME Init PROVE MemInv
    OBVIOUS
  <1>1. NothingInMemory
    BY DEF Init, Fresh, NothingInMemory
  <1>2. CodeOwned /\ CodeComplete
    BY DEF Init, Fresh, CodeOwned, CodeComplete
  <1> QED
    BY <1>1, <1>2, EmptyMemory DEF MemInv

(* Steps that leave the memory alone, and a goroutine's own code too.      *)
LEMMA SameMem ==
    ASSUME BaseInv, MemInv, UNCHANGED <<refCount, addrOf, sorted, complete>>,
           \A t \in Threads :
              /\ pc'[t] \in {"attach", "publish"} => pc'[t] = pc[t]
              /\ code'[t] = code[t] \/ code'[t] = NoAddr
    PROVE  MemInv'
  <1>1. SortedExact' /\ OneOwner' /\ NoRefNoCode' /\ PublishedComplete'
    BY DEF MemInv, SortedExact, OneOwner, NoRefNoCode, PublishedComplete
  <1>2. CodeOwned' /\ CodeComplete'
    BY DEF MemInv, CodeOwned, CodeComplete
  <1> QED
    BY <1>1, <1>2 DEF MemInv

(* A CompileModule that returns and leaves the maps alone keeps MemInv. *)
LEMMA ReturnMem ==
    ASSUME BaseInv, MemInv, NEW t \in Threads, NEW result, Return(t, result),
           UNCHANGED <<refCount, addrOf, sorted, complete>>
    PROVE  MemInv'
  BY SameMem DEF Return, Goto, BaseInv, TypeOK

(* A step that leaves maps and code alone keeps MemInv. *)
LEMMA GotoMem ==
    ASSUME BaseInv, MemInv, NEW t \in Threads,
           NEW l \in Labels \ {"attach", "publish"}, Goto(t, l),
           UNCHANGED <<refCount, addrOf, sorted, complete, code>>
    PROVE  MemInv'
  BY SameMem DEF Goto, BaseInv, TypeOK

(* A new executable is nobody else's. *)
LEMMA NewCodeMem ==
    ASSUME BaseInv, MemInv, NEW t \in Threads, NEW a \in Addrs \cup {NoAddr},
           NewCode(t, a), Goto(t, "attach"), UNCHANGED <<refCount, addrOf, sorted>>
    PROVE  MemInv'
  <1>0. a # NoAddr => /\ \A i \in IDs : addrOf[i] # a
                      /\ \A u \in Threads : code[u] # a
    BY DEF NewCode, InUse
  <1>1. /\ code' = [code EXCEPT ![t] = a] /\ complete' = complete \ {a}
        /\ pc' = [pc EXCEPT ![t] = "attach"]
        /\ code \in [Threads -> Addrs \cup {NoAddr}] /\ pc \in [Threads -> Labels]
        /\ complete \in SUBSET Addrs
    BY DEF NewCode, Goto, BaseInv, TypeOK
  <1>2. SortedExact' /\ OneOwner' /\ NoRefNoCode'
    BY DEF MemInv, SortedExact, OneOwner, NoRefNoCode
  <1>3. PublishedComplete'
    BY <1>0, <1>1, CacheAssumption DEF MemInv, PublishedComplete
  <1>4. CodeOwned'
    BY <1>0, <1>1 DEF MemInv, CodeOwned
  <1>5. CodeComplete'
    BY <1>0, <1>1 DEF MemInv, CodeComplete
  <1> QED
    BY <1>2, <1>3, <1>4, <1>5 DEF MemInv

(* addCompiledModuleToMemory, with a complete executable of nobody else.   *)
LEMMA AddMem ==
    ASSUME BaseInv, MemInv, NEW i \in IDs, NEW a \in Addrs \cup {NoAddr},
           a # NoAddr => a \in complete /\ \A j \in IDs : addrOf[j] # a,
           addCompiledModuleToMemory(i, a), complete' = complete
    PROVE  /\ SortedExact' /\ OneOwner' /\ NoRefNoCode' /\ PublishedComplete'
           /\ \A j \in IDs : addrOf'[j] = addrOf[j] \/ addrOf'[j] = a
  <1>0. /\ refCount \in [IDs -> Nat] /\ addrOf \in [IDs -> Addrs \cup {NoAddr}]
        /\ sorted \in Seq(Addrs)
    BY DEF BaseInv, TypeOK
  <1>1. CASE closed \/ refCount[i] > 0
    <2>1. addrOf' = addrOf /\ sorted' = sorted
      BY <1>1 DEF addCompiledModuleToMemory
    <2>2. NoRefNoCode'
      <3>1. CASE closed
        BY <2>1, <3>1 DEF MemInv, NoRefNoCode, addCompiledModuleToMemory
      <3>2. CASE ~ closed
        <4>1. refCount[i] > 0 /\ refCount' = [refCount EXCEPT ![i] = refCount[i] + 1]
          BY <1>1, <3>2 DEF addCompiledModuleToMemory
        <4>2. \A j \in IDs : refCount'[j] = 0 => refCount[j] = 0
          BY <1>0, <4>1
        <4> QED
          BY <2>1, <4>2 DEF MemInv, NoRefNoCode
      <3> QED
        BY <3>1, <3>2
    <2> QED
      BY <2>1, <2>2 DEF MemInv, SortedExact, OneOwner, PublishedComplete
  <1>2. CASE ~ closed /\ ~ (refCount[i] > 0)
    <2>1. /\ refCount' = [refCount EXCEPT ![i] = 1]
          /\ addrOf' = [addrOf EXCEPT ![i] = a]
          /\ sorted' = IF a = NoAddr THEN sorted
                       ELSE addCompiledModuleToSortedList(a)
      BY <1>2 DEF addCompiledModuleToMemory
    <2>2. addrOf[i] = NoAddr
      BY <1>0, <1>2 DEF MemInv, NoRefNoCode
    <2>3. \A j \in IDs : addrOf'[j] = IF j = i THEN a ELSE addrOf[j]
      BY <1>0, <2>1
    <2>4. OneOwner' /\ PublishedComplete' /\ NoRefNoCode'
      BY <1>0, <2>1, <2>3 DEF MemInv, OneOwner, PublishedComplete, NoRefNoCode
    <2>5. SortedExact'
      <3>1. CASE a = NoAddr
        BY <2>1, <2>2, <2>3, <3>1, CacheAssumption DEF MemInv, SortedExact
      <3>2. CASE a # NoAddr
        <4>1. a \in Addrs /\ ~ Occurs(a, sorted) /\ Increasing(sorted)
          BY <3>2 DEF MemInv, SortedExact
        <4>2. sorted' = addCompiledModuleToSortedList(a)
          BY <2>1, <3>2
        <4>3. Increasing(sorted') /\ \A y : Occurs(y, sorted') <=> Occurs(y, sorted) \/ y = a
          BY <1>0, <4>1, <4>2, AddToList
        <4>4. ASSUME NEW b \in Addrs
              PROVE  Occurs(b, sorted') <=> \E j \in IDs : addrOf'[j] = b
          BY <2>2, <2>3, <4>3, CacheAssumption DEF MemInv, SortedExact
        <4> QED
          BY <4>3, <4>4 DEF SortedExact
      <3> QED
        BY <3>1, <3>2
    <2> QED
      BY <2>3, <2>4, <2>5
  <1> QED
    BY <1>1, <1>2

(* DeleteCompiledModule takes a module out of the list with its last       *)
(* reference.                                                              *)
LEMMA DeleteMem ==
    ASSUME BaseInv, MemInv, NEW i \in IDs, DeleteCompiledModule(i),
           UNCHANGED <<complete, pc, code>>
    PROVE  MemInv'
  <1>0. /\ refCount \in [IDs -> Nat] /\ addrOf \in [IDs -> Addrs \cup {NoAddr}]
        /\ sorted \in Seq(Addrs)
    BY DEF BaseInv, TypeOK
  <1>1. CASE refCount[i] # 1
    <2>1. /\ refCount' = [refCount EXCEPT ![i] = IF @ = 0 THEN 0 ELSE @ - 1]
          /\ UNCHANGED <<addrOf, sorted>>
      BY <1>1 DEF DeleteCompiledModule
    <2>2. \A j \in IDs : refCount'[j] = 0 => refCount[j] = 0
      BY <1>0, <1>1, <2>1
    <2> QED
      BY <2>1, <2>2 DEF MemInv, SortedExact, OneOwner, NoRefNoCode, CodeOwned,
         CodeComplete, PublishedComplete
  <1>2. CASE refCount[i] = 1
    <2>1. /\ refCount' = [refCount EXCEPT ![i] = 0]
          /\ addrOf' = [addrOf EXCEPT ![i] = NoAddr]
          /\ sorted' = IF addrOf[i] = NoAddr THEN sorted
                       ELSE deleteCompiledModuleFromSortedList(addrOf[i])
      BY <1>2 DEF DeleteCompiledModule
    <2>2. \A j \in IDs : addrOf'[j] = IF j = i THEN NoAddr ELSE addrOf[j]
      BY <1>0, <2>1
    <2>3. OneOwner' /\ PublishedComplete' /\ NoRefNoCode'
      BY <1>0, <2>1, <2>2 DEF MemInv, OneOwner, PublishedComplete, NoRefNoCode
    <2>4. CodeOwned' /\ CodeComplete'
      BY <2>2 DEF MemInv, CodeOwned, CodeComplete
    <2>5. SortedExact'
      <3>1. CASE addrOf[i] = NoAddr
        BY <2>1, <2>2, <3>1 DEF MemInv, SortedExact
      <3>2. CASE addrOf[i] # NoAddr
        <4>1. PICK a \in Addrs : addrOf[i] = a
          BY <1>0, <3>2
        <4>2. Occurs(a, sorted) /\ Increasing(sorted)
          BY <4>1 DEF MemInv, SortedExact
        <4>3. sorted' = deleteCompiledModuleFromSortedList(a)
          BY <2>1, <3>2, <4>1
        <4>4. Increasing(sorted') /\ \A y : Occurs(y, sorted') <=> Occurs(y, sorted) /\ y # a
          BY <1>0, <4>2, <4>3, DeleteFromList
        <4>5. ASSUME NEW b \in Addrs
              PROVE  Occurs(b, sorted') <=> \E j \in IDs : addrOf'[j] = b
          <5>1. Occurs(b, sorted) <=> \E j \in IDs : addrOf[j] = b
            BY DEF MemInv, SortedExact
          <5>2. \A j \in IDs : addrOf[j] = a => j = i
            BY <3>2, <4>1 DEF MemInv, OneOwner
          <5> QED
            BY <2>2, <4>1, <4>4, <5>1, <5>2, CacheAssumption
        <4> QED
          BY <4>4, <4>5 DEF SortedExact
      <3> QED
        BY <3>1, <3>2
    <2> QED
      BY <2>3, <2>4, <2>5 DEF MemInv
  <1> QED
    BY <1>1, <1>2

(* Each step of CompileModule keeps MemInv. *)
LEMMA CompileModuleMem ==
    ASSUME BaseInv, MemInv, NEW t \in Threads, CompileModule(t)
    PROVE  MemInv'
  <1> USE DEF At
  <1>1. ASSUME NEW h \in Handles, StartCompile(t, h) PROVE MemInv'
    BY <1>1, GotoMem DEF StartCompile, memVars, Labels
  <1>2. CASE CheckClosed(t)
    <2>1. CASE closed
      BY <1>2, <2>1, ReturnMem DEF CheckClosed, memVars
    <2>2. CASE ~ closed
      BY <1>2, <2>2, GotoMem DEF CheckClosed, memVars, Labels
    <2> QED
      BY <2>1, <2>2
  <1>3. CASE FromMemory(t)
    <2>1. CASE refCount[Id(t)] > 0
      <3>0. Id(t) \in IDs /\ refCount \in [IDs -> Nat]
        BY <1>3, JobKnown DEF FromMemory, BaseInv, TypeOK
      <3>1. /\ refCount' = [refCount EXCEPT ![Id(t)] = refCount[Id(t)] + 1]
            /\ UNCHANGED <<addrOf, sorted, complete>> /\ Return(t, "open")
        BY <1>3, <2>1 DEF FromMemory
      <3>2. \A j \in IDs : refCount'[j] = 0 => refCount[j] = 0
        BY <2>1, <3>0, <3>1
      <3>3. \A u \in Threads :
              /\ pc'[u] \in {"attach", "publish"} => pc'[u] = pc[u]
              /\ code'[u] = code[u] \/ code'[u] = NoAddr
        BY <3>1 DEF Return, Goto, BaseInv, TypeOK
      <3>4. SortedExact' /\ OneOwner' /\ NoRefNoCode' /\ PublishedComplete'
        BY <3>1, <3>2 DEF MemInv, SortedExact, OneOwner, NoRefNoCode, PublishedComplete
      <3>5. CodeOwned' /\ CodeComplete'
        BY <3>1, <3>3 DEF MemInv, CodeOwned, CodeComplete
      <3> QED
        BY <3>4, <3>5 DEF MemInv
    <2>2. CASE ~ (refCount[Id(t)] > 0)
      <3>1. PICK l \in {"compile", "file"} : Goto(t, l)
        BY <1>3, <2>2 DEF FromMemory
      <3> QED
        BY <1>3, <2>2, <3>1, GotoMem DEF FromMemory, Labels
    <2> QED
      BY <2>1, <2>2
  <1>4. CASE FileGet(t)
    <2>1. PICK l \in {"compile", "read"} : Goto(t, l)
      BY <1>4 DEF FileGet
    <2> QED
      BY <1>4, <2>1, GotoMem DEF FileGet, memVars, Labels
  <1>5. CASE FileGetError(t) \/ CompileError(t)
    BY <1>5, ReturnMem DEF FileGetError, CompileError, memVars
  <1>6. CASE FileDiscard(t)
    BY <1>6, GotoMem DEF FileDiscard, memVars, Labels
  <1>7. CASE FileDiscardError(t)
    <2>1. CASE fd[t] = "stale"
      BY <1>7, <2>1, ReturnMem DEF FileDiscardError, memVars
    <2>2. CASE fd[t] # "stale"
      BY <1>7, <2>2, GotoMem DEF FileDiscardError, memVars, Labels
    <2> QED
      BY <2>1, <2>2
  <1>8. ASSUME NEW a \in Addrs \cup {NoAddr}, FileRead(t, a) PROVE MemInv'
    <2>1. CASE fd[t] \in {"whole", "unsynced"}
      BY <1>8, <2>1, NewCodeMem DEF FileRead
    <2>2. CASE fd[t] \notin {"whole", "unsynced"}
      BY <1>8, <2>2, GotoMem DEF FileRead, Labels
    <2> QED
      BY <2>1, <2>2
  <1>9. ASSUME NEW a \in Addrs \cup {NoAddr}, Compile(t, a) PROVE MemInv'
    BY <1>9, NewCodeMem DEF Compile
  <1>10. CASE Attach(t)
    <2>0. pc[t] = "attach" /\ UNCHANGED <<refCount, addrOf, sorted, code>>
      BY <1>10 DEF Attach
    <2>1. CASE closed /\ Id(t) \in ListenedIDs
      BY <1>10, <2>1, GotoMem DEF Attach, Labels
    <2>2. CASE ~ (closed /\ Id(t) \in ListenedIDs)
      <3>1. /\ complete' = complete \cup ({code[t]} \ {NoAddr})
            /\ pc' = [pc EXCEPT ![t] = "publish"] /\ pc \in [Threads -> Labels]
        BY <1>10, <2>2 DEF Attach, Goto, BaseInv, TypeOK
      <3>2. SortedExact' /\ OneOwner' /\ NoRefNoCode' /\ PublishedComplete'
        BY <2>0, <3>1
        DEF MemInv, SortedExact, OneOwner, NoRefNoCode, PublishedComplete
      <3>3. CodeOwned' /\ CodeComplete'
        BY <2>0, <3>1 DEF MemInv, CodeOwned, CodeComplete
      <3> QED
        BY <3>2, <3>3 DEF MemInv
    <2> QED
      BY <2>1, <2>2
  <1>11. CASE Publish(t)
    <2>0. /\ pc[t] = "publish" /\ complete' = complete /\ Id(t) \in IDs
          /\ code[t] \in Addrs \cup {NoAddr}
          /\ addCompiledModuleToMemory(Id(t), code[t])
      BY <1>11, JobKnown DEF Publish, BaseInv, TypeOK
    <2>1. code[t] # NoAddr =>
             code[t] \in complete /\ \A j \in IDs : addrOf[j] # code[t]
      BY <2>0 DEF MemInv, CodeOwned, CodeComplete
    <2>2. /\ SortedExact' /\ OneOwner' /\ NoRefNoCode' /\ PublishedComplete'
          /\ \A j \in IDs : addrOf'[j] = addrOf[j] \/ addrOf'[j] = code[t]
      BY <2>0, <2>1, AddMem
    <2>3. \A u \in Threads :
             /\ pc'[u] \in {"attach", "publish"} => u # t /\ pc'[u] = pc[u]
             /\ code'[u] = code[u] \/ code'[u] = NoAddr
      <3>1. CASE Return(t, "open")
        BY <3>1 DEF Return, Goto, BaseInv, TypeOK
      <3>2. CASE Goto(t, "create") /\ UNCHANGED code
        BY <3>2 DEF Goto, BaseInv, TypeOK
      <3> QED
        BY <1>11, <3>1, <3>2 DEF Publish
    <2>4. CodeOwned'
      BY <2>2, <2>3 DEF MemInv, CodeOwned
    <2>5. CodeComplete'
      BY <2>0, <2>3 DEF MemInv, CodeComplete
    <2> QED
      BY <2>2, <2>4, <2>5 DEF MemInv
  <1>12. CASE AddCreate(t) \/ AddCopy(t) \/ AddSync(t)
    BY <1>12, GotoMem DEF AddCreate, AddCopy, AddSync, Write, memVars, Labels
  <1>13. CASE AddRename(t) \/ AddError(t)
    BY <1>13, ReturnMem DEF AddRename, AddError, memVars
  <1> QED
    BY <1>1, <1>2, <1>3, <1>4, <1>5, <1>6, <1>7, <1>8, <1>9, <1>10, <1>11,
       <1>12, <1>13 DEF CompileModule

(* Every step keeps MemInv. *)
LEMMA NextMem ==
    ASSUME BaseInv, MemInv, [Next]_vars
    PROVE  MemInv'
  <1>1. ASSUME NEW h \in Handles, CloseHandle(h) PROVE MemInv'
    <2>1. IdOf[h] \in IDs
      BY CacheAssumption
    <2>2. CASE handle[h] = "open"
      BY <1>1, <2>1, <2>2, DeleteMem DEF CloseHandle, locals
    <2>3. CASE handle[h] # "open"
      BY <1>1, <2>3, SameMem DEF CloseHandle, locals
    <2> QED
      BY <2>2, <2>3
  <1>2. ASSUME NEW h \in Handles, NewModuleEngine(h) \/ DropInstance(h) PROVE MemInv'
    BY <1>2, SameMem DEF NewModuleEngine, DropInstance, memVars, locals
  <1>3. ASSUME NEW i \in IDs, Damage(i) PROVE MemInv'
    BY <1>3, SameMem DEF Damage, memVars, locals
  <1>4. CASE Close
    <2>1. NothingInMemory'
      BY <1>4 DEF Close, NothingInMemory
    <2>2. SortedExact' /\ OneOwner' /\ NoRefNoCode' /\ PublishedComplete'
      BY <2>1, EmptyMemoryNext
    <2>3. CodeOwned' /\ CodeComplete'
      BY <1>4 DEF Close, locals, MemInv, CodeOwned, CodeComplete
    <2> QED
      BY <2>2, <2>3 DEF MemInv
  <1>5. CASE Restart
    <2>1. NothingInMemory'
      BY <1>5 DEF Restart, Fresh, NothingInMemory
    <2>2. SortedExact' /\ OneOwner' /\ NoRefNoCode' /\ PublishedComplete'
      BY <2>1, EmptyMemoryNext
    <2>3. CodeOwned' /\ CodeComplete'
      BY <1>5 DEF Restart, Fresh, CodeOwned, CodeComplete
    <2> QED
      BY <2>2, <2>3 DEF MemInv
  <1>6. CASE UNCHANGED vars
    BY <1>6, SameMem DEF vars, memVars, locals
  <1> QED
    BY <1>1, <1>2, <1>3, <1>4, <1>5, <1>6, CompileModuleMem DEF Next

(* The sorted address list, the compiled modules and the references agree  *)
(* between any two critical sections of the engine's mutex.                *)
THEOREM MemInvariance == Spec => []MemInv
  <1>1. BaseInv /\ MemInv /\ [Next]_vars => MemInv'
    BY NextMem
  <1> QED
    BY <1>1, InitMem, BaseInvariance, PTL DEF Spec

(* After any order of additions and deletions, by any goroutines, a stack  *)
(* walk finds every compiled module in memory by the addresses of its code *)
(* and nothing else.                                                       *)
THEOREM StackWalksFind == Spec => []LookupExact
  <1>1. BaseInv /\ MemInv => LookupExact
    BY LookupFinds DEF BaseInv, TypeOK, MemInv, SortedExact, LookupExact
  <1> QED
    BY <1>1, BaseInvariance, MemInvariance, PTL

(* What a goroutine can find in memory has its preambles, listeners and    *)
(* trampolines, though they are attached without the engine's mutex.       *)
THEOREM FoundIsComplete == Spec => []PublishedComplete
  <1>1. MemInv => PublishedComplete
    BY DEF MemInv
  <1> QED
    BY <1>1, MemInvariance, PTL
----------------------------------------------------------------------------
(* Compilations that Close overtakes.                                      *)

(* A compilation panics only when the engine is closed and its module has  *)
(* function listeners: getListenerTrampolineForType is the one use of      *)
(* engine.sharedFunctions after CompileModule's check.                     *)
PanicsOnlyListened ==
    \A t \in Threads : At(t, "panicked") => closed /\ Id(t) \in ListenedIDs

(* Every step of CompileModule keeps PanicsOnlyListened: Attach alone gets *)
(* there, and nothing leads on.                                            *)
LEMMA CompileModulePanics ==
    ASSUME BaseInv, PanicsOnlyListened, NEW t \in Threads, CompileModule(t)
    PROVE  PanicsOnlyListened'
  <1> USE DEF At
  <1>0. pc \in [Threads -> Labels] /\ job \in [Threads -> Handles \cup {NoHandle}]
    BY DEF BaseInv, TypeOK
  <1>1. closed' = closed
    BY DEF CompileModule, StartCompile, CheckClosed, FromMemory, FileGet, FileGetError,
       FileDiscard, FileDiscardError, FileRead, Compile, CompileError, Attach, Publish,
       AddCreate, AddCopy, AddSync, Write, AddRename, AddError, memVars
  <1>2. \A u \in Threads : u # t => pc'[u] = pc[u] /\ job'[u] = job[u]
    BY <1>0 DEF CompileModule, StartCompile, CheckClosed, FromMemory, FileGet, FileGetError,
       FileDiscard, FileDiscardError, FileRead, Compile, CompileError, Attach, Publish,
       AddCreate, AddCopy, AddSync, Write, AddRename, AddError, Return, Goto
  <1>3. pc'[t] # "panicked" \/ (closed /\ Id(t) \in ListenedIDs /\ job' = job)
    <2>1. CASE Attach(t)
      BY <1>0, <2>1 DEF Attach, Goto
    <2>2. \A h \in Handles : StartCompile(t, h) => pc'[t] = "check"
      BY <1>0 DEF StartCompile, Goto
    <2>3. \A a \in Addrs \cup {NoAddr} :
             FileRead(t, a) \/ Compile(t, a) => pc'[t] \in {"attach", "discard"}
      BY <1>0 DEF FileRead, Compile, Goto
    <2>4. CASE Publish(t)
      BY <1>0, <2>4 DEF Publish, Return, Goto
    <2> QED
      BY <1>0, <2>1, <2>2, <2>3, <2>4 DEF CompileModule, CheckClosed, FromMemory,
         FileGet, FileGetError, FileDiscard, FileDiscardError, CompileError,
         AddCreate, AddCopy, AddSync, Write, AddRename, AddError, Return, Goto
  <1> QED
    BY <1>1, <1>2, <1>3 DEF PanicsOnlyListened, Id

(* Whatever the interleaving of compilations and Close, the nil pointer of *)
(* a closed engine is reached by compilations with function listeners      *)
(* only.                                                                   *)
THEOREM PanicNeedsListener == Spec => []PanicsOnlyListened
  <1>1. Init => PanicsOnlyListened
    BY DEF Init, Fresh, PanicsOnlyListened, At
  <1>2. BaseInv /\ PanicsOnlyListened /\ [Next]_vars => PanicsOnlyListened'
    <2> SUFFICES ASSUME BaseInv, PanicsOnlyListened, [Next]_vars
                 PROVE  PanicsOnlyListened'
      OBVIOUS
    <2>1. CASE closed' = closed /\ pc' = pc /\ job' = job
      BY <2>1 DEF PanicsOnlyListened, At, Id
    <2>2. CASE Close
      BY <2>2 DEF Close, locals, PanicsOnlyListened, At, Id
    <2>3. CASE Restart
      BY <2>3 DEF Restart, Fresh, PanicsOnlyListened, At
    <2> QED
      BY <2>1, <2>2, <2>3, CompileModulePanics
      DEF Next, CloseHandle, NewModuleEngine, DropInstance, Damage, memVars, locals, vars
  <1> QED
    BY <1>1, <1>2, BaseInvariance, PTL DEF Spec

(* Without function listeners a compilation that Close overtakes ends as   *)
(* C41 of the audit asks, though its code is compiled and its preambles    *)
(* are attached after the engine is closed.                                *)
THEOREM UnlistenedNeverPanics ==
    ASSUME \A h \in Handles : IdOf[h] \notin ListenedIDs
    PROVE  Spec => []CompileNeverPanics
  <1>1. BaseInv /\ PanicsOnlyListened => CompileNeverPanics
    BY JobKnown DEF PanicsOnlyListened, CompileNeverPanics, Id, At
  <1> QED
    BY <1>1, BaseInvariance, PanicNeedsListener, PTL
=============================================================================
