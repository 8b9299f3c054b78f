--------------------------- MODULE WasiFilesProofs ---------------------------
(***************************************************************************)
(* Proofs about Descriptors, DirentScan and WasiFiles.  First, for masks   *)
(* of any width, any number of files and any guest: the table of bit masks *)
(* and items is the map from descriptors to files that FDMap promises,     *)
(* every open file has one descriptor, and a descriptor keeps the file it  *)
(* denotes.  Then what a guest reads of a directory.                       *)
(*                                                                         *)
(* A table t stands for the function FdsOf(t); the first lemmas show what  *)
(* each operation of the table does to it.  FdInv is inductive: the table  *)
(* is well-formed, and FdsOf is injective onto the files in use.           *)
(***************************************************************************)
EXTENDS WasiFiles, SequenceLemmas, FiniteSetTheorems

USE DescriptorsAssumption

Bits == 0 .. MaskBits - 1

(* As many items as the masks have bits. *)
IsTable(t) ==
    /\ t = [masks |-> t.masks, items |-> t.items]
    /\ t.masks \in Seq(SUBSET Bits)
    /\ t.items \in Seq(Files \cup {NoFile})
    /\ Len(t.items) = Len(t.masks) * MaskBits

(* The descriptors of a table that are in use, and what they denote. *)
UsedOf(t) == {k \in 0 .. Len(t.masks) * MaskBits - 1 :
                  k % MaskBits \in t.masks[k \div MaskBits + 1]}

FdsOf(t) == [k \in UsedOf(t) |-> t.items[k + 1]]

(* A map with k denoting f, and without k. *)
Plus(F, k, f) == [n \in DOMAIN F \cup {k} |-> IF n = k THEN f ELSE F[n]]
Minus(F, k) == [n \in DOMAIN F \ {k} |-> F[n]]
----------------------------------------------------------------------------
(* Which bit of which mask a descriptor is.                                *)

(* A descriptor is its word times the bits of a word, plus its bit. *)
LEMMA DivMod ==
    ASSUME NEW k \in Nat
    PROVE  /\ k \div MaskBits \in Nat /\ k % MaskBits \in Bits
           /\ k = (k \div MaskBits) * MaskBits + (k % MaskBits)
  BY DEF Bits

(* Word and bit of a descriptor are unique. *)
LEMMA DivModUnique ==
    ASSUME NEW i \in Nat, NEW b \in Bits
    PROVE  /\ i * MaskBits + b \in Nat
           /\ (i * MaskBits + b) \div MaskBits = i
           /\ (i * MaskBits + b) % MaskBits = b
  BY DEF Bits

(* The word of a descriptor exists if and only if the descriptor is below  *)
(* the capacity.                                                           *)
LEMMA DivBelow ==
    ASSUME NEW k \in Nat, NEW n \in Nat
    PROVE  k \div MaskBits < n <=> k < n * MaskBits
  OBVIOUS

(* Two descriptors are the same bit of the same mask only if equal. *)
LEMMA DivModInjective ==
    ASSUME NEW k \in Nat, NEW l \in Nat,
           k \div MaskBits = l \div MaskBits, k % MaskBits = l % MaskBits
    PROVE  k = l
  BY DivMod

(* A number below the capacity of a table has a word and an item. *)
LEMMA MaskOf ==
    ASSUME NEW t, IsTable(t), NEW k \in 0 .. Len(t.masks) * MaskBits - 1
    PROVE  /\ k \in Nat /\ Len(t.masks) \in Nat /\ k \div MaskBits + 1 \in 1 .. Len(t.masks)
           /\ t.masks[k \div MaskBits + 1] \in SUBSET Bits
           /\ k + 1 \in 1 .. Len(t.items)
           /\ t.items[k + 1] \in Files \cup {NoFile}
  <1>1. Len(t.masks) \in Nat /\ Len(t.masks) * MaskBits \in Nat
    BY DEF IsTable
  <1>2. k \in Nat /\ k < Len(t.masks) * MaskBits
    BY <1>1
  <1>3. k \div MaskBits \in Nat /\ k \div MaskBits < Len(t.masks)
    BY <1>1, <1>2, DivMod, DivBelow
  <1>4. k \div MaskBits + 1 \in 1 .. Len(t.masks)
    BY <1>1, <1>3
  <1>5. k + 1 \in 1 .. Len(t.items)
    BY <1>1, <1>2 DEF IsTable
  <1> QED
    BY <1>1, <1>2, <1>4, <1>5, ElementOfSeq DEF IsTable
----------------------------------------------------------------------------
(* What the operations of the table do to the map it stands for.           *)

(* Concatenation of sequences: its type and length. *)
LEMMA Concatenated ==
    ASSUME NEW S, NEW s \in Seq(S), NEW r \in Seq(S)
    PROVE  s \o r \in Seq(S) /\ Len(s \o r) = Len(s) + Len(r)
  OBVIOUS

(* Concatenation of sequences: its elements. *)
LEMMA ConcatenatedAt ==
    ASSUME NEW S, NEW s \in Seq(S), NEW r \in Seq(S), NEW i \in 1 .. Len(s) + Len(r)
    PROVE  (s \o r)[i] = IF i <= Len(s) THEN s[i] ELSE r[i - Len(s)]
  OBVIOUS

(* Growing adds descriptors that are not in use. *)
LEMMA GrowProperties ==
    ASSUME NEW t, IsTable(t), NEW n \in Nat
    PROVE  /\ IsTable(grow(t, n)) /\ FdsOf(grow(t, n)) = FdsOf(t)
           /\ UsedOf(grow(t, n)) = UsedOf(t)
           /\ Len(grow(t, n).masks) = Len(t.masks) + n
           /\ \A i \in 1 .. Len(t.masks) : grow(t, n).masks[i] = t.masks[i]
           /\ \A i \in Len(t.masks) + 1 .. Len(t.masks) + n : grow(t, n).masks[i] = {}
  <1> DEFINE g == grow(t, n)
             ms == [i \in 1 .. n |-> {}]
             it == [i \in 1 .. n * MaskBits |-> NoFile]
  <1>1. g = [masks |-> t.masks \o ms, items |-> t.items \o it]
    BY DEF grow
  <1>2. n * MaskBits \in Nat /\ Len(t.masks) \in Nat /\ Len(t.masks) * MaskBits \in Nat
    BY DEF IsTable
  <1>3. ms \in Seq(SUBSET Bits) /\ Len(ms) = n /\ \A i \in 1 .. n : ms[i] = {}
    BY DEF Bits
  <1>4. /\ it \in Seq(Files \cup {NoFile}) /\ Len(it) = n * MaskBits
    BY <1>2
  <1> HIDE DEF ms, it
  <1>5. /\ g.masks \in Seq(SUBSET Bits) /\ Len(g.masks) = Len(t.masks) + n
        /\ \A i \in 1 .. Len(t.masks) : g.masks[i] = t.masks[i]
        /\ \A i \in Len(t.masks) + 1 .. Len(t.masks) + n : g.masks[i] = {}
    <2>1. g.masks = t.masks \o ms /\ t.masks \in Seq(SUBSET Bits)
      BY <1>1 DEF IsTable
    <2> HIDE DEF g
    <2>2. g.masks \in Seq(SUBSET Bits) /\ Len(g.masks) = Len(t.masks) + n
      BY ONLY <1>3, <2>1, Concatenated
    <2>3. \A i \in 1 .. Len(t.masks) + n : g.masks[i] =
             IF i <= Len(t.masks) THEN t.masks[i] ELSE ms[i - Len(t.masks)]
      <3> SUFFICES ASSUME NEW i \in 1 .. Len(t.masks) + Len(ms)
                   PROVE  (t.masks \o ms)[i] =
                             IF i <= Len(t.masks) THEN t.masks[i] ELSE ms[i - Len(t.masks)]
        BY ONLY <1>3, <2>1
      <3>1. t.masks \in Seq(SUBSET Bits) /\ ms \in Seq(SUBSET Bits)
        BY ONLY <1>3, <2>1
      <3> QED
        BY ONLY i \in 1 .. Len(t.masks) + Len(ms), <3>1, ConcatenatedAt
    <2>4. \A i \in 1 .. Len(t.masks) : g.masks[i] = t.masks[i]
      BY ONLY <1>2, <2>3, n \in Nat
    <2>5. \A i \in Len(t.masks) + 1 .. Len(t.masks) + n :
             i \in 1 .. Len(t.masks) + n /\ ~ (i <= Len(t.masks)) /\ i - Len(t.masks) \in 1 .. n
      BY ONLY <1>2, n \in Nat
    <2> QED
      BY <1>3, <2>2, <2>3, <2>4, <2>5
  <1>6. /\ g.items \in Seq(Files \cup {NoFile})
        /\ Len(g.items) = Len(t.masks) * MaskBits + n * MaskBits
        /\ \A i \in 1 .. Len(t.items) : g.items[i] = t.items[i]
    <2>1. g.items = t.items \o it /\ t.items \in Seq(Files \cup {NoFile})
          /\ Len(t.items) = Len(t.masks) * MaskBits
      BY <1>1 DEF IsTable
    <2> HIDE DEF g
    <2>2. g.items \in Seq(Files \cup {NoFile}) /\ Len(g.items) = Len(t.items) + Len(it)
      BY ONLY <1>4, <2>1, Concatenated
    <2>3. \A i \in 1 .. Len(t.items) + Len(it) : g.items[i] =
             IF i <= Len(t.items) THEN t.items[i] ELSE it[i - Len(t.items)]
      <3> DEFINE S == Files \cup {NoFile}
                 s == t.items
      <3>1. s \in Seq(S) /\ it \in Seq(S) /\ g.items = s \o it
        BY ONLY <1>4, <2>1
      <3> HIDE DEF S, s
      <3>2. \A i \in 1 .. Len(s) + Len(it) :
               (s \o it)[i] = IF i <= Len(s) THEN s[i] ELSE it[i - Len(s)]
        BY ONLY <3>1, ConcatenatedAt
      <3>3. \A i \in 1 .. Len(s) + Len(it) :
               g.items[i] = IF i <= Len(s) THEN s[i] ELSE it[i - Len(s)]
        BY ONLY <3>1, <3>2
      <3> QED
        BY ONLY <3>3 DEF s
    <2>4. \A a, b \in Nat : \A i \in 1 .. a : i \in 1 .. a + b /\ i <= a
      OBVIOUS
    <2> QED
      BY <1>2, <1>4, <2>1, <2>2, <2>3, <2>4
  <1>7. Len(g.masks) * MaskBits = Len(t.masks) * MaskBits + n * MaskBits
    <2>1. \A a, b \in Nat : (a + b) * MaskBits = a * MaskBits + b * MaskBits
      OBVIOUS
    <2> QED
      BY <1>2, <1>5, <2>1
  <1>8. g = [masks |-> g.masks, items |-> g.items]
    BY <1>1
  <1>9. IsTable(g)
    BY <1>5, <1>6, <1>7, <1>8 DEF IsTable
  <1> HIDE DEF g
  <1>10. ASSUME NEW k PROVE k \in UsedOf(g) <=> k \in UsedOf(t)
    <2>1. ASSUME k \in UsedOf(t) PROVE k \in UsedOf(g)
      <3>1. k \in 0 .. Len(t.masks) * MaskBits - 1 /\ k % MaskBits \in t.masks[k \div MaskBits + 1]
        BY <2>1 DEF UsedOf
      <3>2. k \div MaskBits + 1 \in 1 .. Len(t.masks)
        BY <3>1, MaskOf
      <3>3. k \in 0 .. Len(g.masks) * MaskBits - 1
        <4>1. \A a, b \in Nat : \A x \in 0 .. a - 1 : x \in 0 .. a + b - 1
          OBVIOUS
        <4> QED
          BY ONLY <1>2, <1>7, <3>1, <4>1
      <3> QED
        BY <1>5, <3>1, <3>2, <3>3 DEF UsedOf
    <2>2. ASSUME k \in UsedOf(g) PROVE k \in UsedOf(t)
      <3>1. k \in 0 .. Len(g.masks) * MaskBits - 1 /\ k % MaskBits \in g.masks[k \div MaskBits + 1]
        BY <2>2 DEF UsedOf
      <3>2. k \in Nat /\ k \div MaskBits + 1 \in 1 .. Len(t.masks) + n
        BY <1>5, <1>9, <3>1, MaskOf
      <3>3. k \div MaskBits + 1 \in 1 .. Len(t.masks)
        <4>1. ASSUME k \div MaskBits + 1 \in Len(t.masks) + 1 .. Len(t.masks) + n PROVE FALSE
          BY <1>5, <3>1, <4>1
        <4>2. \A a, b \in Nat : \A x \in 1 .. a + b : x \in 1 .. a \/ x \in a + 1 .. a + b
          OBVIOUS
        <4> QED
          BY <1>2, <3>2, <4>1, <4>2
      <3>4. k < Len(t.masks) * MaskBits
        <4>1. k \div MaskBits \in Nat
          BY <3>2, DivMod
        <4>2. k \div MaskBits < Len(t.masks)
          BY <1>2, <3>3, <4>1
        <4> QED
          BY <1>2, <3>2, <4>2, DivBelow
      <3>5. k \in 0 .. Len(t.masks) * MaskBits - 1
        BY <1>2, <3>2, <3>4
      <3> QED
        BY <1>5, <3>1, <3>3, <3>5 DEF UsedOf
    <2> QED
      BY <2>1, <2>2
  <1>11. UsedOf(g) = UsedOf(t)
    BY <1>10
  <1>12. \A k \in UsedOf(t) : g.items[k + 1] = t.items[k + 1]
    BY <1>6, MaskOf DEF UsedOf
  <1>13. FdsOf(g) = FdsOf(t)
    BY <1>11, <1>12 DEF FdsOf
  <1> QED
    BY <1>5, <1>9, <1>11, <1>13 DEF g

(* Setting a bit and its item maps that descriptor to the file. *)
LEMMA PutProperties ==
    ASSUME NEW t, IsTable(t), NEW k \in 0 .. Len(t.masks) * MaskBits - 1, NEW f \in Files
    PROVE  /\ IsTable(Put(t, k, f)) /\ UsedOf(Put(t, k, f)) = UsedOf(t) \cup {k}
           /\ FdsOf(Put(t, k, f)) = Plus(FdsOf(t), k, f)
  <1> DEFINE p == Put(t, k, f)
             q == k \div MaskBits + 1
             b == k % MaskBits
  <1>1. /\ k \in Nat /\ Len(t.masks) \in Nat /\ q \in 1 .. Len(t.masks)
        /\ t.masks[q] \in SUBSET Bits /\ k + 1 \in 1 .. Len(t.items) /\ b \in Bits
    BY MaskOf, DivMod
  <1>2. /\ p = [masks |-> [t.masks EXCEPT ![q] = @ \cup {b}],
                items |-> [t.items EXCEPT ![k + 1] = f]]
    BY DEF Put
  <1>3. p.masks = [t.masks EXCEPT ![q] = @ \cup {b}] /\ p.items = [t.items EXCEPT ![k + 1] = f]
    BY <1>2
  <1>4. p = [masks |-> p.masks, items |-> p.items]
    BY <1>2
  <1>5. /\ t.masks \in Seq(SUBSET Bits) /\ t.items \in Seq(Files \cup {NoFile})
        /\ Len(t.items) = Len(t.masks) * MaskBits
    BY DEF IsTable
  <1> HIDE DEF p, q, b
  <1>6. /\ p.masks \in Seq(SUBSET Bits) /\ Len(p.masks) = Len(t.masks)
        /\ \A i \in 1 .. Len(t.masks) :
              p.masks[i] = IF i = q THEN t.masks[q] \cup {b} ELSE t.masks[i]
    BY ONLY <1>1, <1>3, <1>5
  <1>7. /\ p.items \in Seq(Files \cup {NoFile}) /\ Len(p.items) = Len(t.items)
        /\ \A i \in 1 .. Len(t.items) : p.items[i] = IF i = k + 1 THEN f ELSE t.items[i]
    BY ONLY <1>1, <1>3, <1>5, f \in Files
  <1>8. IsTable(p)
    BY <1>4, <1>5, <1>6, <1>7 DEF IsTable
  <1>9. UsedOf(p) = UsedOf(t) \cup {k}
    <2> SUFFICES ASSUME NEW n \in 0 .. Len(t.masks) * MaskBits - 1
                 PROVE  n % MaskBits \in p.masks[n \div MaskBits + 1] <=>
                           n % MaskBits \in t.masks[n \div MaskBits + 1] \/ n = k
      BY <1>6 DEF UsedOf
    <2>1. n \in Nat /\ n \div MaskBits + 1 \in 1 .. Len(t.masks) /\ n \div MaskBits \in Nat
          /\ k \div MaskBits \in Nat
      BY <1>1, MaskOf, DivMod
    <2>2. CASE n \div MaskBits # k \div MaskBits
      <3>1. n \div MaskBits + 1 # q /\ n # k
        BY <2>1, <2>2 DEF q
      <3> QED
        BY <1>6, <2>1, <3>1
    <2>3. CASE n \div MaskBits = k \div MaskBits
      <3>1. p.masks[n \div MaskBits + 1] = t.masks[n \div MaskBits + 1] \cup {b}
        BY <1>6, <2>1, <2>3 DEF q
      <3>2. n % MaskBits = b <=> n = k
        BY <1>1, <2>1, <2>3, DivModInjective DEF b
      <3> QED
        BY <3>1, <3>2
    <2> QED
      BY <2>2, <2>3
  <1>10. \A n \in UsedOf(t) \cup {k} : p.items[n + 1] = IF n = k THEN f ELSE FdsOf(t)[n]
    <2> SUFFICES ASSUME NEW n \in UsedOf(t) \cup {k}
                 PROVE  p.items[n + 1] = IF n = k THEN f ELSE FdsOf(t)[n]
      OBVIOUS
    <2>1. n \in 0 .. Len(t.masks) * MaskBits - 1
      BY DEF UsedOf
    <2>2. n \in Nat /\ n + 1 \in 1 .. Len(t.items)
      BY <2>1, MaskOf
    <2>3. p.items[n + 1] = IF n = k THEN f ELSE t.items[n + 1]
      BY <1>1, <1>7, <2>2
    <2> QED
      BY <2>3 DEF FdsOf
  <1>11. FdsOf(p) = Plus(FdsOf(t), k, f)
    BY <1>9, <1>10 DEF FdsOf, Plus
  <1> QED
    BY <1>8, <1>9, <1>11 DEF p

(* Delete takes one descriptor away, if it is in use. *)
LEMMA DeleteProperties ==
    ASSUME NEW t, IsTable(t), NEW k \in Int
    PROVE  /\ IsTable(Delete(t, k)) /\ UsedOf(Delete(t, k)) = UsedOf(t) \ {k}
           /\ FdsOf(Delete(t, k)) = Minus(FdsOf(t), k)
  <1> DEFINE p == Delete(t, k)
             q == k \div MaskBits + 1
             b == k % MaskBits
  <1>0. /\ t.masks \in Seq(SUBSET Bits) /\ t.items \in Seq(Files \cup {NoFile})
        /\ Len(t.items) = Len(t.masks) * MaskBits /\ Len(t.masks) \in Nat
        /\ Len(t.masks) * MaskBits \in Nat
    BY DEF IsTable
  <1>1. CASE k \notin UsedOf(t)
    <2>1. ~ (k >= 0 /\ k \div MaskBits < Len(t.masks) /\ k % MaskBits \in t.masks[k \div MaskBits + 1])
      <3> SUFFICES ASSUME k >= 0, k \div MaskBits < Len(t.masks),
                          k % MaskBits \in t.masks[k \div MaskBits + 1]
                   PROVE  FALSE
        OBVIOUS
      <3>1. k \in Nat
        OBVIOUS
      <3>2. k < Len(t.masks) * MaskBits
        BY <1>0, <3>1, DivBelow
      <3>3. k \in 0 .. Len(t.masks) * MaskBits - 1
        BY <1>0, <3>1, <3>2
      <3> QED
        BY <1>1, <3>3 DEF UsedOf
    <2>2. p = t
      BY <2>1 DEF Delete
    <2>3. UsedOf(t) \ {k} = UsedOf(t)
      BY <1>1
    <2> QED
      BY <2>2, <2>3 DEF FdsOf, Minus
  <1>2. CASE k \in UsedOf(t)
    <2>1. k \in 0 .. Len(t.masks) * MaskBits - 1 /\ b \in t.masks[q]
      BY <1>2 DEF UsedOf
    <2>2. /\ k \in Nat /\ q \in 1 .. Len(t.masks)
          /\ t.masks[q] \in SUBSET Bits /\ k + 1 \in 1 .. Len(t.items) /\ b \in Bits
      BY <2>1, MaskOf, DivMod
    <2>3. k >= 0 /\ k \div MaskBits < Len(t.masks)
      <3>1. k \div MaskBits \in Nat
        BY <2>2, DivMod
      <3> QED
        BY <1>0, <2>2, <3>1
    <2>4. p = [masks |-> [t.masks EXCEPT ![q] = @ \ {b}],
               items |-> [t.items EXCEPT ![k + 1] = NoFile]]
      BY <2>1, <2>3 DEF Delete
    <2>5. p.masks = [t.masks EXCEPT ![q] = @ \ {b}] /\ p.items = [t.items EXCEPT ![k + 1] = NoFile]
      BY <2>4
    <2>6. p = [masks |-> p.masks, items |-> p.items]
      BY <2>4
    <2> HIDE DEF p, q, b
    <2>7. /\ p.masks \in Seq(SUBSET Bits) /\ Len(p.masks) = Len(t.masks)
          /\ \A i \in 1 .. Len(t.masks) :
                p.masks[i] = IF i = q THEN t.masks[q] \ {b} ELSE t.masks[i]
      BY ONLY <1>0, <2>2, <2>5
    <2>8. /\ p.items \in Seq(Files \cup {NoFile}) /\ Len(p.items) = Len(t.items)
          /\ \A i \in 1 .. Len(t.items) : p.items[i] = IF i = k + 1 THEN NoFile ELSE t.items[i]
      BY ONLY <1>0, <2>2, <2>5
    <2>9. IsTable(p)
      BY <1>0, <2>6, <2>7, <2>8 DEF IsTable
    <2>10. UsedOf(p) = UsedOf(t) \ {k}
      <3> SUFFICES ASSUME NEW n \in 0 .. Len(t.masks) * MaskBits - 1
                   PROVE  n % MaskBits \in p.masks[n \div MaskBits + 1] <=>
                             n % MaskBits \in t.masks[n \div MaskBits + 1] /\ n # k
        BY <2>7 DEF UsedOf
      <3>1. n \in Nat /\ n \div MaskBits + 1 \in 1 .. Len(t.masks) /\ n \div MaskBits \in Nat
            /\ k \div MaskBits \in Nat
        BY <2>2, MaskOf, DivMod
      <3>2. CASE n \div MaskBits # k \div MaskBits
        <4>1. n \div MaskBits + 1 # q /\ n # k
          BY <3>1, <3>2 DEF q
        <4> QED
          BY <2>7, <3>1, <4>1
      <3>3. CASE n \div MaskBits = k \div MaskBits
        <4>1. p.masks[n \div MaskBits + 1] = t.masks[n \div MaskBits + 1] \ {b}
          BY <2>7, <3>1, <3>3 DEF q
        <4>2. n % MaskBits = b <=> n = k
          BY <2>2, <3>1, <3>3, DivModInjective DEF b
        <4> QED
          BY <4>1, <4>2
      <3> QED
        BY <3>2, <3>3
    <2>11. \A n \in UsedOf(t) \ {k} : p.items[n + 1] = FdsOf(t)[n]
      <3> SUFFICES ASSUME NEW n \in UsedOf(t) \ {k} PROVE p.items[n + 1] = FdsOf(t)[n]
        OBVIOUS
      <3>1. n \in 0 .. Len(t.masks) * MaskBits - 1
        BY DEF UsedOf
      <3>2. n \in Nat /\ n + 1 \in 1 .. Len(t.items) /\ n + 1 # k + 1
        BY <2>2, <3>1, MaskOf
      <3> QED
        BY <2>8, <3>2 DEF FdsOf
    <2>12. FdsOf(p) = Minus(FdsOf(t), k)
      BY <2>10, <2>11 DEF FdsOf, Minus
    <2> QED
      BY <2>9, <2>10, <2>12 DEF p
  <1> QED
    BY <1>1, <1>2

(* InsertAt, growing the table as needed. *)
LEMMA InsertItemAtProperties ==
    ASSUME NEW t, IsTable(t), NEW f \in Files, NEW k \in Nat
    PROVE  /\ IsTable(InsertItemAt(t, f, k))
           /\ UsedOf(InsertItemAt(t, f, k)) = UsedOf(t) \cup {k}
           /\ FdsOf(InsertItemAt(t, f, k)) = Plus(FdsOf(t), k, f)
  <1> DEFINE diff == k \div MaskBits - Len(t.masks) + 1
             g == IF diff > 0 THEN grow(t, diff) ELSE t
  <1>1. InsertItemAt(t, f, k) = Put(g, k, f)
    BY DEF InsertItemAt
  <1>2. k \div MaskBits \in Nat /\ Len(t.masks) \in Nat
    BY DivMod DEF IsTable
  <1>3. /\ IsTable(g) /\ UsedOf(g) = UsedOf(t) /\ FdsOf(g) = FdsOf(t)
        /\ k \div MaskBits < Len(g.masks)
    <2>1. CASE diff > 0
      <3>1. diff \in Nat
        BY <1>2, <2>1
      <3>2. /\ IsTable(grow(t, diff)) /\ UsedOf(grow(t, diff)) = UsedOf(t)
            /\ FdsOf(grow(t, diff)) = FdsOf(t)
            /\ Len(grow(t, diff).masks) = Len(t.masks) + diff
        BY <3>1, GrowProperties
      <3>3. k \div MaskBits < Len(t.masks) + diff
        BY <1>2
      <3> QED
        BY <2>1, <3>2, <3>3
    <2>2. CASE ~ (diff > 0)
      BY <1>2, <2>2
    <2> QED
      BY <2>1, <2>2
  <1> HIDE DEF g
  <1>4. Len(g.masks) \in Nat /\ Len(g.masks) * MaskBits \in Nat
    BY <1>3 DEF IsTable
  <1>5. k < Len(g.masks) * MaskBits
    BY <1>3, <1>4, DivBelow
  <1>6. k \in 0 .. Len(g.masks) * MaskBits - 1
    BY <1>4, <1>5
  <1>7. /\ IsTable(Put(g, k, f)) /\ UsedOf(Put(g, k, f)) = UsedOf(g) \cup {k}
        /\ FdsOf(Put(g, k, f)) = Plus(FdsOf(g), k, f)
    BY <1>3, <1>6, PutProperties
  <1> QED
    BY <1>1, <1>3, <1>7

(* A mask that is not full has a lowest bit that is not set. *)
LEMMA LowestClearProperties ==
    ASSUME NEW m \in SUBSET Bits, ~ IsFull(m)
    PROVE  /\ LowestClear(m) \in Bits /\ LowestClear(m) \notin m
           /\ \A y \in 0 .. LowestClear(m) - 1 : y \in m
  <1> DEFINE S == {x \in Bits : x \notin m}
  <1>1. m # Bits
    BY DEF IsFull, Bits
  <1>2. Bits \subseteq Nat
    BY DEF Bits
  <1>3. S # {} /\ S \in SUBSET Nat
    BY <1>1, <1>2
  <1>4. PICK x \in S : \A y \in S : x <= y
    BY <1>3, LeastNatural
  <1>5. ASSUME NEW y \in 0 .. x - 1 PROVE y \in m
    <2>1. y \in Bits /\ ~ (x <= y)
      BY <1>4 DEF Bits
    <2> QED
      BY <1>4, <2>1
  <1>6. \E z \in Bits : z \notin m /\ \A y \in 0 .. z - 1 : y \in m
    BY <1>4, <1>5
  <1> QED
    BY <1>6 DEF LowestClear, Bits

(* Insert makes room first. *)
LEMMA WithRoomProperties ==
    ASSUME NEW t, IsTable(t)
    PROVE  /\ IsTable(WithRoom(t)) /\ UsedOf(WithRoom(t)) = UsedOf(t)
           /\ FdsOf(WithRoom(t)) = FdsOf(t)
           /\ \E i \in 1 .. Len(WithRoom(t).masks) : ~ IsFull(WithRoom(t).masks[i])
  <1>1. t.masks \in Seq(SUBSET Bits) /\ Len(t.masks) \in Nat /\ DOMAIN t.masks = 1 .. Len(t.masks)
    BY DEF IsTable
  <1>2. CASE \A j \in DOMAIN t.masks : IsFull(t.masks[j])
    <2>1. WithRoom(t) = grow(t, 1)
      BY <1>2 DEF WithRoom
    <2>2. /\ IsTable(grow(t, 1)) /\ UsedOf(grow(t, 1)) = UsedOf(t) /\ FdsOf(grow(t, 1)) = FdsOf(t)
          /\ Len(grow(t, 1).masks) = Len(t.masks) + 1
          /\ \A j \in Len(t.masks) + 1 .. Len(t.masks) + 1 : grow(t, 1).masks[j] = {}
      BY GrowProperties
    <2>3. ~ IsFull({})
      BY DEF IsFull
    <2>4. /\ Len(t.masks) + 1 \in Len(t.masks) + 1 .. Len(t.masks) + 1
          /\ Len(t.masks) + 1 \in 1 .. Len(t.masks) + 1
      BY <1>1
    <2>5. grow(t, 1).masks[Len(t.masks) + 1] = {}
      BY <2>2, <2>4
    <2>6. /\ Len(t.masks) + 1 \in 1 .. Len(grow(t, 1).masks)
          /\ ~ IsFull(grow(t, 1).masks[Len(t.masks) + 1])
      BY <2>2, <2>3, <2>4, <2>5
    <2> QED
      BY <2>1, <2>2, <2>6
  <1>3. CASE ~ \A j \in DOMAIN t.masks : IsFull(t.masks[j])
    <2>1. WithRoom(t) = t
      BY <1>3 DEF WithRoom
    <2> QED
      BY <1>1, <1>3, <2>1
  <1> QED
    BY <1>2, <1>3

(* The free descriptor that Insert takes is the lowest one. *)
LEMMA FreeKeyProperties ==
    ASSUME NEW g, IsTable(g), \E j \in 1 .. Len(g.masks) : ~ IsFull(g.masks[j])
    PROVE  /\ FreeKey(g) \in 0 .. Len(g.masks) * MaskBits - 1 /\ FreeKey(g) \notin UsedOf(g)
           /\ \A j \in 0 .. FreeKey(g) - 1 : j \in UsedOf(g)
  <1> DEFINE I == {j \in 1 .. Len(g.masks) : ~ IsFull(g.masks[j])}
             i == IF I # {} THEN Min(I) ELSE 0
             b == LowestClear(g.masks[i])
             key == (i - 1) * MaskBits + b
  <1>1. FreeKey(g) = key
    BY DEF FreeKey, SelectInSeq
  <1>2. g.masks \in Seq(SUBSET Bits) /\ Len(g.masks) \in Nat /\ Len(g.masks) * MaskBits \in Nat
    BY DEF IsTable
  <1>3. I \in SUBSET Nat /\ I # {}
    BY <1>2
  <1>4. i \in I /\ \A j \in I : i <= j
    BY <1>3, MinProperties
  <1>5. /\ i \in 1 .. Len(g.masks) /\ ~ IsFull(g.masks[i])
        /\ \A j \in 1 .. Len(g.masks) : j < i => g.masks[j] = Bits
    <2>1. i \in 1 .. Len(g.masks) /\ ~ IsFull(g.masks[i])
      BY <1>4
    <2>2. ASSUME NEW j \in 1 .. Len(g.masks), j < i PROVE IsFull(g.masks[j])
      <3> HIDE DEF I, i
      <3>1. i \in Nat /\ j \in Nat /\ ~ (i <= j)
        BY <1>2, <2>1, <2>2
      <3>2. j \notin I
        BY <1>4, <3>1
      <3> USE DEF I
      <3> QED
        BY <3>2
    <2> QED
      BY <2>1, <2>2 DEF IsFull, Bits
  <1> HIDE DEF I, i
  <1>6. g.masks[i] \in SUBSET Bits
    BY <1>2, <1>5, ElementOfSeq
  <1>7. b \in Bits /\ b \notin g.masks[i] /\ \A y \in 0 .. b - 1 : y \in g.masks[i]
    BY <1>5, <1>6, LowestClearProperties
  <1> HIDE DEF b
  <1>8. i - 1 \in Nat /\ i - 1 < Len(g.masks) /\ i - 1 + 1 = i /\ i \in Nat
    BY <1>2, <1>5
  <1>9. key \in Nat /\ key \div MaskBits = i - 1 /\ key % MaskBits = b
    BY <1>7, <1>8, DivModUnique
  <1>10. key = (i - 1) * MaskBits + b
    OBVIOUS
  <1> HIDE DEF key
  <1>11. key < Len(g.masks) * MaskBits
    BY <1>2, <1>8, <1>9, DivBelow
  <1>12. key \in 0 .. Len(g.masks) * MaskBits - 1
    BY <1>2, <1>9, <1>11
  <1>13. key \notin UsedOf(g)
    BY <1>7, <1>8, <1>9 DEF UsedOf
  <1>14. ASSUME NEW j \in 0 .. key - 1 PROVE j \in UsedOf(g)
    <2>1. j \in Nat /\ j < key /\ j \in 0 .. Len(g.masks) * MaskBits - 1
      BY <1>2, <1>9, <1>12
    <2>2. /\ j \div MaskBits \in Nat /\ j % MaskBits \in Bits
          /\ j = (j \div MaskBits) * MaskBits + (j % MaskBits)
      BY <2>1, DivMod
    <2>3. j \div MaskBits + 1 \in 1 .. Len(g.masks)
      BY <2>1, MaskOf
    <2>4. j \div MaskBits <= i - 1
      <3>1. \A x \in Nat : x * MaskBits + MaskBits = (x + 1) * MaskBits
        OBVIOUS
      <3>2. b < MaskBits /\ b \in Nat
        BY <1>7 DEF Bits
      <3>3. i * MaskBits \in Nat /\ (i - 1) * MaskBits \in Nat
            /\ (i - 1) * MaskBits + MaskBits = i * MaskBits
        BY <1>8, <3>1
      <3>4. key < i * MaskBits
        BY ONLY <1>10, <3>2, <3>3, DescriptorsAssumption
      <3>5. j < i * MaskBits
        BY ONLY <1>9, <2>1, <3>3, <3>4
      <3>6. j \div MaskBits < i
        BY <1>8, <2>1, <3>5, DivBelow
      <3> QED
        BY <1>8, <2>2, <3>6
    <2>5. CASE j \div MaskBits = i - 1
      <3>1. (i - 1) * MaskBits \in Nat /\ j = (i - 1) * MaskBits + (j % MaskBits)
        BY <1>8, <2>2, <2>5
      <3>2. j % MaskBits \in Nat /\ b \in Nat
        BY <1>7, <2>2 DEF Bits
      <3>3. j % MaskBits < b
        <4>1. \A x, y, z \in Nat : x + y < x + z => y < z
          OBVIOUS
        <4>2. (i - 1) * MaskBits + (j % MaskBits) < (i - 1) * MaskBits + b
          BY ONLY <1>10, <2>1, <3>1
        <4> QED
          BY ONLY <3>1, <3>2, <4>1, <4>2
      <3>4. j % MaskBits \in 0 .. b - 1
        BY ONLY <3>2, <3>3
      <3>5. j % MaskBits \in g.masks[i]
        BY <1>7, <3>4
      <3> QED
        BY <1>8, <2>1, <2>5, <3>5 DEF UsedOf
    <2>6. CASE j \div MaskBits # i - 1
      <3>1. j \div MaskBits + 1 < i
        BY <1>8, <2>2, <2>4, <2>6
      <3>2. g.masks[j \div MaskBits + 1] = Bits
        BY <1>5, <2>3, <3>1
      <3> QED
        BY <2>1, <2>2, <3>2 DEF UsedOf
    <2> QED
      BY <2>5, <2>6
  <1> QED
    BY <1>1, <1>12, <1>13, <1>14

(* Insert maps the lowest descriptor that is free to the file. *)
LEMMA InsertProperties ==
    ASSUME NEW t, IsTable(t), NEW f \in Files
    PROVE  LET key == Insert(t, f).key
               r   == Insert(t, f).tab
           IN  /\ key \in Nat /\ key \notin UsedOf(t)
               /\ \A j \in 0 .. key - 1 : j \in UsedOf(t)
               /\ IsTable(r) /\ UsedOf(r) = UsedOf(t) \cup {key}
               /\ FdsOf(r) = Plus(FdsOf(t), key, f)
  <1> DEFINE g == WithRoom(t)
             k == FreeKey(g)
  <1>1. Insert(t, f) = [key |-> k, tab |-> Put(g, k, f)]
    BY DEF Insert
  <1>2. Insert(t, f).key = k /\ Insert(t, f).tab = Put(g, k, f)
    BY <1>1
  <1>3. /\ IsTable(g) /\ UsedOf(g) = UsedOf(t) /\ FdsOf(g) = FdsOf(t)
        /\ \E i \in 1 .. Len(g.masks) : ~ IsFull(g.masks[i])
    BY WithRoomProperties
  <1> HIDE DEF g
  <1>4. /\ k \in 0 .. Len(g.masks) * MaskBits - 1 /\ k \notin UsedOf(g)
        /\ \A j \in 0 .. k - 1 : j \in UsedOf(g)
    BY <1>3, FreeKeyProperties
  <1> HIDE DEF k
  <1>5. /\ IsTable(Put(g, k, f)) /\ UsedOf(Put(g, k, f)) = UsedOf(g) \cup {k}
        /\ FdsOf(Put(g, k, f)) = Plus(FdsOf(g), k, f)
    BY <1>3, <1>4, PutProperties
  <1>6. k \in Nat
    BY <1>3, <1>4, MaskOf
  <1> QED
    BY <1>2, <1>3, <1>4, <1>5, <1>6
----------------------------------------------------------------------------
(* The inductive invariant.                                                *)

(* The fields that a file has whatever its kind, and those of a regular    *)
(* one and of a directory.                                                 *)
IsEntry(f) ==
    /\ {"kind", "isPreopen", "closed"} \subseteq DOMAIN f
    /\ f.kind = "regular" => {"node", "pos", "append", "osAppend"} \subseteq DOMAIN f
    /\ f.kind = "dir" => {"stream", "cache"} \subseteq DOMAIN f

(* F maps descriptors one to one to the files of E that are in use. *)
Owns(F, E) ==
    /\ \A k \in DOMAIN F : F[k] \in Files /\ E[F[k]].kind # "none"
    /\ \A k, l \in DOMAIN F : F[k] = F[l] => k = l
    /\ \A e \in Files : E[e].kind # "none" => \E k \in DOMAIN F : F[k] = e

FdInv ==
    /\ IsTable(Table)
    /\ DOMAIN entry = Files /\ \A e \in Files : IsEntry(entry[e])
    /\ Owns(FdsOf(Table), entry)
    /\ guest \in Guests
----------------------------------------------------------------------------
(* What changes of the map and of the files keep.                          *)

(* A new file under a free number: still one number each. *)
LEMMA OwnsPlus ==
    ASSUME NEW F, NEW E, Owns(F, E), NEW k, k \notin DOMAIN F,
           NEW e \in Files, E[e].kind = "none",
           NEW G, G[e].kind # "none", \A x \in Files : x # e => G[x] = E[x]
    PROVE  Owns(Plus(F, k, e), G)
  <1> DEFINE P == Plus(F, k, e)
  <1>1. DOMAIN P = DOMAIN F \cup {k} /\ P[k] = e /\ \A n \in DOMAIN F : P[n] = F[n]
    BY DEF Plus
  <1>3. \A n \in DOMAIN F : F[n] # e
    BY DEF Owns
  <1> HIDE DEF P
  <1>4. \A n \in DOMAIN P : P[n] \in Files /\ G[P[n]].kind # "none"
    BY <1>1 DEF Owns
  <1>5. \A n, l \in DOMAIN P : P[n] = P[l] => n = l
    BY <1>1, <1>3 DEF Owns
  <1>6. \A x \in Files : G[x].kind # "none" => \E n \in DOMAIN P : P[n] = x
    BY <1>1 DEF Owns
  <1> QED
    BY <1>4, <1>5, <1>6 DEF Owns, P

(* A closed file taken out with its number: still one number each. *)
LEMMA OwnsMinus ==
    ASSUME NEW F, NEW E, Owns(F, E), NEW k \in DOMAIN F, NEW G, G[F[k]].kind = "none",
           \A x \in Files : x # F[k] => G[x] = E[x]
    PROVE  Owns(Minus(F, k), G)
  <1> DEFINE P == Minus(F, k)
  <1>1. DOMAIN P = DOMAIN F \ {k} /\ \A n \in DOMAIN F \ {k} : P[n] = F[n]
    BY DEF Minus
  <1>4. \A n \in DOMAIN F \ {k} : F[n] # F[k]
    BY DEF Owns
  <1> HIDE DEF P
  <1>5. \A n \in DOMAIN P : P[n] \in Files /\ G[P[n]].kind # "none"
    BY <1>1, <1>4 DEF Owns
  <1>6. \A n, l \in DOMAIN P : P[n] = P[l] => n = l
    BY <1>1 DEF Owns
  <1>7. \A x \in Files : G[x].kind # "none" => \E n \in DOMAIN P : P[n] = x
    BY <1>1 DEF Owns
  <1> QED
    BY <1>5, <1>6, <1>7 DEF Owns, P

(* Moving the file of one descriptor to another that is not in use. *)
LEMMA OwnsMoved ==
    ASSUME NEW F, NEW E, Owns(F, E), NEW from \in DOMAIN F, NEW to, to \notin DOMAIN F \ {from}
    PROVE  Owns(Plus(Minus(F, from), to, F[from]), E)
  <1> DEFINE P == Plus(Minus(F, from), to, F[from])
  <1>1. /\ DOMAIN P = (DOMAIN F \ {from}) \cup {to} /\ P[to] = F[from]
        /\ \A n \in DOMAIN F \ {from} : P[n] = F[n]
    BY DEF Plus, Minus
  <1> HIDE DEF P
  <1>2. \A n \in DOMAIN P : P[n] \in Files /\ E[P[n]].kind # "none"
    BY <1>1 DEF Owns
  <1>3. \A n, l \in DOMAIN P : P[n] = P[l] => n = l
    BY <1>1 DEF Owns
  <1>4. \A x \in Files : E[x].kind # "none" => \E n \in DOMAIN P : P[n] = x
    BY <1>1 DEF Owns
  <1> QED
    BY <1>2, <1>3, <1>4 DEF Owns, P

(* Moving it onto another file's descriptor, which is closed: the same as  *)
(* closing that one first.                                                 *)
LEMMA PlusMinus ==
    ASSUME NEW F, NEW from, NEW to \in DOMAIN F, from \in DOMAIN F, to # from
    PROVE  /\ Plus(Minus(F, from), to, F[from]) =
                 Plus(Minus(Minus(F, to), from), to, Minus(F, to)[from])
           /\ from \in DOMAIN Minus(F, to) /\ to \notin DOMAIN Minus(F, to) \ {from}
  <1>1. DOMAIN Minus(F, to) = DOMAIN F \ {to} /\ \A n \in DOMAIN F \ {to} : Minus(F, to)[n] = F[n]
    BY DEF Minus
  <1>2. DOMAIN Minus(F, from) = DOMAIN F \ {from}
        /\ \A n \in DOMAIN F \ {from} : Minus(F, from)[n] = F[n]
    BY DEF Minus
  <1>3. DOMAIN Minus(Minus(F, to), from) = DOMAIN F \ {to, from}
        /\ \A n \in DOMAIN F \ {to, from} : Minus(Minus(F, to), from)[n] = F[n]
    BY <1>1 DEF Minus
  <1>4. from \in DOMAIN F \ {to}
    OBVIOUS
  <1>5. Minus(F, to)[from] = F[from]
    BY <1>1, <1>4
  <1>6. DOMAIN Minus(F, from) \cup {to} = DOMAIN Minus(Minus(F, to), from) \cup {to}
    BY <1>2, <1>3
  <1>7. \A n \in DOMAIN Minus(F, from) \cup {to} :
            (IF n = to THEN F[from] ELSE Minus(F, from)[n]) =
            (IF n = to THEN F[from] ELSE Minus(Minus(F, to), from)[n])
    BY <1>2, <1>3
  <1>8. Plus(Minus(F, from), to, F[from]) = Plus(Minus(Minus(F, to), from), to, F[from])
    BY <1>6, <1>7 DEF Plus
  <1> QED
    BY <1>1, <1>4, <1>5, <1>8
----------------------------------------------------------------------------
(* The table of a state.                                                   *)

(* The variables as a table, and the numbers in use. *)
LEMMA TableOfState ==
    /\ Table.masks = masks /\ Table.items = items
    /\ Used = UsedOf(Table) /\ DOMAIN FdsOf(Table) = Used
    /\ FdsOf(Table) = [k \in Used |-> items[k + 1]]
  BY DEF Table, Used, UsedOf, FdsOf

(* SetTable makes t the table. *)
LEMMA SetTableIs ==
    ASSUME NEW t, IsTable(t), SetTable(t)
    PROVE  Table' = t
  BY DEF SetTable, Table, IsTable

(* Lookup finds exactly the numbers in use, each with an open file. *)
LEMMA FoundIsUsed ==
    ASSUME FdInv, NEW k \in Int
    PROVE  /\ Found(k) <=> k \in Used
           /\ Found(k) => k \in Nat /\ Lookup(k) = FdsOf(Table)[k] /\ Lookup(k) \in Files
                          /\ entry[Lookup(k)].kind # "none"
  <1>1. Len(items) = Len(masks) * MaskBits /\ Len(masks) * MaskBits \in Nat
    BY TableOfState DEF FdInv, IsTable
  <1>2. Found(k) <=> k \in Used
    BY <1>1 DEF Found, Used
  <1>3. ASSUME Found(k)
        PROVE  Lookup(k) = FdsOf(Table)[k] /\ k \in DOMAIN FdsOf(Table)
    BY <1>2, <1>3, TableOfState DEF Lookup
  <1> QED
    BY <1>2, <1>3 DEF FdInv, Owns, Found

(* The numbers in use can be counted. *)
LEMMA UsedFinite ==
    ASSUME FdInv
    PROVE  IsFiniteSet(Used) /\ LenUsed \in Nat
  <1>1. Len(masks) * MaskBits - 1 \in Int
    BY TableOfState DEF FdInv, IsTable
  <1>2. IsFiniteSet(0 .. Len(masks) * MaskBits - 1)
    BY <1>1, FS_Interval
  <1>3. IsFiniteSet(Used)
    BY <1>2, FS_Subset DEF Used
  <1> QED
    BY <1>3, FS_CardinalityType DEF LenUsed

(* Below the limit there is a file to spare. *)
LEMMA FreshIsFree ==
    ASSUME FdInv, ~ Capped
    PROVE  Fresh \in Files /\ entry[Fresh].kind = "none"
  <1> DEFINE S == {e \in Files : entry[e].kind # "none"}
             F == FdsOf(Table)
  <1>1. F \in [Used -> S]
    BY TableOfState DEF FdInv, Owns
  <1>2. F \in Surjection(Used, S)
    BY <1>1, TableOfState DEF FdInv, Owns, Surjection
  <1>3. IsFiniteSet(S) /\ Cardinality(S) <= LenUsed
    BY <1>2, UsedFinite, FS_Surjection DEF LenUsed
  <1>4. Cardinality(S) \in Nat /\ Cardinality(Files) \in Nat
    BY <1>3, FS_CardinalityType
  <1>5. Cardinality(S) < Cardinality(Files)
    BY <1>3, <1>4, UsedFinite DEF Capped
  <1>6. PICK x \in Files : x \notin S
    <2> HIDE DEF S
    <2>1. S # Files
      BY <1>4, <1>5
    <2> USE DEF S
    <2> QED
      BY <2>1
  <1> DEFINE T == {e \in Files : entry[e].kind = "none"}
  <1>7. T \in SUBSET Nat /\ T # {}
    BY <1>4, <1>6
  <1>8. PICK e \in T : \A y \in T : e <= y
    BY <1>7, LeastNatural
  <1>9. \A d \in 1 .. e - 1 : entry[d].kind # "none"
    <2> SUFFICES ASSUME NEW d \in 1 .. e - 1 PROVE entry[d].kind # "none"
      OBVIOUS
    <2>1. d \in Files /\ ~ (e <= d)
      BY <1>4, <1>8
    <2> QED
      BY <1>8, <2>1
  <1>10. \E z \in Files : entry[z].kind = "none" /\ \A d \in 1 .. z - 1 : entry[d].kind # "none"
    BY <1>8, <1>9
  <1> QED
    BY <1>10 DEF Fresh
----------------------------------------------------------------------------
(* Steps of the table are steps of the map.                                *)

(* A file under the lowest free number is a step of FDMap. *)
LEMMA MapOpen ==
    ASSUME NEW e \in Files,
           FdsOf(Table)' = Plus(FdsOf(Table), Map!Lowest(DOMAIN FdsOf(Table)), e)
    PROVE  Map!FDNext
  <1>1. [k \in Used |-> items[k + 1]] = FdsOf(Table)
    BY TableOfState
  <1>2. [k \in Used |-> items[k + 1]]' = FdsOf(Table)'
    BY DEF Table, Used, UsedOf, FdsOf
  <1>3. Map!FDOpen(e)
    BY <1>1, <1>2 DEF Map!FDOpen, Map!With, Plus
  <1> QED
    BY <1>3 DEF Map!FDNext

(* Removing a number is a step of FDMap. *)
LEMMA MapClose ==
    ASSUME NEW k \in DOMAIN FdsOf(Table), FdsOf(Table)' = Minus(FdsOf(Table), k)
    PROVE  Map!FDNext
  <1>1. [l \in Used |-> items[l + 1]] = FdsOf(Table)
    BY TableOfState
  <1>2. [l \in Used |-> items[l + 1]]' = FdsOf(Table)'
    BY DEF Table, Used, UsedOf, FdsOf
  <1>3. Map!FDClose(k)
    BY <1>1, <1>2 DEF Map!FDClose, Map!Without, Minus
  <1> QED
    BY <1>1, <1>3 DEF Map!FDNext

(* Moving a file to another number is a step of FDMap. *)
LEMMA MapRenumber ==
    ASSUME NEW from \in DOMAIN FdsOf(Table), NEW to \in 0 .. maxFileDescriptor,
           FdsOf(Table)' = Plus(Minus(FdsOf(Table), from), to, FdsOf(Table)[from])
    PROVE  Map!FDNext
  <1> DEFINE F == FdsOf(Table)
  <1>1. [l \in Used |-> items[l + 1]] = F
    BY TableOfState
  <1>2. [l \in Used |-> items[l + 1]]' = F'
    BY DEF Table, Used, UsedOf, FdsOf
  <1>3. F' = Plus(Minus(F, from), to, F[from])
    OBVIOUS
  <1>4. from \in DOMAIN F
    OBVIOUS
  <1> HIDE DEF F
  <1>5. Plus(Minus(F, from), to, F[from]) =
           [n \in (DOMAIN F \ {from}) \cup {to} |-> IF n = to THEN F[from] ELSE F[n]]
    BY DEF Plus, Minus
  <1>6. Map!FDRenumber(from, to)
    BY <1>1, <1>2, <1>3, <1>4, <1>5 DEF Map!FDRenumber
  <1> QED
    BY <1>1, <1>4, <1>6 DEF Map!FDNext

(* Removing all is a step of FDMap. *)
LEMMA MapCloseAll ==
    ASSUME UsedOf(Table)' = {}
    PROVE  Map!FDNext
  <1>1. [l \in Used |-> items[l + 1]]' = [n \in {} |-> 0]
    BY DEF Table, Used, UsedOf
  <1> QED
    BY <1>1 DEF Map!FDNext, Map!FDCloseAll

(* A call that leaves the table alone is a stutter of FDMap. *)
LEMMA MapSame ==
    ASSUME UNCHANGED tableVars
    PROVE  UNCHANGED [l \in Used |-> items[l + 1]]
  BY DEF tableVars, Used

(* The lowest descriptor that is not in use. *)
LEMMA LowestKey ==
    ASSUME FdInv, ~ Capped, NEW key \in Nat, key \notin Used, \A j \in 0 .. key - 1 : j \in Used
    PROVE  Map!Lowest(DOMAIN FdsOf(Table)) = key
  <1>1. key <= LenUsed
    <2>1. 0 .. key - 1 \in SUBSET Used
      OBVIOUS
    <2>2. Cardinality(0 .. key - 1) <= Cardinality(Used)
      BY <2>1, UsedFinite, FS_Subset
    <2>3. Cardinality(0 .. key - 1) = key
      BY FS_Interval
    <2> QED
      BY <2>2, <2>3 DEF LenUsed
  <1>2. key \in 0 .. maxFileDescriptor
    BY <1>1, UsedFinite DEF Capped
  <1>3. ASSUME NEW n \in 0 .. maxFileDescriptor, n \notin Used, \A m \in 0 .. n - 1 : m \in Used
        PROVE  n = key
    <2>1. ~ (n < key)
      <3>1. n < key => n \in 0 .. key - 1
        OBVIOUS
      <3> QED
        BY <1>3, <3>1
    <2>2. ~ (key < n)
      <3>1. key < n => key \in 0 .. n - 1
        OBVIOUS
      <3> QED
        BY <1>3, <3>1
    <2> QED
      BY <2>1, <2>2
  <1>4. DOMAIN FdsOf(Table) = Used
    BY TableOfState
  <1> QED
    BY <1>2, <1>3, <1>4 DEF Map!Lowest
----------------------------------------------------------------------------
(* Steps.                                                                  *)

(* What FileKept says of a step. *)
Keeps ==
    \A e \in Files : entry[e].kind = "regular" /\ entry'[e].kind = "regular" =>
        /\ entry'[e].node = entry[e].node
        /\ entry'[e].append # entry[e].append \/ entry'[e].osAppend # entry[e].osAppend
               => entry'[e].pos = entry[e].pos /\ size' = size

(* What is shown of every step. *)
StepOK ==
    /\ FdInv'
    /\ Map!FDNext \/ UNCHANGED [k \in Used |-> items[k + 1]]
    /\ Keeps

(* What the next state needs for FdInv, with the table as a value. *)
LEMMA FdInvPrime ==
    ASSUME FdInv, NEW t, IsTable(t), Table' = t, DOMAIN entry' = Files,
           \A e \in Files : IsEntry(entry'[e]), Owns(FdsOf(t), entry'), guest' = guest
    PROVE  FdInv' /\ FdsOf(Table)' = FdsOf(t) /\ UsedOf(Table)' = UsedOf(t)
  <1>1. IsTable(Table)' /\ FdsOf(Table)' = FdsOf(t) /\ UsedOf(Table)' = UsedOf(t)
    BY DEF IsTable, FdsOf, UsedOf
  <1>2. Owns(FdsOf(Table), entry)'
    BY <1>1 DEF Owns
  <1>3. (\A e \in Files : IsEntry(entry[e]))'
    BY DEF IsEntry
  <1> QED
    BY <1>1, <1>2, <1>3 DEF FdInv

(* Inserting a new file is right (StepOK). *)
LEMMA AddFileStep ==
    ASSUME FdInv, ~ Capped, NEW f, IsEntry(f), f.kind # "none", AddFile(f), guest' = guest
    PROVE  StepOK
  <1> DEFINE key == Insert(Table, Fresh).key
             r   == Insert(Table, Fresh).tab
             F   == FdsOf(Table)
  <1>1. Fresh \in Files /\ entry[Fresh].kind = "none"
    BY FreshIsFree
  <1>2. IsTable(Table) /\ DOMAIN entry = Files /\ Owns(F, entry)
    BY DEF FdInv
  <1>3. /\ key \in Nat /\ key \notin UsedOf(Table) /\ \A j \in 0 .. key - 1 : j \in UsedOf(Table)
        /\ IsTable(r) /\ FdsOf(r) = Plus(F, key, Fresh)
    BY <1>1, <1>2, InsertProperties
  <1>4. Table' = r
    BY <1>3, SetTableIs DEF AddFile
  <1>5. entry' = [entry EXCEPT ![Fresh] = f]
    BY DEF AddFile
  <1> HIDE DEF key, r, F
  <1>6. key \notin DOMAIN F /\ key \notin Used /\ \A j \in 0 .. key - 1 : j \in Used
    BY <1>3, TableOfState DEF F
  <1>7. Owns(FdsOf(r), entry')
    <2>1. entry'[Fresh].kind # "none" /\ \A x \in Files : x # Fresh => entry'[x] = entry[x]
      BY <1>1, <1>2, <1>5
    <2>2. Owns(Plus(F, key, Fresh), entry')
      BY <1>1, <1>2, <1>6, <2>1, OwnsPlus
    <2> QED
      BY <1>3, <2>2
  <1>8. DOMAIN entry' = Files /\ \A e \in Files : IsEntry(entry'[e])
    BY <1>1, <1>2, <1>5 DEF FdInv
  <1>9. FdInv' /\ FdsOf(Table)' = FdsOf(r)
    BY <1>3, <1>4, <1>7, <1>8, FdInvPrime
  <1>10. Map!Lowest(DOMAIN FdsOf(Table)) = key
    BY <1>3, <1>6, LowestKey
  <1>11. Map!FDNext
    BY <1>1, <1>3, <1>9, <1>10, MapOpen DEF F
  <1>12. Keeps
    BY <1>1, <1>2, <1>5 DEF Keeps
  <1> QED
    BY <1>9, <1>11, <1>12 DEF StepOK

(* One file changes and keeps its kind. *)
LEMMA EntryStep ==
    ASSUME FdInv, UNCHANGED tableVars, guest' = guest, NEW e \in Files, NEW f, IsEntry(f),
           entry' = [entry EXCEPT ![e] = f], f.kind = entry[e].kind,
           f.kind = "regular" =>
               /\ f.node = entry[e].node
               /\ f.append # entry[e].append \/ f.osAppend # entry[e].osAppend
                      => f.pos = entry[e].pos /\ size' = size
    PROVE  StepOK
  <1>1. IsTable(Table) /\ DOMAIN entry = Files /\ Owns(FdsOf(Table), entry)
        /\ \A x \in Files : IsEntry(entry[x])
    BY DEF FdInv
  <1>2. Table' = Table
    BY DEF tableVars, Table
  <1>3. DOMAIN entry' = Files /\ entry'[e] = f /\ \A x \in Files : x # e => entry'[x] = entry[x]
    BY <1>1
  <1>4. \A x \in Files : IsEntry(entry'[x])
    BY <1>1, <1>3
  <1>5. Owns(FdsOf(Table), entry')
    <2>1. \A x \in Files : entry'[x].kind = entry[x].kind
      BY <1>3
    <2> DEFINE F == FdsOf(Table)
    <2>2. Owns(F, entry)
      BY <1>1
    <2> HIDE DEF F
    <2>3. Owns(F, entry')
      BY ONLY <2>1, <2>2 DEF Owns
    <2> QED
      BY <2>3 DEF F
  <1>6. FdInv'
    BY <1>1, <1>2, <1>3, <1>4, <1>5, FdInvPrime
  <1>7. Keeps
    BY <1>3 DEF Keeps
  <1> QED
    BY <1>6, <1>7, MapSame DEF StepOK

(* No file changes. *)
LEMMA SameStep ==
    ASSUME FdInv, UNCHANGED tableVars, guest' = guest, entry' = entry
    PROVE  StepOK
  <1>1. FdInv'
    BY DEF FdInv, tableVars, Table, IsTable, Owns, FdsOf, UsedOf, IsEntry
  <1>2. Keeps
    BY DEF Keeps
  <1> QED
    BY <1>1, <1>2, MapSame DEF StepOK

(* What a closed file leaves is an entry that is not in use. *)
LEMMA GarbageIsEntry == IsEntry(Garbage) /\ Garbage.kind = "none"
  BY DEF IsEntry, Garbage

(* fd_close is right, whether the close of the file fails or not. *)
LEMMA CloseFileStep ==
    ASSUME FdInv, NEW k \in Int, NEW fails \in BOOLEAN, CloseFile(k, fails), guest' = guest
    PROVE  StepOK
  <1> DEFINE F == FdsOf(Table)
             e == Lookup(k)
             r == Delete(Table, k)
  <1>1. /\ Found(k) /\ k \in Used /\ e = F[k] /\ e \in Files /\ entry[e].kind # "none"
        /\ k \in DOMAIN F
    BY FoundIsUsed, TableOfState DEF CloseFile
  <1>2. IsTable(Table) /\ DOMAIN entry = Files /\ Owns(F, entry) /\ IsEntry(entry[e])
    BY <1>1 DEF FdInv
  <1>3. CASE fails
    <2>1. entry' = [entry EXCEPT ![e].closed = TRUE] /\ UNCHANGED tableVars
      BY <1>3 DEF CloseFile
    <2> DEFINE f == [entry[e] EXCEPT !.closed = TRUE]
    <2>2. entry' = [entry EXCEPT ![e] = f]
      BY <2>1
    <2>3. DOMAIN f = DOMAIN entry[e] /\ f.kind = entry[e].kind
      BY <1>2 DEF IsEntry
    <2>4. IsEntry(f)
      BY <1>2, <2>3 DEF IsEntry
    <2>5. f.kind = "regular" => f.node = entry[e].node /\ f.append = entry[e].append
                                /\ f.osAppend = entry[e].osAppend
      BY <1>2, <2>3 DEF IsEntry
    <2> HIDE DEF f, e
    <2> QED
      BY <1>1, <2>1, <2>2, <2>3, <2>4, <2>5, EntryStep
  <1>4. CASE ~ fails
    <2>1. entry' = [entry EXCEPT ![e] = Garbage] /\ SetTable(r)
      BY <1>4 DEF CloseFile
    <2>2. IsTable(r) /\ FdsOf(r) = Minus(F, k)
      BY <1>2, DeleteProperties
    <2>3. Table' = r
      BY <2>1, <2>2, SetTableIs
    <2> HIDE DEF F, e, r
    <2>4. /\ DOMAIN entry' = Files /\ entry'[e] = Garbage
          /\ \A x \in Files : x # e => entry'[x] = entry[x]
      BY <1>1, <1>2, <2>1
    <2>5. Owns(FdsOf(r), entry')
      <3>1. Owns(Minus(F, k), entry')
        BY <1>1, <1>2, <2>4, GarbageIsEntry, OwnsMinus
      <3> QED
        BY <2>2, <3>1
    <2>6. \A x \in Files : IsEntry(entry'[x])
      BY <2>4, GarbageIsEntry DEF FdInv
    <2>7. FdInv' /\ FdsOf(Table)' = Minus(F, k)
      BY <2>2, <2>3, <2>4, <2>5, <2>6, FdInvPrime
    <2>8. Map!FDNext
      BY <1>1, <2>7, MapClose DEF F
    <2>9. Keeps
      BY <2>4, GarbageIsEntry DEF Keeps
    <2> QED
      BY <2>7, <2>8, <2>9 DEF StepOK
  <1> QED
    BY <1>3, <1>4

(* fd_renumber is right, also onto a number in use. *)
LEMMA RenumberStep ==
    ASSUME FdInv, NEW from \in Int, NEW to \in Int, Renumber(from, to), guest' = guest
    PROVE  StepOK
  <1> DEFINE F == FdsOf(Table)
             d == Delete(Table, from)
             r == InsertItemAt(d, Lookup(from), to)
  <1>1. /\ Found(from) /\ to \in 0 .. maxFileDescriptor /\ SetTable(r)
        /\ entry' = IF Found(to) /\ to # from
                    THEN [entry EXCEPT ![Lookup(to)] = Garbage] ELSE entry
    BY DEF Renumber
  <1>2. Lookup(from) = F[from] /\ Lookup(from) \in Files /\ from \in DOMAIN F /\ to \in Nat
    <2>1. Lookup(from) = F[from] /\ Lookup(from) \in Files /\ from \in Used
      BY <1>1, FoundIsUsed
    <2>2. DOMAIN F = Used
      BY TableOfState
    <2>3. to \in Nat
      BY <1>1
    <2> QED
      BY <2>1, <2>2, <2>3
  <1>3. /\ IsTable(Table) /\ DOMAIN entry = Files /\ Owns(F, entry)
        /\ \A x \in Files : IsEntry(entry[x])
    BY DEF FdInv
  <1>4. IsTable(d) /\ FdsOf(d) = Minus(F, from)
    BY <1>3, DeleteProperties
  <1>5. IsTable(r) /\ FdsOf(r) = Plus(Minus(F, from), to, F[from])
    <2> HIDE DEF d, F
    <2> QED
      BY <1>2, <1>4, InsertItemAtProperties
  <1>6. Table' = r
    BY <1>1, <1>5, SetTableIs
  <1> HIDE DEF F, d, r
  <1>7. /\ DOMAIN entry' = Files /\ \A x \in Files : IsEntry(entry'[x])
        /\ Owns(Plus(Minus(F, from), to, F[from]), entry')
        /\ \A x \in Files : entry'[x] = entry[x] \/ entry'[x] = Garbage
    <2>1. CASE Found(to) /\ to # from
      <3> DEFINE e == Lookup(to)
                 M == Minus(F, to)
      <3>1. e = F[to] /\ e \in Files /\ to \in DOMAIN F
        BY <2>1, FoundIsUsed, TableOfState DEF F
      <3>2. entry' = [entry EXCEPT ![e] = Garbage]
        BY <1>1, <2>1
      <3> HIDE DEF e
      <3>3. /\ DOMAIN entry' = Files /\ entry'[e] = Garbage
            /\ \A x \in Files : x # e => entry'[x] = entry[x]
        BY <1>3, <3>1, <3>2
      <3>4. Owns(M, entry')
        BY <1>3, <3>1, <3>3, GarbageIsEntry, OwnsMinus
      <3>5. /\ Plus(Minus(F, from), to, F[from]) = Plus(Minus(M, from), to, M[from])
            /\ from \in DOMAIN M /\ to \notin DOMAIN M \ {from}
        BY <1>2, <2>1, <3>1, PlusMinus
      <3> HIDE DEF M
      <3>6. Owns(Plus(Minus(M, from), to, M[from]), entry')
        BY <3>4, <3>5, OwnsMoved
      <3>7. \A x \in Files : IsEntry(entry'[x])
        BY <1>3, <3>3, GarbageIsEntry
      <3> QED
        BY <3>3, <3>5, <3>6, <3>7
    <2>2. CASE ~ (Found(to) /\ to # from)
      <3>1. entry' = entry
        BY <1>1, <2>2
      <3>2. to \notin DOMAIN F \ {from}
        BY <2>2, FoundIsUsed, TableOfState DEF F
      <3>3. Owns(Plus(Minus(F, from), to, F[from]), entry)
        BY <1>2, <1>3, <3>2, OwnsMoved
      <3> QED
        BY <1>3, <3>1, <3>3
    <2> QED
      BY <2>1, <2>2
  <1>8. FdInv' /\ FdsOf(Table)' = Plus(Minus(F, from), to, F[from])
    BY <1>5, <1>6, <1>7, FdInvPrime
  <1>9. Map!FDNext
    BY <1>1, <1>2, <1>8, MapRenumber DEF F
  <1>10. Keeps
    BY <1>7, GarbageIsEntry DEF Keeps
  <1> QED
    BY <1>8, <1>9, <1>10 DEF StepOK

(* sock_accept is right. *)
LEMMA SockAcceptStep ==
    ASSUME FdInv, NEW k, SockAccept(k), guest' = guest
    PROVE  StepOK
  <1> DEFINE f == [kind |-> "conn", isPreopen |-> FALSE, closed |-> FALSE]
  <1>1. IsEntry(f) /\ f.kind # "none"
    BY DEF IsEntry
  <1>2. ~ Capped /\ AddFile(f)
    BY DEF SockAccept
  <1> HIDE DEF f
  <1> QED
    BY <1>1, <1>2, AddFileStep

(* The table after Reset is a table with nothing in use. *)
LEMMA EmptyIsTable == IsTable(EmptyTable) /\ UsedOf(EmptyTable) = {} /\ DOMAIN FdsOf(EmptyTable) = {}
  <1>1. EmptyTable.masks = <<>> /\ EmptyTable.items = <<>>
        /\ EmptyTable = [masks |-> EmptyTable.masks, items |-> EmptyTable.items]
    BY DEF EmptyTable
  <1>2. Len(<<>>) = 0 /\ 0 * MaskBits = 0 /\ 0 .. 0 - 1 = {}
    OBVIOUS
  <1>3. IsTable(EmptyTable)
    BY <1>1, <1>2 DEF IsTable
  <1>4. UsedOf(EmptyTable) = {}
    BY <1>1, <1>2 DEF UsedOf
  <1> QED
    BY <1>3, <1>4 DEF FdsOf

(* Closing the context closes every file in use. *)
LEMMA CloseAllStep ==
    ASSUME FdInv, CloseAll, guest' = guest
    PROVE  StepOK
  <1>1. Table' = EmptyTable
    BY EmptyIsTable, SetTableIs DEF CloseAll
  <1>2. entry' = [e \in Files |-> IF \E k \in Used : Lookup(k) = e THEN Garbage ELSE entry[e]]
    BY DEF CloseAll
  <1>3. ASSUME NEW e \in Files
        PROVE  IsEntry(entry'[e]) /\ entry'[e].kind = "none"
    <2>1. CASE entry[e].kind = "none"
      BY <1>2, <2>1, GarbageIsEntry DEF FdInv
    <2>2. CASE entry[e].kind # "none"
      <3>1. PICK k \in Used : FdsOf(Table)[k] = e
        BY <2>2, TableOfState DEF FdInv, Owns
      <3>2. k \in Int
        BY <3>1, TableOfState DEF Used, FdInv, IsTable
      <3>3. Lookup(k) = e
        BY <3>1, <3>2, FoundIsUsed
      <3> QED
        BY <1>2, <3>3, GarbageIsEntry
    <2> QED
      BY <2>1, <2>2
  <1>4. DOMAIN entry' = Files
    BY <1>2
  <1>5. Owns(FdsOf(EmptyTable), entry')
    BY <1>3, EmptyIsTable DEF Owns
  <1>6. FdInv' /\ UsedOf(Table)' = {}
    BY <1>1, <1>3, <1>4, <1>5, EmptyIsTable, FdInvPrime
  <1>7. Map!FDNext
    BY <1>6, MapCloseAll
  <1>8. Keeps
    BY <1>3 DEF Keeps
  <1> QED
    BY <1>6, <1>7, <1>8 DEF StepOK
----------------------------------------------------------------------------
(* The calls of a guest.                                                   *)

(* path_open of a file is right, with any flags. *)
LEMMA PathOpenStep ==
    ASSUME FdInv, NEW k, NEW name, NEW o \in Flags, PathOpen(k, name, o)
    PROVE  StepOK
  <1> DEFINE node == IF fs[name] = NoNode THEN FreeNode ELSE fs[name]
             f == NewFile(name, node, o)
  <1>1. ~ Capped /\ AddFile(f) /\ guest' = guest
    BY DEF PathOpen
  <1> HIDE DEF node
  <1>2. IsEntry(f) /\ f.kind # "none"
    BY DEF IsEntry, NewFile
  <1> HIDE DEF f
  <1> QED
    BY <1>1, <1>2, AddFileStep

(* path_open of the directory is right. *)
LEMMA PathOpenDirStep ==
    ASSUME FdInv, NEW k, PathOpenDir(k)
    PROVE  StepOK
  <1>1. IsEntry(NewDir) /\ NewDir.kind # "none"
    BY DEF IsEntry, NewDir
  <1> QED
    BY <1>1, AddFileStep DEF PathOpenDir

(* A regular file gets another offset. *)
LEMMA SetPosStep ==
    ASSUME FdInv, NEW k \in Int, Regular(k), NEW p, SetPos(k, p),
           UNCHANGED tableVars, guest' = guest
    PROVE  StepOK
  <1> DEFINE e == Lookup(k)
             f == [entry[e] EXCEPT !.pos = p]
  <1>1. e \in Files /\ entry[e].kind = "regular"
    BY FoundIsUsed DEF Regular
  <1>2. IsEntry(entry[e])
    BY <1>1 DEF FdInv
  <1>3. entry' = [entry EXCEPT ![e] = f]
    BY DEF SetPos
  <1>4. /\ DOMAIN f = DOMAIN entry[e] /\ f.kind = entry[e].kind
        /\ f.node = entry[e].node /\ f.append = entry[e].append /\ f.osAppend = entry[e].osAppend
    BY <1>1, <1>2 DEF IsEntry
  <1>5. IsEntry(f)
    BY <1>2, <1>4 DEF IsEntry
  <1> HIDE DEF e, f
  <1> QED
    BY <1>1, <1>3, <1>4, <1>5, EntryStep

(* fd_fdstat_set_flags is right: the descriptor keeps node and offset. *)
LEMMA SetFlagsStep ==
    ASSUME FdInv, NEW k \in Int, NEW append, FdFdstatSetFlags(k, append)
    PROVE  StepOK
  <1> DEFINE e == Lookup(k)
             f == [entry[e] EXCEPT !.append = append]
             g == Reopened(f)
  <1>1. e \in Files /\ entry[e].kind = "regular"
    BY FoundIsUsed DEF Regular, FdFdstatSetFlags
  <1>2. IsEntry(entry[e])
    BY <1>1 DEF FdInv
  <1>3. entry' = [entry EXCEPT ![e] = g] /\ UNCHANGED tableVars /\ guest' = guest /\ size' = size
    BY DEF FdFdstatSetFlags
  <1>4. /\ DOMAIN f = DOMAIN entry[e] /\ f.kind = entry[e].kind
        /\ f.node = entry[e].node /\ f.pos = entry[e].pos
    BY <1>1, <1>2 DEF IsEntry
  <1> HIDE DEF f
  <1>5. /\ DOMAIN g = DOMAIN f /\ g.kind = f.kind /\ g.node = f.node /\ g.pos = f.pos
    BY <1>1, <1>2, <1>4 DEF IsEntry, Reopened
  <1> HIDE DEF g, e
  <1>6. IsEntry(g)
    BY <1>2, <1>4, <1>5 DEF IsEntry
  <1> QED
    BY <1>1, <1>3, <1>4, <1>5, <1>6, EntryStep

(* fd_readdir leaves table and files alone but for the cache of its        *)
(* directory.                                                              *)
LEMMA ReaddirStep ==
    ASSUME FdInv, NEW k \in Int, NEW cookie, NEW bufLen, NEW fails,
           FdReaddir(k, cookie, bufLen, fails)
    PROVE  StepOK
  <1> DEFINE e == Lookup(k)
  <1>1. PICK c, s : entry' = [entry EXCEPT ![e].cache = c, ![e].stream = s]
    BY DEF FdReaddir
  <1>2. UNCHANGED tableVars /\ guest' = guest
    BY DEF FdReaddir
  <1>3. e \in Files /\ entry[e].kind = "dir"
    BY FoundIsUsed DEF IsDir, FdReaddir
  <1> DEFINE f == [entry[e] EXCEPT !.cache = c, !.stream = s]
  <1>4. IsEntry(entry[e]) /\ DOMAIN entry = Files
    BY <1>3 DEF FdInv
  <1>5. entry' = [entry EXCEPT ![e] = f]
    <2> HIDE DEF e
    <2> QED
      BY <1>1, <1>3, <1>4
  <1>6. DOMAIN f = DOMAIN entry[e] /\ f.kind = entry[e].kind
    BY <1>3, <1>4 DEF IsEntry
  <1> HIDE DEF e, f
  <1>7. IsEntry(f) /\ f.kind # "regular"
    BY <1>3, <1>4, <1>6 DEF IsEntry
  <1> QED
    BY <1>2, <1>3, <1>5, <1>6, <1>7, EntryStep

(* Every call of a guest that opens and closes is right. *)
LEMMA OpenAndCloseStep ==
    ASSUME FdInv, OpenAndClose
    PROVE  StepOK
  <1>0. guest.fds \subseteq Int
    BY WasiAssumption DEF FdInv
  <1>1. ASSUME NEW k, PathOpenDir(k) PROVE StepOK
    BY <1>1, PathOpenDirStep
  <1>2. ASSUME NEW k, SockAcceptFn(k) PROVE StepOK
    BY <1>2, SockAcceptStep DEF SockAcceptFn
  <1>3. ASSUME NEW k \in guest.fds, NEW fails \in BOOLEAN, FdClose(k, fails) PROVE StepOK
    BY <1>0, <1>3, CloseFileStep DEF FdClose
  <1>4. ASSUME NEW from \in guest.fds, NEW to \in guest.fds, FdRenumber(from, to) PROVE StepOK
    BY <1>0, <1>4, RenumberStep DEF FdRenumber
  <1>5. ASSUME CloseContext PROVE StepOK
    BY <1>5, CloseAllStep DEF CloseContext
  <1> QED
    BY <1>1, <1>2, <1>3, <1>4, <1>5 DEF OpenAndClose

(* Every call of a guest that uses files is right. *)
LEMMA UseFilesStep ==
    ASSUME FdInv, UseFiles
    PROVE  StepOK
  <1>0. guest.fds \subseteq Int
    BY WasiAssumption DEF FdInv
  <1>1. ASSUME NEW n, Appears(n) PROVE StepOK
    BY <1>1, SameStep DEF Appears
  <1>2. ASSUME NEW k, NEW n, NEW o \in Flags, PathOpen(k, n, o) PROVE StepOK
    BY <1>2, PathOpenStep
  <1>3. ASSUME NEW k \in guest.fds, FdClose(k, FALSE) PROVE StepOK
    BY <1>0, <1>3, CloseFileStep DEF FdClose
  <1>4. ASSUME NEW k \in guest.fds, FdRead(k) PROVE StepOK
    BY <1>0, <1>4, SetPosStep DEF FdRead
  <1>5. ASSUME NEW k \in guest.fds, FdWrite(k) PROVE StepOK
    BY <1>0, <1>5, SetPosStep DEF FdWrite
  <1>6. ASSUME NEW k, NEW n, FdPwrite(k, n) PROVE StepOK
    BY <1>6, SameStep DEF FdPwrite
  <1>7. ASSUME NEW k, NEW n, FdFilestatSetSize(k, n) \/ FdAllocate(k, n) PROVE StepOK
    BY <1>7, SameStep DEF FdAllocate, FdFilestatSetSize
  <1>8. ASSUME NEW k \in guest.fds, NEW w, NEW n, FdSeek(k, w, n) PROVE StepOK
    <2>1. PICK p : SetPos(k, p)
      BY <1>8 DEF FdSeek
    <2>2. Regular(k) /\ UNCHANGED tableVars /\ guest' = guest
      BY <1>8 DEF FdSeek
    <2> QED
      BY <1>0, <1>8, <2>1, <2>2, SetPosStep
  <1>9. ASSUME NEW k \in guest.fds, NEW append, FdFdstatSetFlags(k, append) PROVE StepOK
    BY <1>0, <1>9, SetFlagsStep
  <1>10. ASSUME NEW k, NEW n, PathUnlinkFile(k, n) PROVE StepOK
    BY <1>10, SameStep DEF PathUnlinkFile
  <1>11. ASSUME NEW k, NEW l, NEW m, NEW n, PathRename(k, l, m, n) PROVE StepOK
    BY <1>11, SameStep DEF PathRename
  <1>12. ASSUME NEW k, NEW l, NEW m, NEW n, PathLink(k, l, m, n) PROVE StepOK
    BY <1>12, SameStep DEF PathLink
  <1> QED
    BY <1>1, <1>2, <1>3, <1>4, <1>5, <1>6, <1>7, <1>8, <1>9, <1>10, <1>11, <1>12 DEF UseFiles

(* Every call of a guest that scans the directory is right. *)
LEMMA ScanDirectoryStep ==
    ASSUME FdInv, ScanDirectory
    PROVE  StepOK
  <1>0. guest.fds \subseteq Int
    BY WasiAssumption DEF FdInv
  <1>1. ASSUME NEW n, Appears(n) PROVE StepOK
    BY <1>1, SameStep DEF Appears
  <1>2. ASSUME NEW k, NEW n, PathUnlinkFile(k, n) PROVE StepOK
    BY <1>2, SameStep DEF PathUnlinkFile
  <1>3. ASSUME NEW k \in guest.fds, NEW c, NEW b, NEW fails, FdReaddir(k, c, b, fails)
        PROVE  StepOK
    BY <1>0, <1>3, ReaddirStep
  <1> QED
    BY <1>1, <1>2, <1>3 DEF ScanDirectory

(* Every step keeps FdInv, is a step of the map, and keeps files. *)
LEMMA EveryStep ==
    ASSUME FdInv, [WasiNext]_wasiVars
    PROVE  StepOK
  <1>1. CASE WasiNext
    BY <1>1, OpenAndCloseStep, UseFilesStep, ScanDirectoryStep DEF WasiNext
  <1>2. CASE UNCHANGED wasiVars
    BY <1>2, SameStep DEF wasiVars, tableVars
  <1> QED
    BY <1>1, <1>2
----------------------------------------------------------------------------
(* The initial table, filled by Insert.                                    *)

(* Descriptors 0 to n - 1 denote files 1 to n. *)
Filled(t, n) ==
    /\ IsTable(t) /\ UsedOf(t) = 0 .. n - 1
    /\ \A k \in 0 .. n - 1 : FdsOf(t)[k] = k + 1

(* Inserting file n + 1 into a table of n gives it number n. *)
LEMMA FillNext ==
    ASSUME NEW t, NEW n \in 0 .. 4, Filled(t, n)
    PROVE  Filled(Insert(t, n + 1).tab, n + 1)
  <1> DEFINE key == Insert(t, n + 1).key
             r   == Insert(t, n + 1).tab
  <1>1. n + 1 \in Files
    <2>1. Cardinality(Files) \in Nat
      BY FS_CardinalityType
    <2> QED
      BY <2>1
  <1>2. IsTable(t) /\ UsedOf(t) = 0 .. n - 1 /\ DOMAIN FdsOf(t) = 0 .. n - 1
        /\ \A k \in 0 .. n - 1 : FdsOf(t)[k] = k + 1
    BY DEF Filled, FdsOf
  <1>3. /\ key \in Nat /\ key \notin UsedOf(t) /\ \A j \in 0 .. key - 1 : j \in UsedOf(t)
        /\ IsTable(r) /\ UsedOf(r) = UsedOf(t) \cup {key} /\ FdsOf(r) = Plus(FdsOf(t), key, n + 1)
    BY <1>1, <1>2, InsertProperties
  <1> HIDE DEF key, r
  <1>4. key = n
    <2>1. ~ (key < n)
      BY <1>2, <1>3
    <2>2. ~ (n < key)
      <3>1. n < key => n \in 0 .. key - 1
        BY <1>3
      <3> QED
        BY <1>2, <1>3, <3>1
    <2> QED
      BY <1>3, <2>1, <2>2
  <1>5. (0 .. n - 1) \cup {n} = 0 .. n + 1 - 1
    OBVIOUS
  <1>6. \A k \in 0 .. n + 1 - 1 : FdsOf(r)[k] = k + 1
    BY <1>2, <1>3, <1>4, <1>5 DEF Plus
  <1>7. IsTable(r) /\ UsedOf(r) = 0 .. n + 1 - 1
    BY <1>2, <1>3, <1>4, <1>5
  <1>8. Filled(r, n + 1)
    BY <1>6, <1>7 DEF Filled
  <1> QED
    BY <1>8 DEF r

(* The five files of InitFSContext have the numbers 0 to 4. *)
LEMMA PreopenedFilled == Filled(Preopened, 5)
  <1> DEFINE t1 == Insert(EmptyTable, 1).tab
             t2 == Insert(t1, 2).tab
             t3 == Insert(t2, 3).tab
             t4 == Insert(t3, 4).tab
             t5 == Insert(t4, 5).tab
  <1>0. Preopened = t5
    BY DEF Preopened
  <1>1. Filled(EmptyTable, 0)
    BY EmptyIsTable DEF Filled
  <1>2. Filled(t1, 1)
    <2>1. Filled(Insert(EmptyTable, 0 + 1).tab, 0 + 1)
      BY <1>1, FillNext
    <2> QED
      BY <2>1
  <1> HIDE DEF t1
  <1>3. Filled(t2, 2)
    <2>1. Filled(Insert(t1, 1 + 1).tab, 1 + 1)
      BY <1>2, FillNext
    <2> QED
      BY <2>1
  <1> HIDE DEF t2
  <1>4. Filled(t3, 3)
    <2>1. Filled(Insert(t2, 2 + 1).tab, 2 + 1)
      BY <1>3, FillNext
    <2> QED
      BY <2>1
  <1> HIDE DEF t3
  <1>5. Filled(t4, 4)
    <2>1. Filled(Insert(t3, 3 + 1).tab, 3 + 1)
      BY <1>4, FillNext
    <2> QED
      BY <2>1
  <1> HIDE DEF t4
  <1>6. Filled(t5, 5)
    <2>1. Filled(Insert(t4, 4 + 1).tab, 4 + 1)
      BY <1>5, FillNext
    <2> QED
      BY <2>1
  <1> QED
    BY <1>0, <1>6

(* The first state satisfies FdInv and maps to the first state of FDMap. *)
LEMMA InitStep ==
    ASSUME WasiInit
    PROVE  FdInv /\ Map!FDInit
  <1> DEFINE F == FdsOf(Table)
  <1>1. IsTable(Preopened) /\ UsedOf(Preopened) = 0 .. 4 /\ DOMAIN FdsOf(Preopened) = 0 .. 4
        /\ \A k \in 0 .. 4 : FdsOf(Preopened)[k] = k + 1
    <2>1. 0 .. 5 - 1 = 0 .. 4
      OBVIOUS
    <2> QED
      BY <2>1, PreopenedFilled DEF Filled, FdsOf
  <1>2. Table = Preopened
    BY <1>1 DEF WasiInit, InitFSContext, Table, IsTable
  <1>3. 1 .. 5 \subseteq Files /\ Files \subseteq Nat
    <2>1. Cardinality(Files) \in Nat
      BY FS_CardinalityType
    <2> QED
      BY <2>1
  <1>4. IsTable(Table) /\ DOMAIN F = 0 .. 4 /\ \A k \in 0 .. 4 : F[k] = k + 1
    BY <1>1, <1>2
  <1> HIDE DEF F
  <1>5. entry = [e \in Files |->
                   CASE e \in 1 .. 3 -> Preopen("stdio")
                     [] e = 4 -> [NewDir EXCEPT !.isPreopen = TRUE]
                     [] e = 5 -> Preopen("listener")
                     [] OTHER -> Garbage]
    BY DEF WasiInit, InitFSContext
  <1>6. ASSUME NEW e \in Files
        PROVE  IsEntry(entry[e]) /\ (entry[e].kind # "none" <=> e \in 1 .. 5)
    <2>1. CASE e \in 1 .. 3
      <3>1. entry[e] = Preopen("stdio")
        BY <1>5, <2>1
      <3> QED
        BY <2>1, <3>1 DEF Preopen, IsEntry
    <2>2. CASE e = 4
      <3>1. entry[e] = [NewDir EXCEPT !.isPreopen = TRUE]
        BY <1>5, <2>2
      <3>2. DOMAIN entry[e] = {"kind", "isPreopen", "closed", "stream", "cache"}
            /\ entry[e].kind = "dir"
        BY <3>1 DEF NewDir
      <3> QED
        BY <2>2, <3>2 DEF IsEntry
    <2>3. CASE e = 5
      <3>1. entry[e] = Preopen("listener")
        BY <1>5, <2>3
      <3> QED
        BY <2>3, <3>1 DEF Preopen, IsEntry
    <2>4. CASE e \notin 1 .. 3 /\ e # 4 /\ e # 5
      <3>1. entry[e] = Garbage /\ e \notin 1 .. 5
        BY <1>3, <1>5, <2>4
      <3> QED
        BY <3>1, GarbageIsEntry
    <2> QED
      BY <2>1, <2>2, <2>3, <2>4
  <1>7. Owns(F, entry)
    <2>1. \A k \in DOMAIN F : F[k] \in Files /\ entry[F[k]].kind # "none"
      <3>1. \A k \in 0 .. 4 : k + 1 \in 1 .. 5
        OBVIOUS
      <3> QED
        BY <1>3, <1>4, <1>6, <3>1
    <2>2. \A k, l \in DOMAIN F : F[k] = F[l] => k = l
      BY <1>4
    <2>3. ASSUME NEW e \in Files, entry[e].kind # "none" PROVE \E k \in DOMAIN F : F[k] = e
      <3>1. e \in 1 .. 5
        BY <1>6, <2>3
      <3>2. e - 1 \in 0 .. 4 /\ (e - 1) + 1 = e
        BY <3>1
      <3> QED
        BY <1>4, <3>2
    <2> QED
      BY <2>1, <2>2, <2>3 DEF Owns
  <1>8. FdInv
    BY <1>4, <1>5, <1>6, <1>7 DEF FdInv, WasiInit, F
  <1>9. Map!FDInit
    <2>1. F = [k \in Used |-> items[k + 1]]
      BY TableOfState DEF F
    <2>2. 0 .. 4 = {0, 1, 2, 3, 4}
      OBVIOUS
    <2>3. \A k \in 0 .. 4 : F[k] \in Files
      BY <1>4, <1>7 DEF Owns
    <2>4. [k \in Used |-> items[k + 1]] \in [{0, 1, 2, 3, 4} -> Files]
      <3>1. Used = {0, 1, 2, 3, 4}
        BY <1>4, <2>2, TableOfState DEF F
      <3>2. \A k \in Used : items[k + 1] \in Files
        BY <2>1, <2>2, <2>3, <3>1
      <3> QED
        BY <3>1, <3>2
    <2> QED
      BY <2>4 DEF Map!FDInit
  <1> QED
    BY <1>8, <1>9
----------------------------------------------------------------------------
(* FdInv holds throughout: the bit masks and the items stay a table, and   *)
(* map the descriptors in use one to one to the files in use, through      *)
(* every call of table.go, FSContext and the guest.                        *)
THEOREM FdInvariance == WasiSpec => []FdInv
  <1>1. WasiInit => FdInv
    BY InitStep
  <1>2. FdInv /\ [WasiNext]_wasiVars => FdInv'
    BY EveryStep DEF StepOK
  <1> QED
    BY <1>1, <1>2, PTL DEF WasiSpec

(* Every open file has exactly one descriptor and every descriptor in use  *)
(* a file of its own, whatever is opened, renumbered, accepted or closed   *)
(* (FSContext, fs.go) and whichever closing fails.                         *)
THEOREM FilesOwnedOnce == WasiSpec => []OneDescriptorEach
  <1>1. ASSUME FdInv PROVE OneDescriptorEach
    <2> DEFINE F == FdsOf(Table)
    <2>1. Owns(F, entry)
      BY <1>1 DEF FdInv
    <2>2. DOMAIN F = Used /\ \A k \in Used : F[k] = items[k + 1]
      BY TableOfState
    <2> HIDE DEF F
    <2> QED
      BY <2>1, <2>2 DEF Owns, OneDescriptorEach, IsOpen
  <1> QED
    BY <1>1, FdInvariance, PTL

(* The table of masks and items (descriptor/table.go) implements the map   *)
(* FDMap: Insert finds the lowest descriptor that is free, and renumbering *)
(* and closing change what they name and nothing else.                     *)
THEOREM TableImplementsMap == WasiSpec => ImplementsMap
  <1>1. WasiInit => Map!FDInit
    BY InitStep
  <1>2. FdInv /\ [WasiNext]_wasiVars => [Map!FDNext]_([k \in Used |-> items[k + 1]])
    BY EveryStep DEF StepOK
  <1> QED
    BY <1>1, <1>2, FdInvariance, PTL DEF WasiSpec, ImplementsMap, Map!FDSpec

(* A descriptor keeps its file, and the offset when its flags are set,     *)
(* whatever happened to the path since it was opened (osFile.reopen).      *)
THEOREM DescriptorsKeepFiles == WasiSpec => FileKept
  <1>1. FdInv /\ [WasiNext]_wasiVars => Keeps
    BY EveryStep DEF StepOK
  <1>2. FdInv /\ [WasiNext]_wasiVars =>
           [\A e \in Files : entry[e].kind = "regular" /\ entry'[e].kind = "regular" =>
               /\ entry'[e].node = entry[e].node
               /\ entry'[e].append # entry[e].append \/ entry'[e].osAppend # entry[e].osAppend
                      => entry'[e].pos = entry[e].pos /\ size' = size]_wasiVars
    BY <1>1 DEF Keeps
  <1> QED
    BY <1>2, FdInvariance, PTL DEF WasiSpec, FileKept
----------------------------------------------------------------------------
(***************************************************************************)
(* DirentScan and the scans of WasiFiles, for any directory, lengths of    *)
(* names and buffers: what a guest reads of a directory, in any number of  *)
(* calls, again or not, with entries that come and go.                     *)
(*                                                                         *)
(* The window of the cache is the end of a log of all entries the cache    *)
(* was ever given since the rewind.  A Read only appends to the log, and   *)
(* the guest's knowledge is a prefix of it (ScanInv).                      *)
(***************************************************************************)

USE WasiAssumption

Entries == FileNames \cup {".", ".."}
----------------------------------------------------------------------------
(* What is written to the buffer of the guest.                             *)

(* f[i] is what the first i dirents take. *)
Sums(f, names, n) ==
    f = [i \in 0 .. n |->
            IF i = 0 THEN 0 ELSE f[i - 1] + DirentSize + NameLen[names[i]]]

(* Such a function exists: a longest one could be extended. *)
LEMMA SumsExist == \A names : \A n \in Nat : \E f : Sums(f, names, n)
  <1> SUFFICES ASSUME NEW names PROVE \A n \in Nat : \E f : Sums(f, names, n)
    OBVIOUS
  <1> DEFINE Bad == {n \in Nat : ~ \E f : Sums(f, names, n)}
  <1> SUFFICES ASSUME Bad # {} PROVE FALSE
    OBVIOUS
  <1>1. PICK n \in Bad : \A y \in Bad : n <= y
    <2>1. Bad \in SUBSET Nat
      OBVIOUS
    <2> HIDE DEF Bad
    <2> QED
      BY <2>1, LeastNatural
  <1>2. n \in Nat /\ ~ \E f : Sums(f, names, n)
    BY <1>1
  <1>3. n # 0
    <2> DEFINE z == [i \in 0 .. 0 |-> 0]
    <2>1. Sums(z, names, 0)
      BY DEF Sums
    <2> QED
      BY <1>2, <2>1
  <1>4. n - 1 \in Nat /\ ~ (n <= n - 1)
    BY <1>2, <1>3
  <1>5. PICK f : Sums(f, names, n - 1)
    BY <1>1, <1>4
  <1>6. \A i \in 0 .. n - 1 :
            f[i] = IF i = 0 THEN 0 ELSE f[i - 1] + DirentSize + NameLen[names[i]]
    BY <1>5 DEF Sums
  <1> DEFINE g == [i \in 0 .. n |->
                      IF i < n THEN f[i] ELSE f[n - 1] + DirentSize + NameLen[names[n]]]
  <1>7. ASSUME NEW i \in 0 .. n
        PROVE  g[i] = IF i = 0 THEN 0 ELSE g[i - 1] + DirentSize + NameLen[names[i]]
    <2>1. CASE i = 0
      BY <1>2, <1>3, <1>6, <2>1
    <2>2. CASE i # 0 /\ i < n
      <3>1. i \in 0 .. n - 1 /\ i - 1 \in 0 .. n /\ i - 1 < n
        BY <1>2, <2>2
      <3>2. g[i] = f[i] /\ g[i - 1] = f[i - 1]
        BY <2>2, <3>1
      <3> QED
        BY <1>6, <2>2, <3>1, <3>2
    <2>3. CASE i = n
      <3>1. n - 1 \in 0 .. n /\ n - 1 < n /\ ~ (n < n)
        BY <1>2, <1>3
      <3>2. g[n - 1] = f[n - 1] /\ g[n] = f[n - 1] + DirentSize + NameLen[names[n]]
        BY <2>3, <3>1
      <3> QED
        BY <1>3, <2>3, <3>2
    <2> QED
      BY <1>2, <2>1, <2>2, <2>3
  <1>8. g = [i \in 0 .. n |-> g[i]]
    OBVIOUS
  <1> HIDE DEF g
  <1>9. Sums(g, names, n)
    BY <1>7, <1>8 DEF Sums
  <1> QED
    BY <1>2, <1>9

(* Every dirent takes at least its header. *)
LEMMA BytesBound ==
    ASSUME NEW names \in Seq(Entries)
    PROVE  Bytes(names) \in Nat /\ Bytes(names) >= Len(names) * DirentSize
  <1> DEFINE n == Len(names)
             f == CHOOSE f : Sums(f, names, n)
  <1>0. n \in Nat /\ DirentSize \in Nat /\ \A i \in 1 .. n : NameLen[names[i]] \in Nat
    BY ElementOfSeq DEF Entries
  <1>1. Bytes(names) = f[n]
    BY DEF Bytes, Sums
  <1>2. Sums(f, names, n)
    BY <1>0, SumsExist
  <1> HIDE DEF f
  <1>3. \A i \in 0 .. n :
            f[i] = IF i = 0 THEN 0 ELSE f[i - 1] + DirentSize + NameLen[names[i]]
    BY <1>2 DEF Sums
  <1> DEFINE Bad == {i \in 0 .. n : ~ (f[i] \in Nat /\ f[i] >= i * DirentSize)}
  <1>4. Bad = {}
    <2> SUFFICES ASSUME Bad # {} PROVE FALSE
      OBVIOUS
    <2>1. PICK i \in Bad : \A y \in Bad : i <= y
      <3>1. Bad \in SUBSET Nat
        BY <1>0
      <3> HIDE DEF Bad
      <3> QED
        BY <3>1, LeastNatural
    <2>2. i \in 0 .. n /\ ~ (f[i] \in Nat /\ f[i] >= i * DirentSize)
      BY <2>1
    <2>3. i # 0
      BY <1>0, <1>3, <2>2
    <2>4. i - 1 \in 0 .. n /\ ~ (i <= i - 1) /\ i \in 1 .. n
      BY <1>0, <2>2, <2>3
    <2>5. f[i - 1] \in Nat /\ f[i - 1] >= (i - 1) * DirentSize
      BY <2>1, <2>4
    <2>6. f[i] = f[i - 1] + DirentSize + NameLen[names[i]] /\ NameLen[names[i]] \in Nat
      BY <1>0, <1>3, <2>2, <2>3, <2>4
    <2>7. (i - 1) * DirentSize + DirentSize = i * DirentSize
      BY <1>0, <2>2
    <2>8. f[i] \in Nat /\ f[i] >= (i - 1) * DirentSize + DirentSize
      <3> DEFINE p == (i - 1) * DirentSize
                 v == NameLen[names[i]]
      <3>1. p \in Int /\ v \in Nat
        BY <1>0, <2>2, <2>6
      <3>2. f[i - 1] \in Nat /\ f[i - 1] >= p /\ f[i] = f[i - 1] + DirentSize + v
        BY <2>5, <2>6
      <3> HIDE DEF p, v
      <3>3. f[i] \in Nat /\ f[i] >= p + DirentSize
        BY <3>1, <3>2, WasiAssumption
      <3> QED
        BY <3>3 DEF p
    <2> QED
      BY <2>2, <2>7, <2>8
  <1>5. f[n] \in Nat /\ f[n] >= n * DirentSize
    BY <1>0, <1>4
  <1> QED
    BY <1>1, <1>5

(* The entries written whole are the first of those that were read. *)
LEMMA WholeProperties ==
    ASSUME NEW s \in Seq(Entries), NEW bufLen \in Nat
    PROVE  LET w == Whole(s, bufLen)
           IN  /\ w \in Seq(Entries) /\ Len(w) \in 0 .. Len(s)
               /\ \A i \in 1 .. Len(w) : w[i] = s[i]
  <1> DEFINE L == Len(s)
             fits == {k \in 0 .. L : k = 0 \/ Bytes(SubSeq(s, 1, k)) <= bufLen}
             k == CHOOSE k \in fits : \A l \in fits : l <= k
             Rest == {L - l : l \in fits}
  <1>0. L \in Nat /\ \A i \in 1 .. L : s[i] \in Entries
    BY ElementOfSeq
  <1>1. Whole(s, bufLen) = SubSeq(s, 1, k)
    BY DEF Whole
  <1>2. 0 \in fits /\ \A l \in fits : l \in 0 .. L
    BY <1>0
  <1> HIDE DEF fits
  <1>3. PICK x \in Rest : \A y \in Rest : x <= y
    <2>1. Rest \in SUBSET Nat /\ Rest # {}
      BY <1>0, <1>2
    <2> HIDE DEF Rest
    <2> QED
      BY <2>1, LeastNatural
  <1>4. PICK l \in fits : x = L - l
    BY <1>3
  <1>5. \A m \in fits : m <= l
    <2> SUFFICES ASSUME NEW m \in fits PROVE m <= l
      OBVIOUS
    <2>1. L - l <= L - m
      BY <1>3, <1>4
    <2> QED
      BY <1>0, <1>2, <2>1
  <1>6. k \in fits
    BY <1>4, <1>5
  <1> HIDE DEF k
  <1>7. k \in 0 .. L
    BY <1>2, <1>6
  <1>8. /\ SubSeq(s, 1, k) \in Seq(Entries)
        /\ Len(SubSeq(s, 1, k)) = IF 1 <= k THEN k - 1 + 1 ELSE 0
        /\ \A i \in 1 .. k - 1 + 1 : SubSeq(s, 1, k)[i] = s[1 + i - 1]
    <2>1. k \in Int /\ 1 \in Int /\ \A i \in 1 .. k : s[i] \in Entries
      BY <1>0, <1>7
    <2> QED
      BY <2>1, SubSeqProperties
  <1> DEFINE w == SubSeq(s, 1, k)
  <1> HIDE DEF w
  <1>9. Len(w) = k
    BY <1>7, <1>8 DEF w
  <1>10. ASSUME NEW i \in 1 .. k PROVE w[i] = s[i]
    <2>1. i \in 1 .. k - 1 + 1 /\ 1 + i - 1 = i
      BY <1>7
    <2> QED
      BY <1>8, <2>1 DEF w
  <1> QED
    BY <1>1, <1>7, <1>8, <1>9, <1>10 DEF w

(* The guest is told the end only if all that was read is written and      *)
(* was less than what was asked for: the reason to ask for two more than   *)
(* the headers that fit.                                                   *)
LEMMA ToldTheEnd ==
    ASSUME NEW s \in Seq(Entries), NEW bufLen \in Nat, bufused(s, bufLen) < bufLen
    PROVE  Len(Whole(s, bufLen)) = Len(s) /\ Len(s) < maxDirEntries(bufLen)
  <1> DEFINE q == bufLen \div DirentSize
             L == Len(s)
  <1>1. Len(Whole(s, bufLen)) \in 0 .. L /\ L \in Nat
    BY WholeProperties
  <1>2. ~ (Len(Whole(s, bufLen)) < L) /\ Bytes(s) < bufLen
    BY <1>1 DEF bufused
  <1>3. L * DirentSize < bufLen
    <2> DEFINE p == L * DirentSize
    <2>1. p \in Nat /\ Bytes(s) \in Nat /\ Bytes(s) >= p
      BY <1>1, BytesBound
    <2> HIDE DEF p
    <2>2. p < bufLen
      BY <1>2, <2>1
    <2> QED
      BY <2>2 DEF p
  <1>4. L <= q /\ q \in Nat
    BY <1>1, <1>3
  <1> HIDE DEF q, L
  <1> QED
    BY <1>1, <1>2, <1>4 DEF maxDirEntries, q, L
----------------------------------------------------------------------------
(* The window and the log.                                                 *)

(* Readdir returns each name once, and all of them if less than asked for. *)
LEMMA ReaddirProperties ==
    ASSUME NEW s \in SUBSET FileNames, NEW n \in Nat
    PROVE  LET more == Readdir(s, n)
           IN  /\ more \in Seq(s) /\ Distinct(more) /\ Len(more) <= n
               /\ Len(more) < n => s \ ToSet(more) = {}
  <1> DEFINE C == Cardinality(s)
             all == SetToSeq(s)
             k == IF n < C THEN n ELSE C
             more == SubSeq(all, 1, k)
  <1>1. C \in Nat /\ ExistsBijection(1 .. C, s)
    BY FS_Subset, FS_CardinalityType
  <1>2. PICK b : b \in Bijection(1 .. C, s)
    BY <1>1 DEF ExistsBijection
  <1>3. b \in [1 .. C -> s] /\ IsInjective(b)
    BY <1>2 DEF Bijection, Injection, IsInjective
  <1>4. all \in [1 .. C -> s] /\ IsInjective(all)
    BY <1>3 DEF SetToSeq
  <1> HIDE DEF all
  <1>5. all \in Seq(s) /\ Len(all) = C /\ \A i \in 1 .. C : all[i] \in s
    BY <1>1, <1>4
  <1>6. \A x \in s : \E i \in 1 .. C : all[i] = x
    <2>1. all \in Injection(1 .. C, s)
      BY <1>4 DEF Injection, IsInjective
    <2>2. IsFiniteSet(s) /\ IsFiniteSet(1 .. C) /\ Cardinality(1 .. C) = C
      <3>1. C \in Int /\ 1 \in Int
        BY <1>1
      <3>2. IsFiniteSet(1 .. C) /\ Cardinality(1 .. C) = IF 1 > C THEN 0 ELSE C - 1 + 1
        BY <3>1, FS_Interval
      <3>3. Cardinality(1 .. C) = C
        <4> HIDE DEF C
        <4> QED
          BY <1>1, <3>2
      <3> QED
        BY <3>2, <3>3, FS_Subset
    <2>3. all \in Surjection(1 .. C, s)
      BY <2>1, <2>2, FS_Injection
    <2> QED
      BY <2>3 DEF Surjection
  <1>7. Readdir(s, n) = more /\ k \in 0 .. C
    BY <1>1, <1>5 DEF Readdir, all
  <1>8. /\ SubSeq(all, 1, k) \in Seq(s)
        /\ Len(SubSeq(all, 1, k)) = IF 1 <= k THEN k - 1 + 1 ELSE 0
        /\ \A i \in 1 .. k - 1 + 1 : SubSeq(all, 1, k)[i] = all[1 + i - 1]
    <2> HIDE DEF k, C
    <2>1. k \in Int /\ 1 \in Int /\ \A i \in 1 .. k : all[i] \in s
      BY <1>1, <1>5, <1>7
    <2> QED
      BY <2>1, SubSeqProperties
  <1> HIDE DEF more, C
  <1>9. more \in Seq(s) /\ Len(more) = k
    BY <1>7, <1>8 DEF more
  <1>10. ASSUME NEW i \in 1 .. k PROVE more[i] = all[i] /\ i \in 1 .. C
    <2>1. i \in 1 .. k - 1 + 1 /\ 1 + i - 1 = i /\ i \in 1 .. C
      BY <1>1, <1>7
    <2> QED
      BY <1>8, <2>1 DEF more
  <1>11. Distinct(more)
    <2> SUFFICES ASSUME NEW i \in 1 .. k, NEW j \in 1 .. k, more[i] = more[j] PROVE i = j
      BY <1>9 DEF Distinct
    <2>1. all[i] = all[j] /\ i \in DOMAIN all /\ j \in DOMAIN all
      BY <1>4, <1>10
    <2> QED
      BY <1>4, <2>1 DEF IsInjective
  <1>12. ASSUME Len(more) < n PROVE s \ ToSet(more) = {}
    <2>1. k = C
      BY <1>1, <1>9, <1>12
    <2> SUFFICES ASSUME NEW x \in s PROVE x \in ToSet(more)
      OBVIOUS
    <2>2. PICK i \in 1 .. C : all[i] = x
      BY <1>6
    <2>3. i \in DOMAIN more /\ more[i] = x
      BY <1>9, <1>10, <2>1, <2>2
    <2> QED
      BY <2>3 DEF ToSet
  <1>13. Len(more) <= n
    BY <1>1, <1>9
  <1> QED
    BY <1>7, <1>9, <1>11, <1>12, <1>13

(* The window D of R entries read in all is the end of log. *)
Window(D, R, log) ==
    /\ D \in Seq(Entries) /\ R = Len(log) /\ Len(D) <= R
    /\ \A j \in 1 .. Len(D) : D[j] = log[R - Len(D) + j]

(* log holds the dots and names once each, and none that are still to be   *)
(* read, and misses no name of stable but those.                           *)
Logged(log, stream, stable) ==
    /\ log \in Seq(Entries) /\ Distinct(log)
    /\ Len(log) >= 2 /\ log[1] = "." /\ log[2] = ".."
    /\ stream \in SUBSET FileNames /\ \A i \in 1 .. Len(log) : log[i] \notin stream
    /\ \A x \in stable : x \in stream \/ Occurs(x, log)

(* Names to be read may go from the directory. *)
LEMMA LoggedLess ==
    ASSUME NEW log, NEW stream, NEW stable, Logged(log, stream, stable),
           NEW s \in SUBSET stream, \A x \in stable : x \in stream => x \in s
    PROVE  Logged(log, s, stable)
  BY DEF Logged

(* What is read goes to the end of the log and of the window. *)
LEMMA LoggedMore ==
    ASSUME NEW D, NEW R, NEW log, Window(D, R, log),
           NEW stream, NEW stable, Logged(log, stream, stable),
           NEW more \in Seq(stream), Distinct(more)
    PROVE  /\ Window(D \o more, R + Len(more), log \o more)
           /\ Logged(log \o more, stream \ ToSet(more), stable)
           /\ Len(log \o more) = Len(log) + Len(more)
           /\ \A i \in 1 .. Len(log) : (log \o more)[i] = log[i]
           /\ Len(D \o more) = Len(D) + Len(more)
           /\ \A i \in 1 .. Len(D) : (D \o more)[i] = D[i]
  <1> DEFINE N == Len(log)
             M == Len(more)
             K == Len(D)
             E == D \o more
             l == log \o more
  <1>1. /\ log \in Seq(Entries) /\ D \in Seq(Entries) /\ N \in Nat /\ M \in Nat /\ K \in Nat
        /\ R = N /\ K <= R /\ stream \subseteq FileNames
        /\ \A i \in 1 .. M : more[i] \in stream
        /\ \A j \in 1 .. K : D[j] = log[R - K + j]
    BY ElementOfSeq DEF Window, Logged
  <1>2. more \in Seq(Entries)
    BY <1>1 DEF Entries
  <1>3. /\ l \in Seq(Entries) /\ Len(l) = N + M
        /\ \A i \in 1 .. N + M : l[i] = IF i <= N THEN log[i] ELSE more[i - N]
    BY <1>1, <1>2, ConcatProperties
  <1>4. /\ E \in Seq(Entries) /\ Len(E) = K + M
        /\ \A i \in 1 .. K + M : E[i] = IF i <= K THEN D[i] ELSE more[i - K]
    BY <1>1, <1>2, ConcatProperties
  <1> HIDE DEF l, E
  <1>5. \A i \in 1 .. N : l[i] = log[i]
    BY <1>1, <1>3
  <1>6. \A i \in 1 .. K : E[i] = D[i]
    BY <1>1, <1>4
  <1>7. ASSUME NEW i \in 1 .. M PROVE l[N + i] = more[i] /\ N + i \in 1 .. N + M
    <2>1. N + i \in 1 .. N + M /\ ~ (N + i <= N) /\ (N + i) - N = i
      BY <1>1
    <2> QED
      BY <1>3, <2>1
  <1>8. ASSUME NEW i \in N + 1 .. N + M PROVE l[i] = more[i - N] /\ i - N \in 1 .. M
    <2>1. i \in 1 .. N + M /\ ~ (i <= N) /\ i - N \in 1 .. M
      BY <1>1
    <2> QED
      BY <1>3, <2>1
  <1>9. Window(E, R + M, l)
    <2>1. ASSUME NEW j \in 1 .. K + M PROVE E[j] = l[R + M - (K + M) + j]
      <3>1. CASE j <= K
        <4>1. j \in 1 .. K /\ R - K + j \in 1 .. N /\ R + M - (K + M) + j = R - K + j
          BY <1>1, <3>1
        <4> QED
          BY <1>1, <1>5, <1>6, <4>1
      <3>2. CASE j > K
        <4>1. /\ j - K \in 1 .. M /\ ~ (j <= K)
              /\ R + M - (K + M) + j = N + (j - K)
          BY <1>1, <3>2
        <4> QED
          BY <1>4, <1>7, <4>1
      <3> QED
        BY <1>1, <3>1, <3>2
    <2>2. R + M = Len(l) /\ Len(E) <= R + M /\ Len(E) = K + M
      BY <1>1, <1>3, <1>4
    <2> QED
      BY <1>4, <2>1, <2>2 DEF Window
  <1>10. \A i \in 1 .. N : log[i] \notin stream
    BY DEF Logged
  <1>11. Distinct(l)
    <2> SUFFICES ASSUME NEW i \in 1 .. N + M, NEW j \in 1 .. N + M, l[i] = l[j] PROVE i = j
      BY <1>3 DEF Distinct
    <2>1. (i \in 1 .. N \/ i \in N + 1 .. N + M) /\ (j \in 1 .. N \/ j \in N + 1 .. N + M)
      BY <1>1
    <2>2. CASE i \in 1 .. N /\ j \in 1 .. N
      BY <1>5, <2>2 DEF Logged, Distinct
    <2>3. CASE i \in N + 1 .. N + M /\ j \in N + 1 .. N + M
      <3>1. i - N = j - N
        BY <1>8, <2>3 DEF Distinct
      <3> QED
        BY <1>1, <3>1
    <2>0. ASSUME NEW a \in 1 .. N, NEW b \in N + 1 .. N + M PROVE l[a] # l[b]
      <3>1. l[a] \notin stream
        BY <1>5, <1>10
      <3>2. l[b] = more[b - N] /\ b - N \in 1 .. M
        BY <1>8
      <3>3. l[b] \in stream
        BY <1>1, <3>2
      <3> QED
        BY <3>1, <3>3
    <2>4. CASE i \in 1 .. N /\ j \in N + 1 .. N + M
      BY <2>0, <2>4
    <2>5. CASE i \in N + 1 .. N + M /\ j \in 1 .. N
      BY <2>0, <2>5
    <2> QED
      BY <2>1, <2>2, <2>3, <2>4, <2>5
  <1>12. \A i \in 1 .. N + M : l[i] \notin stream \ ToSet(more)
    <2> SUFFICES ASSUME NEW i \in 1 .. N + M PROVE l[i] \notin stream \ ToSet(more)
      OBVIOUS
    <2>1. i \in 1 .. N \/ i \in N + 1 .. N + M
      BY <1>1
    <2>2. i \in N + 1 .. N + M => l[i] \in ToSet(more)
      BY <1>8 DEF ToSet
    <2> QED
      BY <1>5, <1>10, <2>1, <2>2
  <1>13. ASSUME NEW x \in stable PROVE x \in stream \ ToSet(more) \/ Occurs(x, l)
    <2>1. CASE Occurs(x, log)
      <3>1. PICK i \in 1 .. N : log[i] = x
        BY <2>1 DEF Occurs
      <3>2. i \in 1 .. N + M /\ l[i] = x
        BY <1>1, <1>5, <3>1
      <3> QED
        BY <1>3, <3>2 DEF Occurs
    <2>2. CASE x \in ToSet(more)
      <3>1. PICK i \in 1 .. M : more[i] = x
        BY <2>2 DEF ToSet
      <3>2. l[N + i] = x /\ N + i \in 1 .. N + M
        BY <1>7, <3>1
      <3> QED
        BY <1>3, <3>2 DEF Occurs
    <2> QED
      BY <2>1, <2>2 DEF Logged
  <1>14. Len(l) >= 2 /\ l[1] = "." /\ l[2] = ".."
    <2>1. N >= 2 /\ log[1] = "." /\ log[2] = ".." /\ 1 \in 1 .. N /\ 2 \in 1 .. N
      BY <1>1 DEF Logged
    <2> QED
      BY <1>1, <1>3, <1>5, <2>1
  <1>15. Logged(l, stream \ ToSet(more), stable)
    BY <1>1, <1>3, <1>11, <1>12, <1>13, <1>14 DEF Logged
  <1> QED
    BY <1>3, <1>4, <1>5, <1>6, <1>9, <1>15 DEF l, E

(* The window may be moved on to any position it holds. *)
LEMMA WindowMoved ==
    ASSUME NEW D, NEW R, NEW log, log \in Seq(Entries), Window(D, R, log),
           NEW pos \in Nat, R - Len(D) <= pos, pos <= R
    PROVE  LET E == SubSeq(D, pos - (R - Len(D)) + 1, Len(D))
           IN  Window(E, R, log) /\ Len(E) = R - pos
  <1> DEFINE K == Len(D)
             a == pos - (R - K)
             E == SubSeq(D, a + 1, K)
  <1>1. K \in Nat /\ R \in Nat /\ K <= R /\ a \in 0 .. K /\ \A i \in 1 .. K : D[i] \in Entries
    BY ElementOfSeq DEF Window
  <1>2. \A j \in 1 .. K : D[j] = log[R - K + j]
    BY DEF Window
  <1>3. /\ SubSeq(D, a + 1, K) \in Seq(Entries)
        /\ Len(SubSeq(D, a + 1, K)) = IF a + 1 <= K THEN K - (a + 1) + 1 ELSE 0
        /\ \A i \in 1 .. K - (a + 1) + 1 : SubSeq(D, a + 1, K)[i] = D[(a + 1) + i - 1]
    <2> DEFINE b == a + 1
    <2>1. b \in Int /\ K \in Int /\ \A i \in b .. K : D[i] \in Entries
      BY <1>1
    <2>2. D \in Seq(Entries)
      BY DEF Window
    <2> HIDE DEF b
    <2>3. /\ SubSeq(D, b, K) \in Seq(Entries)
          /\ Len(SubSeq(D, b, K)) = IF b <= K THEN K - b + 1 ELSE 0
          /\ \A i \in 1 .. K - b + 1 : SubSeq(D, b, K)[i] = D[b + i - 1]
      BY <2>1, <2>2, SubSeqProperties
    <2> QED
      BY <2>3 DEF b
  <1> HIDE DEF E
  <1>4. E \in Seq(Entries) /\ Len(E) = K - a /\ K - a = R - pos /\ R - pos <= R
    BY <1>1, <1>3 DEF E
  <1>5. ASSUME NEW j \in 1 .. K - a PROVE E[j] = log[R - (K - a) + j]
    <2>1. /\ j \in 1 .. K - (a + 1) + 1 /\ (a + 1) + j - 1 = a + j /\ a + j \in 1 .. K
          /\ R - K + (a + j) = R - (K - a) + j
      BY <1>1
    <2>2. E[j] = D[a + j]
      BY <1>3, <2>1 DEF E
    <2> QED
      BY <1>2, <2>1, <2>2
  <1>6. Window(E, R, log)
    BY <1>1, <1>4, <1>5 DEF Window
  <1> QED
    BY <1>4, <1>6 DEF E
----------------------------------------------------------------------------
(* DirentCache.Read.                                                       *)

IsCache(c) == DOMAIN c = {"isNil", "dirents", "countRead", "eof"} /\ c.isNil = FALSE

Start(c) == c.countRead - Len(c.dirents)

(* A cache that was read, with log, of a directory with stream left. *)
Reads(c, stream, log, stable) ==
    /\ IsCache(c) /\ Window(c.dirents, c.countRead, log)
    /\ Logged(log, stream, stable)
    /\ c.eof => stream = {}

(* A Read of n entries at pos gave r: entries of the log from pos on, and  *)
(* if less than n, then up to the end of the log and of the directory.     *)
Gives(r, log, stable, pos, n) ==
    /\ Reads(r.cache, r.stream, log, stable) /\ Start(r.cache) = pos
    /\ r.dirents \in Seq(Entries) /\ pos + Len(r.dirents) <= Len(log)
    /\ \A i \in 1 .. Len(r.dirents) : r.dirents[i] = log[pos + i]
    /\ Len(r.dirents) < n => r.stream = {} /\ pos + Len(r.dirents) = Len(log)

Extends(longer, log) ==
    Len(log) <= Len(longer) /\ \A i \in 1 .. Len(log) : longer[i] = log[i]

(* What Reads says of the lengths and of the window, with Start for the    *)
(* difference.                                                             *)
LEMMA ReadsFacts ==
    ASSUME NEW c, NEW stream, NEW log, NEW stable, Reads(c, stream, log, stable)
    PROVE  /\ c.dirents \in Seq(Entries) /\ log \in Seq(Entries)
           /\ Len(c.dirents) \in Nat /\ Len(log) \in Nat /\ c.countRead = Len(log)
           /\ Len(c.dirents) <= Len(log) /\ Start(c) \in Nat
           /\ c.isNil = FALSE
           /\ \A j \in 1 .. Len(c.dirents) : c.dirents[j] = log[Start(c) + j]
  <1>1. /\ c.dirents \in Seq(Entries) /\ log \in Seq(Entries) /\ c.countRead = Len(log)
        /\ Len(c.dirents) <= Len(log) /\ c.isNil = FALSE
        /\ \A j \in 1 .. Len(c.dirents) : c.dirents[j] = log[c.countRead - Len(c.dirents) + j]
    BY DEF Reads, Window, Logged, IsCache
  <1>2. Len(c.dirents) \in Nat /\ Len(log) \in Nat
    BY <1>1
  <1> DEFINE p == c.countRead - Len(c.dirents)
  <1>3. Start(c) = p
    BY DEF Start
  <1>4. p \in Nat
    BY <1>1, <1>2
  <1> HIDE DEF p
  <1>5. \A j \in 1 .. Len(c.dirents) : c.dirents[j] = log[p + j]
    BY <1>1 DEF p
  <1> QED
    BY <1>1, <1>2, <1>3, <1>4, <1>5

(* Setting the fields of a cache. *)
LEMMA CacheMoved ==
    ASSUME NEW c, IsCache(c), NEW D
    PROVE  LET d == [c EXCEPT !.dirents = D]
           IN  /\ IsCache(d) /\ d.dirents = D
               /\ d.countRead = c.countRead /\ d.eof = c.eof
  BY DEF IsCache

(* Returning what the window holds, up to n. *)
LEMMA GivesWindow ==
    ASSUME NEW c, NEW stream, NEW log, NEW stable, Reads(c, stream, log, stable),
           NEW n \in Nat, Len(c.dirents) < n => stream = {}
    PROVE  Gives(Result(c, stream, cachedDirents(c, n), FALSE), log, stable, Start(c), n)
  <1> DEFINE D == c.dirents
             x == cachedDirents(c, n)
             r == Result(c, stream, x, FALSE)
             p == Start(c)
  <1>0. r.cache = c /\ r.stream = stream /\ r.dirents = x
    BY DEF Result
  <1>1. /\ D \in Seq(Entries) /\ Len(D) \in Nat /\ Len(log) \in Nat /\ p \in Nat
        /\ p + Len(D) = Len(log) /\ \A j \in 1 .. Len(D) : D[j] = log[p + j]
        /\ \A j \in 1 .. Len(D) : D[j] \in Entries
    <2>1. /\ D \in Seq(Entries) /\ Len(D) \in Nat /\ Len(log) \in Nat /\ p \in Nat
          /\ \A j \in 1 .. Len(D) : D[j] = log[p + j]
          /\ c.countRead = Len(log)
      BY ReadsFacts
    <2>2. p + Len(D) = Len(log)
      BY <2>1 DEF Start
    <2> QED
      BY <2>1, <2>2, ElementOfSeq
  <1>2. CASE Len(D) > n
    <2>1. x = SubSeq(D, 1, n)
      BY <1>2 DEF cachedDirents
    <2>2. /\ SubSeq(D, 1, n) \in Seq(Entries)
          /\ Len(SubSeq(D, 1, n)) = IF 1 <= n THEN n - 1 + 1 ELSE 0
          /\ \A i \in 1 .. n - 1 + 1 : SubSeq(D, 1, n)[i] = D[1 + i - 1]
      <3>1. n \in Int /\ 1 \in Int /\ \A i \in 1 .. n : D[i] \in Entries
        BY <1>1, <1>2
      <3> QED
        BY <1>1, <3>1, SubSeqProperties
    <2> HIDE DEF x, p, D
    <2>3. x \in Seq(Entries) /\ Len(x) = n
      BY <2>1, <2>2
    <2>4. ASSUME NEW i \in 1 .. n PROVE x[i] = log[p + i]
      <3>1. i \in 1 .. n - 1 + 1 /\ 1 + i - 1 = i /\ i \in 1 .. Len(D)
        BY <1>1, <1>2
      <3> QED
        BY <1>1, <2>1, <2>2, <3>1
    <2>5. p + Len(x) <= Len(log) /\ ~ (Len(x) < n)
      BY <1>1, <1>2, <2>3
    <2> QED
      BY <1>0, <2>3, <2>4, <2>5 DEF Gives, p, r, x
  <1>3. CASE ~ (Len(D) > n)
    <2>1. x = D
      BY <1>3 DEF cachedDirents
    <2> HIDE DEF x
    <2>2. p + Len(x) <= Len(log)
      BY <1>1, <2>1
    <2> QED
      BY <1>0, <1>1, <2>1, <2>2 DEF Gives, r, x
  <1> QED
    BY <1>2, <1>3

(* Filling the window up to n from the directory. *)
LEMMA GivesFetched ==
    ASSUME NEW c, NEW s, NEW log, NEW stable, Reads(c, s, log, stable),
           NEW want \in Nat \ {0}, NEW n \in Nat, n = Len(c.dirents) + want
    PROVE  LET more == Readdir(s, want)
               next == IF more = <<>> THEN c
                       ELSE [c EXCEPT !.eof = Len(more) < want,
                                      !.dirents = c.dirents \o more,
                                      !.countRead = c.countRead + Len(more)]
               r == Result(next, s \ ToSet(more), cachedDirents(next, n), FALSE)
           IN  \E longer : Extends(longer, log) /\ Gives(r, longer, stable, Start(c), n)
  <1> DEFINE more == Readdir(s, want)
             e == [c EXCEPT !.eof = Len(more) < want,
                            !.dirents = c.dirents \o more,
                            !.countRead = c.countRead + Len(more)]
             next == IF more = <<>> THEN c ELSE e
             rest == s \ ToSet(more)
             r == Result(next, rest, cachedDirents(next, n), FALSE)
  <1>1. s \in SUBSET FileNames /\ IsCache(c) /\ Window(c.dirents, c.countRead, log)
        /\ Logged(log, s, stable)
    BY DEF Reads, Logged
  <1>2. /\ more \in Seq(s) /\ Distinct(more) /\ Len(more) <= want
        /\ Len(more) < want => rest = {}
    BY <1>1, ReaddirProperties
  <1>3. Len(c.dirents) \in Nat /\ Len(log) \in Nat /\ c.countRead = Len(log)
    BY ReadsFacts
  <1> HIDE DEF more, rest
  <1>4. CASE more = <<>>
    <2>1. rest = s
      BY <1>4 DEF ToSet, rest
    <2>2. Len(more) = 0 /\ s = {}
      BY <1>2, <1>4, <2>1
    <2>3. Gives(Result(c, s, cachedDirents(c, n), FALSE), log, stable, Start(c), n)
      BY <2>2, GivesWindow
    <2>4. Extends(log, log)
      BY <1>3 DEF Extends
    <2> QED
      BY <1>4, <2>1, <2>3, <2>4 DEF more, rest
  <1>5. CASE more # <<>>
    <2> DEFINE longer == log \o more
    <2>1. /\ e.eof = (Len(more) < want) /\ e.dirents = c.dirents \o more
          /\ e.countRead = c.countRead + Len(more) /\ IsCache(e)
      <3> DEFINE D == c.dirents \o more
                 R == c.countRead + Len(more)
                 f == Len(more) < want
      <3> HIDE DEF D, R, f
      <3>1. e = [c EXCEPT !.eof = f, !.dirents = D, !.countRead = R]
        BY DEF D, R, f
      <3> HIDE DEF e
      <3>2. IsCache(e) /\ e.dirents = D /\ e.countRead = R /\ e.eof = f
        BY <1>1, <3>1 DEF IsCache
      <3> QED
        BY <3>2 DEF D, R, f
    <2> HIDE DEF e
    <2>2. /\ Window(c.dirents \o more, c.countRead + Len(more), longer)
          /\ Logged(longer, rest, stable)
          /\ Len(longer) = Len(log) + Len(more)
          /\ \A i \in 1 .. Len(log) : longer[i] = log[i]
          /\ Len(c.dirents \o more) = Len(c.dirents) + Len(more)
      BY <1>1, <1>2, LoggedMore DEF rest
    <2> HIDE DEF longer
    <2>3. Reads(e, rest, longer, stable)
      BY <1>2, <2>1, <2>2 DEF Reads
    <2>4. Len(more) \in Nat
      BY <1>2
    <2>5. Start(e) = Start(c) /\ Extends(longer, log)
      BY <1>3, <2>1, <2>2, <2>4 DEF Start, Extends
    <2>6. Len(e.dirents) < n => rest = {}
      BY <1>2, <1>3, <2>1, <2>2, <2>4
    <2>7. Gives(Result(e, rest, cachedDirents(e, n), FALSE), longer, stable, Start(e), n)
      BY <2>3, <2>6, GivesWindow
    <2> QED
      BY <1>5, <2>5, <2>7 DEF e, more, rest
  <1> QED
    BY <1>4, <1>5

(* The first Read begins a log with the dots. *)
LEMMA ReadFirstGives ==
    ASSUME NEW d, NEW s \in SUBSET FileNames, NEW n \in Nat, n >= 3, NEW fails,
           ~ ReadFirst(d, s, n, fails).errno
    PROVE  \E log : Gives(ReadFirst(d, s, n, fails), log, s, 0, n)
  <1> DEFINE want == n - 2
             start == [isNil |-> FALSE, dirents |-> dotEntries, countRead |-> 2, eof |-> FALSE]
             more == Readdir(s, want)
             next == IF more = <<>> THEN start
                     ELSE [start EXCEPT !.eof = Len(more) < want,
                                        !.dirents = dotEntries \o more,
                                        !.countRead = 2 + Len(more)]
             r == Result(next, s \ ToSet(more), cachedDirents(next, n), FALSE)
  <1>1. want \in Nat \ {0} /\ n = 2 + want /\ n >= 2
    OBVIOUS
  <1>2. ~ fails
    <2>1. fails => ReadFirst(d, s, n, fails) = Result(start, s, <<>>, TRUE)
      BY <1>1 DEF ReadFirst
    <2>2. Result(start, s, <<>>, TRUE).errno = TRUE
      BY DEF Result
    <2> QED
      BY <2>1, <2>2
  <1>3. ReadFirst(d, s, n, fails) = r
    BY <1>1, <1>2 DEF ReadFirst
  <1>4. Reads(start, s, dotEntries, s) /\ Len(dotEntries) = 2
    <2>1. /\ dotEntries \in Seq(Entries) /\ Len(dotEntries) = 2
          /\ dotEntries[1] = "." /\ dotEntries[2] = ".."
      BY DEF dotEntries, Entries
    <2>2. "." # ".."
      OBVIOUS
    <2>3. \A i \in 1 .. 2 : i = 1 \/ i = 2
      OBVIOUS
    <2>4. Logged(dotEntries, s, s)
      BY <2>1, <2>2, <2>3 DEF Logged, Distinct
    <2>5. Window(dotEntries, 2, dotEntries)
      BY <2>1 DEF Window
    <2>6. /\ IsCache(start) /\ start.dirents = dotEntries /\ start.countRead = 2
          /\ start.eof = FALSE
      BY DEF IsCache
    <2> QED
      BY <2>1, <2>4, <2>5, <2>6 DEF Reads
  <1>5. start.dirents = dotEntries /\ start.countRead = 2 /\ Start(start) = 0
    BY <1>4 DEF Start
  <1> HIDE DEF start, want
  <1>6. \E log : Extends(log, dotEntries) /\ Gives(r, log, s, Start(start), n)
    BY <1>1, <1>4, <1>5, GivesFetched
  <1> QED
    BY <1>3, <1>5, <1>6

(* A Read at pos of a cache with log; names of stream may have gone since. *)
MayRead(c, stream, log, stable, s, pos, n) ==
    /\ Reads(c, stream, log, stable)
    /\ s \in SUBSET stream /\ \A x \in stable : x \in stream => x \in s
    /\ pos \in Nat /\ Start(c) <= pos /\ pos <= Len(log) /\ n \in Nat

(* It fails if the system call does, at pos, or goes on with the log. *)
GoesOn(r, s, log, stable, pos, n, fails) ==
    /\ r.stream \in SUBSET s
    /\ r.errno => fails /\ Reads(r.cache, r.stream, log, stable) /\ Start(r.cache) = pos
    /\ ~ r.errno => \E longer : Extends(longer, log) /\ Gives(r, longer, stable, pos, n)

(* A later Read goes on with the log, from any position of the window. *)
LEMMA ReadNextGives ==
    ASSUME NEW c, NEW stream, NEW log, NEW stable, NEW s, NEW pos, NEW n, NEW fails,
           MayRead(c, stream, log, stable, s, pos, n)
    PROVE  GoesOn(ReadNext(c, s, pos, n, fails), s, log, stable, pos, n, fails)
  <1> USE DEF MayRead, GoesOn
  <1> DEFINE cacheStart == c.countRead - Len(c.dirents)
             moved == [c EXCEPT !.dirents = SubSeq(c.dirents, pos - cacheStart + 1, Len(c.dirents))]
             want == n - Len(moved.dirents)
             more == IF want > 0 /\ ~ c.eof THEN Readdir(s, want) ELSE <<>>
             next == IF more = <<>> THEN moved
                     ELSE [moved EXCEPT !.eof = Len(more) < want,
                                        !.dirents = moved.dirents \o more,
                                        !.countRead = moved.countRead + Len(more)]
             r == ReadNext(c, s, pos, n, fails)
  <1>1. cacheStart = Start(c) /\ Start(c) \in Nat /\ Len(log) \in Nat /\ c.countRead = Len(log)
    BY ReadsFacts DEF Start
  <1>2. ~ (pos < cacheStart)
    BY <1>1
  <1>3. r = IF fails /\ want > 0 /\ ~ c.eof THEN Result(moved, s, <<>>, TRUE)
            ELSE Result(next, s \ ToSet(more), cachedDirents(next, n), FALSE)
    BY <1>2 DEF ReadNext
  <1>4. /\ moved.countRead = c.countRead /\ moved.eof = c.eof
        /\ moved.dirents = SubSeq(c.dirents, pos - cacheStart + 1, Len(c.dirents))
        /\ IsCache(moved)
    <2> DEFINE D == SubSeq(c.dirents, pos - cacheStart + 1, Len(c.dirents))
    <2> HIDE DEF D
    <2>1. moved = [c EXCEPT !.dirents = D] /\ IsCache(c)
      BY DEF D, Reads
    <2> HIDE DEF moved
    <2>2. /\ IsCache(moved) /\ moved.dirents = D
          /\ moved.countRead = c.countRead /\ moved.eof = c.eof
      BY <2>1, CacheMoved
    <2> QED
      BY <2>2 DEF D
  <1> HIDE DEF moved, r
  <1>5. Reads(moved, s, log, stable) /\ Start(moved) = pos
        /\ Len(moved.dirents) = Len(log) - pos
    <2>1. Window(moved.dirents, c.countRead, log) /\ Len(moved.dirents) = c.countRead - pos
      <3> DEFINE D == c.dirents
                 R == c.countRead
      <3>1. log \in Seq(Entries) /\ Window(D, R, log) /\ R - Len(D) <= pos /\ pos <= R
        BY <1>1 DEF Reads, Logged
      <3> HIDE DEF D, R
      <3>2. LET E == SubSeq(D, pos - (R - Len(D)) + 1, Len(D))
            IN  Window(E, R, log) /\ Len(E) = R - pos
        BY <3>1, WindowMoved
      <3> QED
        BY <1>4, <3>2 DEF D, R
    <2>2. Logged(log, s, stable)
      BY LoggedLess DEF Reads
    <2>3. c.eof => s = {}
      BY DEF Reads
    <2>4. Start(moved) = pos
      BY <1>1, <1>4, <2>1 DEF Start
    <2> QED
      BY <1>1, <1>4, <2>1, <2>2, <2>3, <2>4 DEF Reads
  <1>6. want \in Int /\ n = Len(moved.dirents) + want
    BY <1>1, <1>5
  <1>7. CASE fails /\ want > 0 /\ ~ c.eof
    <2>1. r = Result(moved, s, <<>>, TRUE)
      BY <1>3, <1>7
    <2>2. r.cache = moved /\ r.stream = s /\ r.errno = TRUE
      BY <2>1 DEF Result
    <2> QED
      BY <1>5, <1>7, <2>2 DEF r
  <1>8. CASE ~ (fails /\ want > 0 /\ ~ c.eof)
    <2>1. r = Result(next, s \ ToSet(more), cachedDirents(next, n), FALSE)
      BY <1>3, <1>8
    <2>2. r.errno = FALSE /\ r.stream \in SUBSET s
      BY <2>1 DEF Result
    <2>3. CASE want > 0 /\ ~ c.eof
      <3>1. want \in Nat \ {0} /\ more = Readdir(s, want)
        BY <1>6, <2>3
      <3> HIDE DEF want
      <3>2. \E longer : Extends(longer, log) /\ Gives(r, longer, stable, Start(moved), n)
        BY <1>5, <1>6, <2>1, <3>1, GivesFetched
      <3> QED
        BY <1>5, <2>2, <3>2 DEF r
    <2>4. CASE ~ (want > 0 /\ ~ c.eof)
      <3>1. more = <<>>
        BY <2>4
      <3>2. r = Result(moved, s, cachedDirents(moved, n), FALSE)
        <4>1. s \ ToSet(<<>>) = s
          BY DEF ToSet
        <4> QED
          BY <2>1, <3>1, <4>1
      <3>3. Len(moved.dirents) < n => s = {}
        <4>1. Len(moved.dirents) < n => want > 0
          BY <1>1, <1>5
        <4> QED
          BY <1>4, <1>5, <2>4, <4>1 DEF Reads
      <3>4. Gives(r, log, stable, Start(moved), n)
        BY <1>5, <3>2, <3>3, GivesWindow
      <3>5. Extends(log, log)
        BY <1>1 DEF Extends
      <3> QED
        BY <1>5, <2>2, <3>4, <3>5 DEF r
    <2> QED
      BY <2>3, <2>4
  <1> QED
    BY <1>7, <1>8

CacheDomain == {"isNil", "dirents", "countRead", "eof"}

(* A cache keeps its fields. *)
LEMMA ReadKeepsDomain ==
    ASSUME NEW d, DOMAIN d = CacheDomain, NEW s, NEW all, NEW pos, NEW n, NEW fails
    PROVE  DOMAIN Read(d, s, all, pos, n, fails).cache = CacheDomain
  <1>1. ASSUME NEW e, DOMAIN e = CacheDomain, NEW t
        PROVE  DOMAIN ReadFirst(e, t, n, fails).cache = CacheDomain
    BY <1>1 DEF ReadFirst, Result, CacheDomain
  <1>2. ASSUME NEW e, DOMAIN e = CacheDomain, NEW t
        PROVE  DOMAIN ReadNext(e, t, pos, n, fails).cache = CacheDomain
    BY <1>2 DEF ReadNext, Result
  <1> DEFINE d0 == IF pos = 0 /\ ~ d.isNil
                   THEN [d EXCEPT !.isNil = TRUE, !.dirents = <<>>, !.countRead = 0] ELSE d
             s0 == IF d0.isNil THEN all ELSE s
  <1>3. DOMAIN d0 = CacheDomain
    OBVIOUS
  <1>4. Read(d, s, all, pos, n, fails) =
            IF pos > d.countRead THEN Result(d, s, <<>>, TRUE)
            ELSE IF n = 0 THEN Result(d0, s0, <<>>, FALSE)
            ELSE IF d0.isNil THEN ReadFirst(d0, s0, n, fails)
            ELSE ReadNext(d0, s0, pos, n, fails)
    BY DEF Read
  <1> HIDE DEF d0, s0
  <1> QED
    BY <1>1, <1>2, <1>3, <1>4 DEF Result

(* Read at 0 rewinds. *)
LEMMA ReadRewinds ==
    ASSUME NEW d, DOMAIN d = CacheDomain, NEW s, NEW all, NEW n \in Nat \ {0}, NEW fails,
           ~ Read(d, s, all, 0, n, fails).errno
    PROVE  \E d0 : Read(d, s, all, 0, n, fails) = ReadFirst(d0, all, n, fails)
  <1> DEFINE d0 == IF ~ d.isNil
                   THEN [d EXCEPT !.isNil = TRUE, !.dirents = <<>>, !.countRead = 0] ELSE d
             s0 == IF d0.isNil THEN all ELSE s
  <1>1. Read(d, s, all, 0, n, fails) =
            IF 0 > d.countRead THEN Result(d, s, <<>>, TRUE)
            ELSE IF n = 0 THEN Result(d0, s0, <<>>, FALSE)
            ELSE IF d0.isNil THEN ReadFirst(d0, s0, n, fails)
            ELSE ReadNext(d0, s0, 0, n, fails)
    BY DEF Read
  <1>2. d0.isNil
    BY DEF CacheDomain
  <1>3. ~ (0 > d.countRead)
    BY <1>1 DEF Result
  <1> HIDE DEF d0
  <1> QED
    BY <1>1, <1>2, <1>3

(* Read at any other position goes on. *)
LEMMA ReadGoesOn ==
    ASSUME NEW d, NEW stream, NEW log, NEW stable, Reads(d, stream, log, stable),
           NEW s, NEW all, NEW pos \in Nat \ {0}, pos <= Len(log), NEW n \in Nat \ {0}, NEW fails
    PROVE  Read(d, s, all, pos, n, fails) = ReadNext(d, s, pos, n, fails)
  <1>1. d.countRead = Len(log) /\ Len(log) \in Nat /\ d.isNil = FALSE
    BY ReadsFacts
  <1>2. ~ (pos > d.countRead) /\ pos # 0 /\ n # 0
    BY <1>1
  <1> QED
    BY <1>1, <1>2 DEF Read
----------------------------------------------------------------------------
(* Scans.                                                                  *)

(* What a guest got per position is what the log of the directory says,    *)
(* the position to go on from is in the window, and the end is the end.    *)
Knows(sc, f, log) ==
    /\ Reads(f.cache, f.stream, log, sc.stable)
    /\ sc.got \in Seq(SUBSET Entries) /\ Len(sc.got) <= Len(log)
    /\ \A i \in 1 .. Len(sc.got) : sc.got[i] = {log[i]}
    /\ sc.next \in Nat /\ Start(f.cache) <= sc.next /\ sc.next <= Len(sc.got)
    /\ sc.ended => f.stream = {} /\ Len(sc.got) = Len(log)

ScanDomain == {"dir", "got", "next", "stable", "ended", "refused"}

Idle == scan.dir = NoFile /\ scan.got = <<>> /\ scan.ended = FALSE

ScanInv ==
    /\ DOMAIN fs = FileNames
    /\ DOMAIN scan = ScanDomain /\ scan.stable \in SUBSET Listing /\ scan.refused = FALSE
    /\ guest.calls = "scan" =>
           \A e \in Files : entry[e].kind = "dir" => DOMAIN entry[e].cache = CacheDomain
    /\ \/ Idle
       \/ guest.calls = "scan" /\ scan.dir \in Files /\ \E log : Knows(scan, entry[scan.dir], log)

(* What was got before, and the entries written whole after cookie. *)
Merge(got, cookie, whole) ==
    [i \in 1 .. Larger(Len(got), cookie + Len(whole)) |->
        (IF i <= Len(got) THEN got[i] ELSE {}) \cup
        (IF i - cookie \in DOMAIN whole THEN {whole[i - cookie]} ELSE {})]

(* Both got and whole are of log. *)
Agree(log, got, cookie, whole) ==
    /\ log \in Seq(Entries) /\ got \in Seq(SUBSET Entries) /\ Len(got) <= Len(log)
    /\ \A i \in 1 .. Len(got) : got[i] = {log[i]}
    /\ cookie \in Nat /\ cookie <= Len(got)
    /\ whole \in Seq(Entries) /\ cookie + Len(whole) <= Len(log)
    /\ \A i \in 1 .. Len(whole) : whole[i] = log[cookie + i]

(* new has L entries of log, as many as the longer of the two reaches. *)
Joined(log, got, cookie, whole, new, L) ==
    /\ new \in Seq(SUBSET Entries) /\ Len(new) = L
    /\ Len(got) <= L /\ cookie + Len(whole) <= L /\ L <= Len(log)
    /\ L = Len(got) \/ L = cookie + Len(whole)
    /\ \A i \in 1 .. L : new[i] = {log[i]}

(* Knowledge grows by the entries written whole. *)
LEMMA Merged ==
    ASSUME NEW log, NEW got, NEW cookie, NEW whole, Agree(log, got, cookie, whole)
    PROVE  Joined(log, got, cookie, whole, Merge(got, cookie, whole),
                  Larger(Len(got), cookie + Len(whole)))
  <1> USE DEF Agree
  <1> DEFINE At(i)  == IF i - cookie \in DOMAIN whole THEN {whole[i - cookie]} ELSE {}
             Was(i) == IF i <= Len(got) THEN got[i] ELSE {}
             L      == Larger(Len(got), cookie + Len(whole))
             new    == [i \in 1 .. L |-> Was(i) \cup At(i)]
  <1>0. /\ Len(got) \in Nat /\ Len(whole) \in Nat /\ Len(log) \in Nat
        /\ DOMAIN whole = 1 .. Len(whole) /\ \A i \in 1 .. Len(log) : log[i] \in Entries
    BY ElementOfSeq
  <1>1. /\ L \in Nat /\ Len(got) <= L /\ cookie + Len(whole) <= L /\ L <= Len(log)
        /\ L = Len(got) \/ L = cookie + Len(whole)
    BY <1>0 DEF Larger
  <1> HIDE DEF L
  <1>2. ASSUME NEW i \in 1 .. L PROVE Was(i) \cup At(i) = {log[i]}
    <2>1. Was(i) = {log[i]} \/ Was(i) = {}
      <3>1. i <= Len(got) => i \in 1 .. Len(got)
        BY <1>0, <1>1
      <3> QED
        BY <3>1
    <2>2. At(i) = {log[i]} \/ At(i) = {}
      <3>1. CASE i - cookie \in 1 .. Len(whole)
        <4>1. cookie + (i - cookie) = i
          BY <1>1
        <4>2. whole[i - cookie] = log[i]
          BY <3>1, <4>1
        <4> QED
          BY <1>0, <3>1, <4>2
      <3>2. CASE i - cookie \notin 1 .. Len(whole)
        BY <1>0, <3>2
      <3> QED
        BY <3>1, <3>2
    <2>3. Was(i) # {} \/ At(i) # {}
      <3>1. CASE i <= Len(got)
        <4>1. i \in 1 .. Len(got)
          BY <1>0, <1>1, <3>1
        <4> QED
          BY <3>1, <4>1
      <3>2. CASE ~ (i <= Len(got))
        <4>1. i - cookie \in 1 .. Len(whole)
          BY <1>0, <1>1, <3>2
        <4> QED
          BY <1>0, <4>1
      <3> QED
        BY <3>1, <3>2
    <2> HIDE DEF Was, At
    <2> QED
      BY <2>1, <2>2, <2>3
  <1>3. ASSUME NEW i \in 1 .. L PROVE new[i] = {log[i]} /\ log[i] \in Entries
    BY <1>0, <1>1, <1>2
  <1>4. DOMAIN new = 1 .. L /\ new = [i \in 1 .. L |-> new[i]]
    OBVIOUS
  <1> HIDE DEF new
  <1>5. new \in [1 .. L -> SUBSET Entries]
    BY <1>3, <1>4
  <1>6. new \in Seq(SUBSET Entries) /\ Len(new) = L
    BY <1>1, <1>5
  <1>7. Merge(got, cookie, whole) = new
    BY DEF Merge, new, L
  <1> QED
    BY <1>1, <1>3, <1>6, <1>7 DEF L, Joined

(* What the guest knows after a Read of b bytes at cookie that gave r. *)
NewScan(old, r, cookie, b) ==
    [old EXCEPT !.got = Merge(old.got, cookie, Whole(r.dirents, b)),
                !.next = cookie + Len(Whole(r.dirents, b)),
                !.ended = bufused(r.dirents, b) < b]

(* When that is knowledge: r is of log, and so is what it knew before. *)
MayLearn(old, r, log, cookie, b, f) ==
    /\ DOMAIN old = ScanDomain /\ cookie \in Nat /\ b \in BufLens
    /\ Gives(r, log, old.stable, cookie, maxDirEntries(b))
    /\ old.got \in Seq(SUBSET Entries) /\ Len(old.got) <= Len(log) /\ cookie <= Len(old.got)
    /\ \A i \in 1 .. Len(old.got) : old.got[i] = {log[i]}
    /\ f.cache = r.cache /\ f.stream = r.stream

Learned(old, new, f, log) ==
    /\ Knows(new, f, log) /\ DOMAIN new = ScanDomain
    /\ new.dir = old.dir /\ new.stable = old.stable /\ new.refused = old.refused

(* What a guest knows after a Read that succeeded. *)
LEMMA KnowsMore ==
    ASSUME NEW old, NEW r, NEW log, NEW cookie, NEW b, NEW f,
           MayLearn(old, r, log, cookie, b, f)
    PROVE  Learned(old, NewScan(old, r, cookie, b), f, log)
  <1> USE DEF MayLearn
  <1> DEFINE whole  == Whole(r.dirents, b)
             L   == Larger(Len(old.got), cookie + Len(whole))
             got == Merge(old.got, cookie, whole)
             ended == bufused(r.dirents, b) < b
             new == [old EXCEPT !.got = got, !.next = cookie + Len(whole), !.ended = ended]
             n == maxDirEntries(b)
  <1>1. /\ Reads(r.cache, r.stream, log, old.stable) /\ Start(r.cache) = cookie
        /\ r.dirents \in Seq(Entries) /\ cookie + Len(r.dirents) <= Len(log)
        /\ \A i \in 1 .. Len(r.dirents) : r.dirents[i] = log[cookie + i]
        /\ Len(r.dirents) < n => r.stream = {} /\ cookie + Len(r.dirents) = Len(log)
    BY DEF Gives
  <1>2. b \in Nat /\ log \in Seq(Entries) /\ Len(log) \in Nat /\ Len(r.dirents) \in Nat
    <2>1. b \in Nat
      OBVIOUS
    <2>2. log \in Seq(Entries)
      BY <1>1 DEF Reads, Logged
    <2> QED
      BY <1>1, <2>1, <2>2
  <1>3. /\ whole \in Seq(Entries) /\ Len(whole) \in 0 .. Len(r.dirents)
        /\ \A i \in 1 .. Len(whole) : whole[i] = r.dirents[i]
    BY <1>1, <1>2, WholeProperties
  <1>4. ended => Len(whole) = Len(r.dirents) /\ Len(r.dirents) < n
    BY <1>1, <1>2, ToldTheEnd
  <1> HIDE DEF whole, n, ended
  <1>5. /\ cookie + Len(whole) <= Len(log)
        /\ \A i \in 1 .. Len(whole) : whole[i] = log[cookie + i]
    BY <1>1, <1>2, <1>3
  <1>6. /\ got \in Seq(SUBSET Entries) /\ Len(got) = L
        /\ Len(old.got) <= L /\ cookie + Len(whole) <= L /\ L <= Len(log)
        /\ L = Len(old.got) \/ L = cookie + Len(whole)
        /\ \A i \in 1 .. L : got[i] = {log[i]}
    <2>1. Agree(log, old.got, cookie, whole)
      BY <1>2, <1>3, <1>5 DEF Agree
    <2>2. Joined(log, old.got, cookie, whole, got, L)
      BY <2>1, Merged
    <2> QED
      BY <2>2 DEF Joined
  <1> HIDE DEF got, L
  <1>7. /\ DOMAIN new = ScanDomain /\ new.got = got /\ new.next = cookie + Len(whole)
        /\ new.ended = ended /\ new.dir = old.dir /\ new.stable = old.stable
        /\ new.refused = old.refused
    BY DEF ScanDomain
  <1> HIDE DEF new
  <1>8. ended => r.stream = {} /\ L = Len(log)
    <2> SUFFICES ASSUME ended PROVE r.stream = {} /\ L = Len(log)
      OBVIOUS
    <2>1. r.stream = {} /\ cookie + Len(whole) = Len(log)
      BY <1>1, <1>4
    <2>2. L \in Nat
      BY <1>6
    <2> QED
      BY <1>2, <1>6, <2>1, <2>2
  <1>9. cookie + Len(whole) \in Nat /\ cookie <= cookie + Len(whole)
    BY <1>3
  <1>10. Knows(new, f, log)
    BY <1>1, <1>6, <1>7, <1>8, <1>9 DEF Knows
  <1> QED
    BY <1>7, <1>10 DEF new, got, whole, ended, NewScan, Learned

(* A step that reads no directory keeps ScanInv, also if names go. *)
LEMMA ScanKept ==
    ASSUME ScanInv, DOMAIN fs' = FileNames, guest' = guest,
           guest.calls = "scan" => entry' = entry,
           DOMAIN scan' = ScanDomain, scan'.stable \in SUBSET scan.stable,
           scan'.stable \in SUBSET Listing',
           scan'.dir = scan.dir, scan'.got = scan.got, scan'.next = scan.next,
           scan'.ended = scan.ended, scan'.refused = scan.refused
    PROVE  ScanInv'
  <1>1. CASE Idle
    BY <1>1 DEF ScanInv, Idle
  <1>2. CASE ~ Idle
    <2>1. guest.calls = "scan" /\ scan.dir \in Files /\ entry' = entry
      BY <1>2 DEF ScanInv
    <2>2. PICK log : Knows(scan, entry[scan.dir], log)
      BY <1>2 DEF ScanInv
    <2>3. Knows(scan', entry[scan.dir], log)
      BY <2>2 DEF Knows, Reads, Logged
    <2> QED
      BY <2>1, <2>3 DEF ScanInv
  <1> QED
    BY <1>1, <1>2

(* A step that touches neither names nor scan keeps ScanInv. *)
LEMMA SameScan ==
    ASSUME ScanInv, UNCHANGED <<fs, scan, guest>>, guest.calls = "scan" => entry' = entry
    PROVE  ScanInv'
  <1>1. Listing' = Listing
    BY DEF Listing
  <1> QED
    BY <1>1, ScanKept DEF ScanInv

(* A call that changes the directory keeps ScanInv: names that went are no *)
(* longer in stable.                                                       *)
LEMMA ChangedScan ==
    ASSUME ScanInv, DOMAIN fs' = FileNames, guest' = guest, Changed,
           guest.calls = "scan" => entry' = entry
    PROVE  ScanInv'
  <1>1. scan' = [scan EXCEPT !.stable = scan.stable \cap Listing']
    BY DEF Changed
  <1>2. DOMAIN scan = ScanDomain
    BY DEF ScanInv
  <1>3. /\ DOMAIN scan' = ScanDomain /\ scan'.stable = scan.stable \cap Listing'
        /\ scan'.dir = scan.dir /\ scan'.got = scan.got /\ scan'.next = scan.next
        /\ scan'.ended = scan.ended /\ scan'.refused = scan.refused
    BY <1>1, <1>2 DEF ScanDomain
  <1> QED
    BY <1>3, ScanKept

(* A file that another process adds or replaces is no longer in stable. *)
LEMMA AppearsScan ==
    ASSUME ScanInv, NEW name, Appears(name)
    PROVE  ScanInv'
  <1>1. /\ scan' = [scan EXCEPT !.stable = scan.stable \ {name}]
        /\ fs' = [fs EXCEPT ![name] = FreeNode] /\ entry' = entry /\ guest' = guest
    BY DEF Appears
  <1>2. DOMAIN scan = ScanDomain /\ DOMAIN fs = FileNames /\ scan.stable \in SUBSET Listing
    BY DEF ScanInv
  <1>3. /\ DOMAIN scan' = ScanDomain /\ scan'.stable = scan.stable \ {name}
        /\ scan'.dir = scan.dir /\ scan'.got = scan.got /\ scan'.next = scan.next
        /\ scan'.ended = scan.ended /\ scan'.refused = scan.refused
    BY <1>1, <1>2 DEF ScanDomain
  <1>4. DOMAIN fs' = FileNames /\ \A n \in FileNames : n # name => fs'[n] = fs[n]
    BY <1>1, <1>2
  <1>5. scan'.stable \in SUBSET Listing'
    BY <1>2, <1>3, <1>4 DEF Listing
  <1> QED
    BY <1>1, <1>3, <1>4, <1>5, ScanKept

(* How many entries fd_readdir asks for. *)
LEMMA MaxDirEntries ==
    ASSUME NEW b \in BufLens
    PROVE  maxDirEntries(b) \in Nat /\ maxDirEntries(b) >= 3
  <1> DEFINE q == b \div DirentSize
  <1>1. b \in Nat /\ DirentSize \in Nat \ {0} /\ b >= DirentSize
    OBVIOUS
  <1>2. q \in Nat /\ q >= 1
    BY <1>1
  <1> HIDE DEF q
  <1> QED
    BY <1>2 DEF maxDirEntries, q

(* fd_readdir keeps ScanInv. *)
LEMMA ReaddirScan ==
    ASSUME FdInv, ScanInv, guest.calls = "scan", NEW k \in Int, NEW cookie \in Nat,
           NEW b \in BufLens, NEW fails \in BOOLEAN, FdReaddir(k, cookie, b, fails)
    PROVE  ScanInv'
  <1> DEFINE dir == Lookup(k)
             live == entry[dir].stream \cap Listing
             c == entry[dir].cache
             n == maxDirEntries(b)
             r == Read(c, live, Listing, cookie, n, fails)
             f == [entry[dir] EXCEPT !.cache = r.cache, !.stream = r.stream]
  <1>1. /\ entry' = [entry EXCEPT ![dir].cache = r.cache, ![dir].stream = r.stream]
        /\ scan' = Scanned(dir, cookie, r, b, fails) /\ UNCHANGED <<fs, guest>>
    BY DEF FdReaddir
  <1>2. dir \in Files /\ entry[dir].kind = "dir" /\ DOMAIN entry = Files
        /\ {"stream", "cache"} \subseteq DOMAIN entry[dir] /\ dir # NoFile
    <2>1. dir \in Files /\ entry[dir].kind = "dir"
      BY FoundIsUsed DEF IsDir, FdReaddir
    <2>2. IsEntry(entry[dir]) /\ DOMAIN entry = Files
      BY <2>1 DEF FdInv
    <2>3. dir # NoFile
      <3>1. Cardinality(Files) \in Nat
        BY DescriptorsAssumption, FS_CardinalityType
      <3> QED
        BY <2>1, <3>1, DescriptorsAssumption DEF NoFile
    <2> QED
      BY <2>1, <2>2, <2>3 DEF IsEntry
  <1>3. DOMAIN c = CacheDomain
    BY <1>2 DEF ScanInv
  <1>4. DOMAIN r.cache = CacheDomain
    <2> HIDE DEF c, live, n
    <2> QED
      BY <1>3, ReadKeepsDomain
  <1> HIDE DEF r
  <1>5. entry' = [entry EXCEPT ![dir] = f]
    <2> HIDE DEF dir
    <2> QED
      BY <1>1, <1>2
  <1>6. f.cache = r.cache /\ f.stream = r.stream /\ entry'[dir] = f
        /\ \A e \in Files : e # dir => entry'[e] = entry[e]
    <2> HIDE DEF dir
    <2>1. f.cache = r.cache /\ f.stream = r.stream
      BY <1>2
    <2> HIDE DEF f
    <2> QED
      BY <1>2, <1>5, <2>1
  <1>7. \A e \in Files : entry'[e].kind = "dir" => DOMAIN entry'[e].cache = CacheDomain
    BY <1>4, <1>6 DEF ScanInv
  <1>8. n \in Nat /\ n >= 3 /\ n \in Nat \ {0}
    BY MaxDirEntries
  <1>9. Listing' = Listing /\ DOMAIN fs' = FileNames /\ Listing \in SUBSET FileNames
    BY <1>1 DEF Listing, ScanInv
  <1>10. DOMAIN scan = ScanDomain /\ scan.stable \in SUBSET Listing /\ scan.refused = FALSE
    BY DEF ScanInv
  <1>11. ASSUME scan' = NoScan PROVE ScanInv'
    <2>1. /\ DOMAIN scan' = ScanDomain /\ scan'.stable = {} /\ scan'.refused = FALSE
          /\ scan'.dir = NoFile /\ scan'.got = <<>> /\ scan'.ended = FALSE
      BY <1>11 DEF NoScan, ScanDomain
    <2> QED
      BY <1>1, <1>7, <1>9, <2>1 DEF ScanInv, Idle
  <1>12. ASSUME NEW log, Knows(scan', f, log), DOMAIN scan' = ScanDomain,
                scan'.stable \in SUBSET Listing, scan'.refused = FALSE, scan'.dir = dir
         PROVE  ScanInv'
    <2> HIDE DEF f, dir
    <2>1. Knows(scan, entry[scan.dir], log)'
      BY <1>6, <1>12 DEF Knows, Reads, Window, Logged, IsCache
    <2> QED
      BY <1>1, <1>2, <1>7, <1>9, <1>12, <2>1 DEF ScanInv
  <1> HIDE DEF n
  <1>13. CASE cookie > 0 /\ (dir # scan.dir \/ cookie > Len(scan.got))
    BY <1>1, <1>11, <1>13 DEF Scanned
  <1>14. CASE cookie = 0 /\ r.errno
    BY <1>1, <1>11, <1>14 DEF Scanned
  <1>15. CASE cookie = 0 /\ ~ r.errno
    <2> DEFINE begun == [NoScan EXCEPT !.dir = dir, !.stable = Listing]
    <2>1. /\ DOMAIN begun = ScanDomain /\ begun.dir = dir /\ begun.got = <<>>
          /\ begun.stable = Listing /\ begun.refused = FALSE
      BY DEF NoScan, ScanDomain
    <2>2. PICK d0 : r = ReadFirst(d0, Listing, n, fails)
      <3> HIDE DEF c, live
      <3> QED
        BY <1>3, <1>8, <1>15, ReadRewinds DEF r
    <2>3. PICK log : Gives(r, log, Listing, 0, n)
      BY <1>8, <1>9, <1>15, <2>2, ReadFirstGives
    <2>4. /\ begun.got \in Seq(SUBSET Entries) /\ Len(begun.got) = 0 /\ Len(log) \in Nat
          /\ 0 <= Len(log) /\ 0 <= Len(begun.got)
          /\ \A i \in 1 .. Len(begun.got) : begun.got[i] = {log[i]}
      <3>1. log \in Seq(Entries)
        BY <2>3 DEF Gives, Reads, Logged
      <3>2. <<>> \in Seq(SUBSET Entries) /\ Len(<<>>) = 0 /\ \A i \in 1 .. 0 : FALSE
        OBVIOUS
      <3> HIDE DEF begun
      <3> QED
        BY <2>1, <3>1, <3>2
    <2> DEFINE new == NewScan(begun, r, cookie, b)
    <2>5. scan' = new
      <3> HIDE DEF dir, f
      <3> QED
        BY <1>1, <1>15 DEF Scanned, NewScan, Merge
    <2>6. Learned(begun, new, f, log)
      <3> HIDE DEF begun, f, dir
      <3>1. Gives(r, log, begun.stable, cookie, maxDirEntries(b))
        BY <1>15, <2>1, <2>3 DEF n
      <3>2. MayLearn(begun, r, log, cookie, b, f)
        BY <1>6, <1>15, <2>1, <2>4, <3>1 DEF MayLearn
      <3> QED
        BY <3>2, KnowsMore
    <2> HIDE DEF new, f, dir, begun
    <2> QED
      BY <1>12, <2>1, <2>5, <2>6 DEF Learned
  <1>16. CASE cookie > 0 /\ dir = scan.dir /\ ~ (cookie > Len(scan.got))
    <2>1. PICK log : Knows(scan, entry[dir], log)
      BY <1>2, <1>16 DEF ScanInv, Idle
    <2>2. /\ Reads(c, entry[dir].stream, log, scan.stable)
          /\ scan.got \in Seq(SUBSET Entries) /\ Len(scan.got) <= Len(log)
          /\ \A i \in 1 .. Len(scan.got) : scan.got[i] = {log[i]}
          /\ scan.next \in Nat /\ Start(c) <= scan.next /\ scan.next <= Len(scan.got)
          /\ scan.ended => entry[dir].stream = {} /\ Len(scan.got) = Len(log)
      BY <2>1 DEF Knows
    <2>3. Len(scan.got) \in Nat /\ Len(log) \in Nat /\ Start(c) \in Nat
      <3> HIDE DEF c
      <3>1. Len(log) \in Nat /\ Start(c) \in Nat
        BY <2>2, ReadsFacts
      <3> QED
        BY <2>2, <3>1
    <2>4. cookie \in Nat \ {0} /\ cookie <= Len(scan.got) /\ cookie <= Len(log)
      BY <1>16, <2>2, <2>3
    <2>5. live \in SUBSET entry[dir].stream
          /\ \A x \in scan.stable : x \in entry[dir].stream => x \in live
      BY <1>10
    <2> DEFINE stream == entry[dir].stream
               stable == scan.stable
    <2>6. r = ReadNext(c, live, cookie, n, fails)
      <3> HIDE DEF c, live, stream
      <3> QED
        BY <1>8, <2>2, <2>4, ReadGoesOn DEF r, stream
    <2>7. CASE r.errno
      <3> DEFINE next == IF r.cache # c THEN cookie ELSE scan.next
                 refused == cookie = scan.next /\ ~ fails
      <3>1. scan' = [scan EXCEPT !.refused = refused, !.next = next]
        <4> HIDE DEF f, dir
        <4> QED
          BY <1>1, <1>16, <2>4, <2>7 DEF Scanned
      <3>2. /\ DOMAIN scan' = ScanDomain /\ scan'.next = next /\ scan'.refused = refused
            /\ scan'.dir = scan.dir /\ scan'.got = scan.got /\ scan'.stable = scan.stable
            /\ scan'.ended = scan.ended
        <4> HIDE DEF next, refused
        <4> QED
          BY <1>10, <3>1 DEF ScanDomain
      <3>3. /\ Reads(r.cache, r.stream, log, scan.stable) /\ r.stream \in SUBSET stream
            /\ next \in Nat /\ Start(r.cache) <= next /\ next <= Len(scan.got)
            /\ refused = FALSE
        <4>1. CASE cookie < Start(c)
          <5>1. r = Result(c, live, <<>>, TRUE)
            BY <2>6, <4>1 DEF ReadNext, Start
          <5>2. r.cache = c /\ r.stream = live
            BY <5>1 DEF Result
          <5>3. Logged(log, live, scan.stable)
            BY <2>2, <2>5, LoggedLess DEF Reads
          <5>4. Reads(c, live, log, scan.stable)
            BY <2>2, <2>5, <5>3 DEF Reads
          <5>5. cookie # scan.next
            BY <2>2, <2>3, <2>4, <4>1
          <5> QED
            BY <2>2, <2>5, <5>2, <5>4, <5>5
        <4>2. CASE ~ (cookie < Start(c))
          <5>1. Start(c) <= cookie
            BY <2>3, <2>4, <4>2
          <5>2. /\ r.stream \in SUBSET live /\ fails
                /\ Reads(r.cache, r.stream, log, scan.stable) /\ Start(r.cache) = cookie
            <6> HIDE DEF c, live
            <6>1. MayRead(c, stream, log, scan.stable, live, cookie, n)
              BY <1>8, <2>2, <2>4, <2>5, <5>1 DEF MayRead
            <6>2. GoesOn(r, live, log, scan.stable, cookie, n, fails)
              BY <2>6, <6>1, ReadNextGives
            <6> QED
              BY <2>7, <6>2 DEF GoesOn
          <5>3. next \in Nat /\ Start(r.cache) <= next /\ next <= Len(scan.got)
            <6> HIDE DEF c
            <6> QED
              BY <2>2, <2>3, <2>4, <5>2
          <5> QED
            BY <5>2, <5>3
        <4> QED
          BY <4>1, <4>2
      <3>4. Knows(scan', f, log)
        <4> HIDE DEF f, next, refused, c, live, dir
        <4> QED
          BY <1>6, <2>2, <3>2, <3>3 DEF Knows, stream
      <3> HIDE DEF f, dir, next, refused
      <3> QED
        BY <1>10, <1>12, <1>16, <3>2, <3>3, <3>4
    <2>8. CASE ~ r.errno
      <3>1. ~ (cookie < Start(c))
        <4> SUFFICES ASSUME cookie < Start(c) PROVE FALSE
          OBVIOUS
        <4>1. r = Result(c, live, <<>>, TRUE)
          BY <2>6 DEF ReadNext, Start
        <4> QED
          BY <2>8, <4>1 DEF Result
      <3>2. Start(c) <= cookie
        BY <2>3, <2>4, <3>1
      <3>3. PICK longer : Extends(longer, log) /\ Gives(r, longer, scan.stable, cookie, n)
        <4> HIDE DEF c, live
        <4>1. MayRead(c, stream, log, scan.stable, live, cookie, n)
          BY <1>8, <2>2, <2>4, <2>5, <3>2 DEF MayRead
        <4>2. GoesOn(r, live, log, scan.stable, cookie, n, fails)
          BY <2>6, <4>1, ReadNextGives
        <4> QED
          BY <2>8, <4>2 DEF GoesOn
      <3>4. /\ Len(longer) \in Nat /\ Len(scan.got) <= Len(longer)
            /\ \A i \in 1 .. Len(scan.got) : scan.got[i] = {longer[i]}
        <4>1. longer \in Seq(Entries)
          BY <3>3 DEF Gives, Reads, Logged
        <4>2. Len(longer) \in Nat /\ Len(log) <= Len(longer)
          BY <3>3, <4>1 DEF Extends
        <4>3. ASSUME NEW i \in 1 .. Len(scan.got) PROVE scan.got[i] = {longer[i]}
          <5>1. i \in 1 .. Len(log)
            BY <2>2, <2>3
          <5>2. longer[i] = log[i]
            BY <3>3, <5>1 DEF Extends
          <5> QED
            BY <2>2, <5>2
        <4> QED
          BY <2>2, <2>3, <4>2, <4>3
      <3> DEFINE new == NewScan(scan, r, cookie, b)
      <3>5. scan' = new
        <4> HIDE DEF dir, f
        <4> QED
          BY <1>1, <1>16, <2>4, <2>8 DEF Scanned, NewScan, Merge
      <3>6. Learned(scan, new, f, longer)
        <4> HIDE DEF f, dir
        <4>1. Gives(r, longer, scan.stable, cookie, maxDirEntries(b))
          BY <3>3 DEF n
        <4>2. MayLearn(scan, r, longer, cookie, b, f)
          BY <1>6, <1>10, <2>2, <2>4, <3>4, <4>1 DEF MayLearn
        <4> QED
          BY <4>2, KnowsMore
      <3> HIDE DEF new, f, dir
      <3> QED
        BY <1>10, <1>12, <1>16, <3>5, <3>6 DEF Learned
    <2> QED
      BY <2>7, <2>8
  <1> QED
    BY <1>13, <1>14, <1>15, <1>16
----------------------------------------------------------------------------
(* Every step.                                                             *)

(* Opening and closing descriptors keeps ScanInv. *)
LEMMA OpenAndCloseScan ==
    ASSUME ScanInv, OpenAndClose
    PROVE  ScanInv'
  <1>1. guest.calls # "scan"
    BY DEF OpenAndClose
  <1>2. UNCHANGED <<fs, scan, guest>>
    BY DEF OpenAndClose, PathOpenDir, SockAcceptFn, FdClose, FdRenumber, CloseContext
  <1> QED
    BY <1>1, <1>2, SameScan

(* The calls on files keep ScanInv. *)
LEMMA UseFilesScan ==
    ASSUME ScanInv, UseFiles
    PROVE  ScanInv'
  <1>0. guest.calls # "scan" /\ DOMAIN fs = FileNames
    BY DEF UseFiles, ScanInv
  <1>1. ASSUME NEW n, Appears(n) PROVE ScanInv'
    BY <1>1, AppearsScan
  <1>2. ASSUME NEW k, NEW n, NEW o, PathOpen(k, n, o) PROVE ScanInv'
    <2>1. \E i : fs' = [fs EXCEPT ![n] = i]
      BY <1>2 DEF PathOpen
    <2>2. DOMAIN fs' = FileNames /\ Changed /\ guest' = guest
      BY <1>0, <1>2, <2>1 DEF PathOpen
    <2> QED
      BY <1>0, <2>2, ChangedScan
  <1>3. ASSUME NEW k, FdClose(k, FALSE) \/ FdRead(k) \/ FdWrite(k) PROVE ScanInv'
    <2>1. UNCHANGED <<fs, scan, guest>>
      BY <1>3 DEF FdClose, FdRead, FdWrite
    <2> QED
      BY <1>0, <2>1, SameScan
  <1>4. ASSUME NEW k, NEW n, FdPwrite(k, n) \/ FdFilestatSetSize(k, n) \/ FdAllocate(k, n)
        PROVE  ScanInv'
    <2>1. UNCHANGED <<fs, scan, guest>>
      BY <1>4 DEF FdPwrite, FdAllocate, FdFilestatSetSize
    <2> QED
      BY <1>0, <2>1, SameScan
  <1>5. ASSUME NEW k, NEW w, NEW n, FdSeek(k, w, n) PROVE ScanInv'
    <2>1. UNCHANGED <<fs, scan, guest>>
      BY <1>5 DEF FdSeek
    <2> QED
      BY <1>0, <2>1, SameScan
  <1>6. ASSUME NEW k, NEW append, FdFdstatSetFlags(k, append) PROVE ScanInv'
    <2>1. UNCHANGED <<fs, scan, guest>>
      BY <1>6 DEF FdFdstatSetFlags
    <2> QED
      BY <1>0, <2>1, SameScan
  <1>7. ASSUME NEW k, NEW n, PathUnlinkFile(k, n) PROVE ScanInv'
    BY <1>0, <1>7, ChangedScan DEF PathUnlinkFile
  <1>8. ASSUME NEW k, NEW l, NEW m, NEW n, PathRename(k, l, m, n) PROVE ScanInv'
    BY <1>0, <1>8, ChangedScan DEF PathRename
  <1>9. ASSUME NEW k, NEW l, NEW m, NEW n, PathLink(k, l, m, n) PROVE ScanInv'
    BY <1>0, <1>9, ChangedScan DEF PathLink
  <1> QED
    BY <1>1, <1>2, <1>3, <1>4, <1>5, <1>6, <1>7, <1>8, <1>9 DEF UseFiles

(* Reading the directory, in which entries come and go, keeps ScanInv. *)
LEMMA ScanDirectoryScan ==
    ASSUME FdInv, ScanInv, ScanDirectory
    PROVE  ScanInv'
  <1>0. guest.calls = "scan" /\ DOMAIN fs = FileNames /\ guest.fds \subseteq Int
    BY DEF ScanDirectory, ScanInv, FdInv
  <1>1. ASSUME NEW n, Appears(n) PROVE ScanInv'
    BY <1>1, AppearsScan
  <1>2. ASSUME NEW k, NEW n, PathUnlinkFile(k, n) PROVE ScanInv'
    BY <1>0, <1>2, ChangedScan DEF PathUnlinkFile, tableVars
  <1>3. ASSUME NEW k \in guest.fds, NEW c \in 0 .. Len(scan.got) + 1, NEW b \in BufLens,
               NEW fails \in BOOLEAN, FdReaddir(k, c, b, fails)
        PROVE  ScanInv'
    <2>1. k \in Int /\ c \in Nat
      BY <1>0
    <2> QED
      BY <1>0, <1>3, <2>1, ReaddirScan
  <1> QED
    BY <1>1, <1>2, <1>3 DEF ScanDirectory

(* Nothing was read at first. *)
LEMMA InitScan ==
    ASSUME WasiInit
    PROVE  ScanInv
  <1>1. /\ scan.dir = NoFile /\ scan.got = <<>> /\ scan.ended = FALSE /\ scan.stable = {}
        /\ scan.refused = FALSE /\ DOMAIN scan = ScanDomain
    BY DEF WasiInit, NoScan, ScanDomain
  <1>2. DOMAIN fs = FileNames
    BY DEF WasiInit
  <1>3. ASSUME NEW e \in Files, entry[e].kind = "dir"
        PROVE  DOMAIN entry[e].cache = CacheDomain
    <2>1. entry[e] = CASE e \in 1 .. 3 -> Preopen("stdio")
                       [] e = 4 -> [NewDir EXCEPT !.isPreopen = TRUE]
                       [] e = 5 -> Preopen("listener")
                       [] OTHER -> Garbage
      BY DEF WasiInit, InitFSContext
    <2>2. e = 4
      BY <1>3, <2>1 DEF Preopen, Garbage
    <2>3. entry[e] = [NewDir EXCEPT !.isPreopen = TRUE]
      BY <2>1, <2>2
    <2> QED
      BY <2>3 DEF NewDir, NoDirents, CacheDomain
  <1> QED
    BY <1>1, <1>2, <1>3 DEF ScanInv, Idle

(* Whatever a guest does, what it has read of a directory since it began   *)
(* the scan is a part of one log, of which the cache holds the end.        *)
THEOREM ScanInvariance == WasiSpec => []ScanInv
  <1>1. WasiInit => ScanInv
    BY InitScan
  <1>2. ASSUME FdInv, ScanInv, [WasiNext]_wasiVars PROVE ScanInv'
    <2>1. CASE WasiNext
      BY <1>2, <2>1, OpenAndCloseScan, UseFilesScan, ScanDirectoryScan DEF WasiNext
    <2>2. CASE UNCHANGED wasiVars
      BY <1>2, <2>2, SameScan DEF wasiVars
    <2> QED
      BY <1>2, <2>1, <2>2
  <1>3. FdInv /\ ScanInv /\ [WasiNext]_wasiVars => ScanInv'
    BY <1>2
  <1> QED
    BY <1>1, <1>3, FdInvariance, PTL DEF WasiSpec

(* fd_readdir's cookies: between two rewinds a position means one entry,   *)
(* and a guest that goes on after the last whole entry is not refused.     *)
THEOREM PositionsMeanOneEntry == WasiSpec => []CookieStable
  <1>1. ASSUME ScanInv PROVE CookieStable
    <2>1. ASSUME NEW i \in DOMAIN scan.got PROVE Cardinality(scan.got[i]) <= 1
      <3>1. CASE Idle
        BY <3>1 DEF Idle
      <3>2. CASE ~ Idle
        <4>1. PICK log : Knows(scan, entry[scan.dir], log)
          BY <1>1, <3>2 DEF ScanInv
        <4>2. scan.got[i] = {log[i]}
          BY <4>1 DEF Knows
        <4>3. Cardinality({log[i]}) = 1
          BY FS_Singleton
        <4> QED
          BY <4>2, <4>3
      <3> QED
        BY <3>1, <3>2
    <2> QED
      BY <1>1, <2>1 DEF ScanInv, CookieStable
  <1> QED
    BY <1>1, ScanInvariance, PTL

(* A guest that was told the end of the directory, and has read on from    *)
(* its last position, has each entry that was there all the time once.     *)
THEOREM ScansMissNothing == WasiSpec => []ScanComplete
  <1>1. ASSUME ScanInv, scan.ended, scan.next = Len(scan.got)
        PROVE  /\ Len(scan.got) >= 2 /\ scan.got[1] = {"."} /\ scan.got[2] = {".."}
               /\ \A n \in scan.stable :
                      Cardinality({i \in DOMAIN scan.got : n \in scan.got[i]}) = 1
    <2>1. ~ Idle
      BY <1>1 DEF Idle
    <2>2. PICK log : Knows(scan, entry[scan.dir], log)
      BY <1>1, <2>1 DEF ScanInv
    <2> DEFINE stream == entry[scan.dir].stream
    <2>3. /\ Logged(log, stream, scan.stable) /\ stream = {}
          /\ Len(scan.got) = Len(log) /\ DOMAIN scan.got = 1 .. Len(log)
          /\ \A i \in 1 .. Len(log) : scan.got[i] = {log[i]}
      BY <1>1, <2>2 DEF Knows, Reads
    <2>4. /\ log \in Seq(Entries) /\ Distinct(log)
          /\ Len(log) >= 2 /\ log[1] = "." /\ log[2] = ".."
      BY <2>3 DEF Logged
    <2>5. ASSUME NEW n \in scan.stable
          PROVE  Cardinality({i \in DOMAIN scan.got : n \in scan.got[i]}) = 1
      <3>1. PICK j \in 1 .. Len(log) : log[j] = n
        BY <2>3 DEF Logged, Occurs
      <3>2. {i \in DOMAIN scan.got : n \in scan.got[i]} = {j}
        BY <2>3, <2>4, <3>1 DEF Distinct
      <3> QED
        BY <3>2, FS_Singleton
    <2>6. Len(log) \in Nat /\ 1 \in 1 .. Len(log) /\ 2 \in 1 .. Len(log)
      BY <2>4
    <2> QED
      BY <2>3, <2>4, <2>5, <2>6
  <1>2. ScanInv => ScanComplete
    BY <1>1 DEF ScanComplete
  <1> QED
    BY <1>2, ScanInvariance, PTL
============================================================================
