--------------------------- MODULE SequenceLemmas ---------------------------
(***************************************************************************)
(* What the edits of sequences return that the models use for Go's lists   *)
(* and slices: list.Remove, and insertion and deletion at an index.        *)
(***************************************************************************)
EXTENDS Integers, SequencesExt, SequenceTheorems, WellFoundedInduction, TLAPS

(* x is an element of s. *)
Occurs(x, s) == \E i \in 1 .. Len(s) : s[i] = x

(* No element of s occurs twice. *)
Distinct(s) == \A i, j \in 1 .. Len(s) : s[i] = s[j] => i = j

(* A set of natural numbers that is not empty has a least element.  This   *)
(* is the induction of the proofs: take the least counterexample.          *)
LEMMA LeastNatural ==
    ASSUME NEW S \in SUBSET Nat, S # {}
    PROVE  \E x \in S : \A y \in S : x <= y
  <1> DEFINE R == {p \in Nat \X Nat : p[1] < p[2]}
  <1>1. IsWellFoundedOn(R, Nat)
    <2> SUFFICES ASSUME NEW f \in [Nat -> Nat], \A n \in Nat : <<f[n + 1], f[n]>> \in R
                 PROVE  FALSE
      BY DEF IsWellFoundedOn
    <2>1. OpToRel(<, Nat) = R
      BY DEF OpToRel
    <2> QED
      BY <2>1, NatLessThanWellFounded DEF IsWellFoundedOn
  <1>2. \E x \in S : \A y \in S : ~ (<<y, x>> \in R)
    BY <1>1, WFMin
  <1>3. PICK x \in S : \A y \in S : ~ (<<y, x>> \in R)
    BY <1>2
  <1>4. ASSUME NEW y \in S PROVE x <= y
    <2>1. x \in Nat /\ y \in Nat
      OBVIOUS
    <2>2. ~ (<<y, x>> \in R)
      BY <1>3
    <2>3. ~ (y < x)
      BY <2>1, <2>2
    <2> QED
      BY <2>1, <2>3
  <1> QED
    BY <1>4

(* InsertAt(s, i, e) is s with e at position i. *)
LEMMA InsertAtProperties ==
    ASSUME NEW S, NEW s \in Seq(S), NEW i \in 1 .. Len(s) + 1, NEW e \in S
    PROVE  /\ InsertAt(s, i, e) \in Seq(S)
           /\ Len(InsertAt(s, i, e)) = Len(s) + 1
           /\ \A j \in 1 .. Len(s) + 1 : InsertAt(s, i, e)[j] =
                 IF j < i THEN s[j] ELSE IF j = i THEN e ELSE s[j - 1]
  <1> DEFINE a == SubSeq(s, 1, i - 1)
             b == SubSeq(s, i, Len(s))
             c == a \o <<e>>
             r == c \o b
  <1>0. Len(s) \in Nat /\ i \in Int
    OBVIOUS
  <1>1. \A k \in 1 .. Len(s) : s[k] \in S
    BY ElementOfSeq
  <1>2. /\ a \in Seq(S)
        /\ Len(a) = i - 1
        /\ \A k \in 1 .. i - 1 : a[k] = s[k]
    BY <1>0, <1>1, SubSeqProperties
  <1>3. /\ b \in Seq(S)
        /\ Len(b) = Len(s) - i + 1
        /\ \A k \in 1 .. Len(s) - i + 1 : b[k] = s[i + k - 1]
    BY <1>0, <1>1, SubSeqProperties
  <1> HIDE DEF a, b
  <1>4. /\ c \in Seq(S)
        /\ Len(c) = i
        /\ \A k \in 1 .. i : c[k] = IF k < i THEN a[k] ELSE e
    <2>1. <<e>> \in Seq(S) /\ Len(<<e>>) = 1 /\ <<e>>[1] = e
      OBVIOUS
    <2>2. /\ c \in Seq(S)
          /\ Len(c) = Len(a) + Len(<<e>>)
          /\ \A k \in 1 .. Len(a) + Len(<<e>>) :
                c[k] = IF k <= Len(a) THEN a[k] ELSE <<e>>[k - Len(a)]
      BY <1>2, <2>1, ConcatProperties
    <2> HIDE DEF c
    <2>3. c \in Seq(S) /\ Len(c) = i
      BY <1>0, <1>2, <2>1, <2>2
    <2>4. ASSUME NEW k \in 1 .. i PROVE c[k] = IF k < i THEN a[k] ELSE e
      <3>1. CASE k < i
        BY <1>0, <1>2, <2>1, <2>2, <3>1
      <3>2. CASE k = i
        <4>1. k - Len(a) = 1 /\ ~ (k <= Len(a)) /\ k \in 1 .. Len(a) + Len(<<e>>)
          BY <1>0, <1>2, <2>1, <3>2
        <4> QED
          BY <2>1, <2>2, <3>2, <4>1
      <3> QED
        BY <1>0, <3>1, <3>2
    <2> QED
      BY <2>3, <2>4
  <1> HIDE DEF c
  <1>5. /\ r \in Seq(S)
        /\ Len(r) = Len(c) + Len(b)
        /\ \A k \in 1 .. Len(c) + Len(b) :
              r[k] = IF k <= Len(c) THEN c[k] ELSE b[k - Len(c)]
    BY <1>3, <1>4, ConcatProperties
  <1>6. InsertAt(s, i, e) = r
    BY DEF InsertAt, a, b, c
  <1> HIDE DEF r
  <1>7. ASSUME NEW j \in 1 .. Len(s) + 1
        PROVE  r[j] = IF j < i THEN s[j] ELSE IF j = i THEN e ELSE s[j - 1]
    <2>1. CASE j <= i
      <3>1. /\ j \in 1 .. Len(c) + Len(b) /\ j <= Len(c) /\ j \in 1 .. i
            /\ j < i => j \in 1 .. i - 1
        BY <1>0, <1>3, <1>4, <2>1
      <3>2. r[j] = c[j]
        BY <1>5, <3>1
      <3>3. c[j] = IF j < i THEN a[j] ELSE e
        BY <1>4, <3>1
      <3>4. j < i => a[j] = s[j]
        BY <1>2, <3>1
      <3> QED
        BY <1>0, <2>1, <3>2, <3>3, <3>4
    <2>2. CASE j > i
      <3>1. /\ j \in 1 .. Len(c) + Len(b) /\ ~ (j <= Len(c))
            /\ j - Len(c) = j - i /\ j - i \in 1 .. Len(s) - i + 1
            /\ i + (j - i) - 1 = j - 1
        BY <1>0, <1>3, <1>4, <2>2
      <3>2. r[j] = b[j - i]
        BY <1>5, <3>1
      <3>3. b[j - i] = s[i + (j - i) - 1]
        BY <1>3, <3>1
      <3> QED
        BY <1>0, <2>2, <3>1, <3>2, <3>3
    <2> QED
      BY <1>0, <2>1, <2>2
  <1> QED
    BY <1>0, <1>3, <1>4, <1>5, <1>6, <1>7

(* RemoveAt(s, i) is s without its i-th element. *)
LEMMA RemoveAtProperties ==
    ASSUME NEW S, NEW s \in Seq(S), NEW i \in 1 .. Len(s)
    PROVE  /\ RemoveAt(s, i) \in Seq(S)
           /\ Len(RemoveAt(s, i)) = Len(s) - 1
           /\ \A j \in 1 .. Len(s) - 1 :
                 RemoveAt(s, i)[j] = IF j < i THEN s[j] ELSE s[j + 1]
  <1> DEFINE a == SubSeq(s, 1, i - 1)
             b == SubSeq(s, i + 1, Len(s))
             r == a \o b
  <1>0. Len(s) \in Nat /\ i \in Int
    OBVIOUS
  <1>1. \A k \in 1 .. Len(s) : s[k] \in S
    BY ElementOfSeq
  <1>2. /\ a \in Seq(S)
        /\ Len(a) = i - 1
        /\ \A k \in 1 .. i - 1 : a[k] = s[k]
    BY <1>0, <1>1, SubSeqProperties
  <1>3. /\ b \in Seq(S)
        /\ Len(b) = Len(s) - i
        /\ \A k \in 1 .. Len(s) - i : b[k] = s[i + k]
    <2>1. /\ b \in Seq(S)
          /\ Len(b) = IF i + 1 <= Len(s) THEN Len(s) - (i + 1) + 1 ELSE 0
          /\ \A k \in 1 .. Len(s) - (i + 1) + 1 : b[k] = s[(i + 1) + k - 1]
      BY <1>0, <1>1, SubSeqProperties
    <2> HIDE DEF b
    <2>2. ASSUME NEW k \in 1 .. Len(s) - i PROVE b[k] = s[i + k]
      <3>1. k \in 1 .. Len(s) - (i + 1) + 1 /\ (i + 1) + k - 1 = i + k
        BY <1>0
      <3> QED
        BY <2>1, <3>1
    <2> QED
      BY <1>0, <2>1, <2>2
  <1> HIDE DEF a, b
  <1>4. /\ r \in Seq(S)
        /\ Len(r) = Len(a) + Len(b)
        /\ \A k \in 1 .. Len(a) + Len(b) :
              r[k] = IF k <= Len(a) THEN a[k] ELSE b[k - Len(a)]
    BY <1>2, <1>3, ConcatProperties
  <1>5. RemoveAt(s, i) = r
    BY DEF RemoveAt, a, b
  <1> HIDE DEF r
  <1>6. ASSUME NEW j \in 1 .. Len(s) - 1
        PROVE  r[j] = IF j < i THEN s[j] ELSE s[j + 1]
    <2>1. CASE j < i
      <3>1. Len(a) = i - 1 /\ Len(a) + Len(b) = Len(s) - 1
        BY <1>0, <1>2, <1>3
      <3>2. j \in 1 .. i - 1 /\ j <= Len(a) /\ j \in 1 .. Len(a) + Len(b)
        BY <1>0, <2>1, <3>1
      <3>3. r[j] = a[j]
        BY <1>4, <3>2
      <3> QED
        BY <1>2, <2>1, <3>2, <3>3
    <2>2. CASE j >= i
      <3>1. /\ j \in 1 .. Len(a) + Len(b) /\ ~ (j <= Len(a))
            /\ j - Len(a) = j - i + 1 /\ j - i + 1 \in 1 .. Len(s) - i
            /\ i + (j - i + 1) = j + 1
        BY <1>0, <1>2, <1>3, <2>2
      <3>2. r[j] = b[j - i + 1]
        BY <1>4, <3>1
      <3>3. b[j - i + 1] = s[i + (j - i + 1)]
        BY <1>3, <3>1
      <3> QED
        BY <1>0, <2>2, <3>1, <3>2, <3>3
    <2> QED
      BY <1>0, <2>1, <2>2
  <1> QED
    BY <1>0, <1>2, <1>3, <1>4, <1>5, <1>6

(* Min(S) is the least element of a set of natural numbers. *)
LEMMA MinProperties ==
    ASSUME NEW S \in SUBSET Nat, S # {}
    PROVE  Min(S) \in S /\ \A y \in S : Min(S) <= y
  BY LeastNatural DEF Min

(* RemoveFirst takes nothing but x out of a sequence; what is left has no  *)
(* repetitions, and no x, if there were none before; nothing changes if x  *)
(* was not there.                                                          *)
LEMMA RemoveFirstOccurs ==
    ASSUME NEW S, NEW s \in Seq(S), NEW x
    PROVE  /\ RemoveFirst(s, x) \in Seq(S)
           /\ \A y : Occurs(y, RemoveFirst(s, x)) => Occurs(y, s)
           /\ \A y : Occurs(y, s) /\ y # x => Occurs(y, RemoveFirst(s, x))
           /\ Distinct(s) =>
                 Distinct(RemoveFirst(s, x)) /\ ~ Occurs(x, RemoveFirst(s, x))
           /\ ~ Occurs(x, s) => RemoveFirst(s, x) = s
  <1>1. CASE ~ Occurs(x, s)
    <2>1. RemoveFirst(s, x) = s
      BY <1>1 DEF RemoveFirst, Occurs
    <2> QED
      BY <1>1, <2>1
  <1>2. CASE Occurs(x, s)
    <2> DEFINE I == {i \in 1 .. Len(s) : s[i] = x}
               k == Min(I)
               r == RemoveAt(s, k)
    <2>1. I # {} /\ I \in SUBSET Nat
      BY <1>2 DEF Occurs
    <2>2. k \in 1 .. Len(s) /\ s[k] = x
      BY <2>1, MinProperties
    <2>3. SelectInSeq(s, LAMBDA v : v = x) = k
      BY <2>1 DEF SelectInSeq
    <2>4. RemoveFirst(s, x) = r
      BY <1>2, <2>3 DEF RemoveFirst, Occurs
    <2> HIDE DEF k
    <2>5. /\ r \in Seq(S)
          /\ Len(r) = Len(s) - 1
          /\ \A j \in 1 .. Len(s) - 1 : r[j] = IF j < k THEN s[j] ELSE s[j + 1]
      BY <2>2, RemoveAtProperties
    <2> HIDE DEF r, I
    <2>6. Len(s) \in Nat
      OBVIOUS
    <2>7. ASSUME Distinct(s) PROVE Distinct(r)
      <3> SUFFICES ASSUME NEW i \in 1 .. Len(r), NEW j \in 1 .. Len(r), r[i] = r[j]
                   PROVE  i = j
        BY DEF Distinct
      <3>1. \A n \in 1 .. Len(r) : \E m \in 1 .. Len(s) :
               /\ r[n] = s[m]
               /\ m = IF n < k THEN n ELSE n + 1
        BY <2>2, <2>5, <2>6
      <3>2. PICK p \in 1 .. Len(s) : r[i] = s[p] /\ p = IF i < k THEN i ELSE i + 1
        BY <3>1
      <3>3. PICK q \in 1 .. Len(s) : r[j] = s[q] /\ q = IF j < k THEN j ELSE j + 1
        BY <3>1
      <3>4. p = q
        BY <2>7, <3>2, <3>3 DEF Distinct
      <3> QED
        BY <2>2, <2>5, <2>6, <3>2, <3>3, <3>4
    <2>8. ASSUME NEW y, Occurs(y, r) PROVE Occurs(y, s) /\ (Distinct(s) => y # x)
      <3>1. PICK j \in 1 .. Len(r) : r[j] = y
        BY <2>8 DEF Occurs
      <3>2. \E m \in 1 .. Len(s) : s[m] = y /\ m # k
        BY <2>2, <2>5, <2>6, <3>1
      <3> QED
        BY <2>2, <3>2 DEF Occurs, Distinct
    <2>9. ASSUME NEW y, Occurs(y, s), y # x PROVE Occurs(y, r)
      <3>1. PICK j \in 1 .. Len(s) : s[j] = y
        BY <2>9 DEF Occurs
      <3>2. j # k
        BY <2>2, <2>9, <3>1
      <3>3. CASE j < k
        <4>1. j \in 1 .. Len(r) /\ r[j] = y
          BY <2>2, <2>5, <2>6, <3>1, <3>3
        <4> QED
          BY <4>1 DEF Occurs
      <3>4. CASE j > k
        <4>1. j - 1 \in 1 .. Len(s) - 1 /\ ~ (j - 1 < k) /\ (j - 1) + 1 = j
          BY <2>2, <2>6, <3>4
        <4>2. j - 1 \in 1 .. Len(r) /\ r[j - 1] = y
          BY <2>5, <3>1, <4>1
        <4> QED
          BY <4>2 DEF Occurs
      <3> QED
        BY <2>2, <2>6, <3>2, <3>3, <3>4
    <2> QED
      BY <1>2, <2>4, <2>5, <2>7, <2>8, <2>9
  <1> QED
    BY <1>1, <1>2

(* RemoveFirst of an element whose only position is known. *)
LEMMA RemoveFirstAt ==
    ASSUME NEW S, NEW s \in Seq(S), Distinct(s), NEW k \in 1 .. Len(s)
    PROVE  LET r == RemoveFirst(s, s[k])
           IN  /\ r \in Seq(S) /\ Len(r) = Len(s) - 1
               /\ \A j \in 1 .. Len(s) - 1 : r[j] = IF j < k THEN s[j] ELSE s[j + 1]
  <1> DEFINE x == s[k]
             I == {i \in 1 .. Len(s) : s[i] = x}
  <1>1. I = {k}
    BY DEF Distinct
  <1>2. I \in SUBSET Nat /\ I # {}
    BY <1>1
  <1>3. Min(I) = k
    BY <1>1, <1>2, MinProperties
  <1>4. SelectInSeq(s, LAMBDA v : v = x) = k
    BY <1>2, <1>3 DEF SelectInSeq
  <1>5. RemoveFirst(s, x) = RemoveAt(s, k)
    BY <1>4 DEF RemoveFirst
  <1> QED
    BY <1>5, RemoveAtProperties

(* Without x, a sequence without repetitions holds what it held before and *)
(* not x.                                                                  *)
LEMMA RemoveFirstProperties ==
    ASSUME NEW S, NEW s \in Seq(S), NEW x, Distinct(s)
    PROVE  /\ RemoveFirst(s, x) \in Seq(S)
           /\ Distinct(RemoveFirst(s, x))
           /\ \A y : Occurs(y, RemoveFirst(s, x)) <=> Occurs(y, s) /\ y # x
           /\ ~ Occurs(x, s) => RemoveFirst(s, x) = s
  BY RemoveFirstOccurs

(* Appending x adds x; the sequence still has no repetitions if x is new.  *)
LEMMA AppendOccurs ==
    ASSUME NEW S, NEW s \in Seq(S), NEW x \in S
    PROVE  /\ Append(s, x) \in Seq(S)
           /\ Distinct(s) /\ ~ Occurs(x, s) => Distinct(Append(s, x))
           /\ \A y : Occurs(y, Append(s, x)) <=> Occurs(y, s) \/ y = x
  <1> DEFINE r == Append(s, x)
  <1>1. /\ r \in Seq(S) /\ Len(s) \in Nat /\ Len(r) = Len(s) + 1
        /\ \A i \in 1 .. Len(s) : r[i] = s[i]
        /\ r[Len(s) + 1] = x
    BY AppendProperties
  <1> HIDE DEF r
  <1>2. ASSUME Distinct(s), ~ Occurs(x, s) PROVE Distinct(r)
    <2> SUFFICES ASSUME NEW i \in 1 .. Len(r), NEW j \in 1 .. Len(r), r[i] = r[j]
                 PROVE  i = j
      BY DEF Distinct
    <2>1. CASE i \in 1 .. Len(s) /\ j \in 1 .. Len(s)
      BY <1>1, <1>2, <2>1 DEF Distinct
    <2>2. CASE i = Len(s) + 1 /\ j \in 1 .. Len(s)
      BY <1>1, <1>2, <2>2 DEF Occurs
    <2>3. CASE j = Len(s) + 1 /\ i \in 1 .. Len(s)
      BY <1>1, <1>2, <2>3 DEF Occurs
    <2> QED
      BY <1>1, <2>1, <2>2, <2>3
  <1>3. ASSUME NEW y PROVE Occurs(y, r) <=> Occurs(y, s) \/ y = x
    <2>1. ASSUME Occurs(y, r) PROVE Occurs(y, s) \/ y = x
      <3>1. PICK i \in 1 .. Len(r) : r[i] = y
        BY <2>1 DEF Occurs
      <3>2. CASE i \in 1 .. Len(s)
        BY <1>1, <3>1, <3>2 DEF Occurs
      <3>3. CASE i = Len(s) + 1
        BY <1>1, <3>1, <3>3
      <3> QED
        BY <1>1, <3>2, <3>3
    <2>2. ASSUME Occurs(y, s) PROVE Occurs(y, r)
      <3>1. PICK i \in 1 .. Len(s) : s[i] = y
        BY <2>2 DEF Occurs
      <3>2. i \in 1 .. Len(r) /\ r[i] = y
        BY <1>1, <3>1
      <3> QED
        BY <3>2 DEF Occurs
    <2>3. Occurs(x, r)
      <3>1. Len(s) + 1 \in 1 .. Len(r)
        BY <1>1
      <3> QED
        BY <1>1, <3>1 DEF Occurs
    <2> QED
      BY <2>1, <2>2, <2>3
  <1> QED
    BY <1>1, <1>2, <1>3 DEF r

(* What is left of s when its first n elements are taken away. *)
LEMMA SuffixOccurs ==
    ASSUME NEW S, NEW s \in Seq(S), NEW n \in 0 .. Len(s), Distinct(s)
    PROVE  LET r == SubSeq(s, n + 1, Len(s))
           IN  /\ r \in Seq(S)
               /\ Len(r) = Len(s) - n
               /\ Distinct(r)
               /\ \A y : Occurs(y, r) <=> Occurs(y, s) /\ y \notin {s[i] : i \in 1 .. n}
  <1> DEFINE r == SubSeq(s, n + 1, Len(s))
  <1>0. Len(s) \in Nat /\ n \in Nat /\ n <= Len(s)
    OBVIOUS
  <1>1. \A k \in 1 .. Len(s) : s[k] \in S
    BY ElementOfSeq
  <1>2. /\ r \in Seq(S)
        /\ Len(r) = IF n + 1 <= Len(s) THEN Len(s) - (n + 1) + 1 ELSE 0
        /\ \A k \in 1 .. Len(s) - (n + 1) + 1 : r[k] = s[(n + 1) + k - 1]
    BY <1>0, <1>1, SubSeqProperties
  <1> HIDE DEF r
  <1>3. Len(r) = Len(s) - n
    BY <1>0, <1>2
  <1>4. ASSUME NEW k \in 1 .. Len(r) PROVE r[k] = s[n + k] /\ n + k \in 1 .. Len(s)
    <2>1. k \in 1 .. Len(s) - (n + 1) + 1 /\ (n + 1) + k - 1 = n + k
      BY <1>0, <1>3
    <2> QED
      BY <1>0, <1>2, <1>3, <2>1
  <1>5. Distinct(r)
    <2> SUFFICES ASSUME NEW i \in 1 .. Len(r), NEW j \in 1 .. Len(r), r[i] = r[j]
                 PROVE  i = j
      BY DEF Distinct
    <2>1. n + i = n + j
      BY <1>4 DEF Distinct
    <2> QED
      BY <1>0, <2>1
  <1>6. ASSUME NEW y, Occurs(y, r)
        PROVE  Occurs(y, s) /\ y \notin {s[i] : i \in 1 .. n}
    <2>1. PICK k \in 1 .. Len(r) : r[k] = y
      BY <1>6 DEF Occurs
    <2>2. s[n + k] = y /\ n + k \in 1 .. Len(s)
      BY <1>4, <2>1
    <2>3. ASSUME NEW i \in 1 .. n, y = s[i] PROVE FALSE
      <3>1. i = n + k
        BY <1>0, <2>2, <2>3 DEF Distinct
      <3> QED
        BY <1>0, <3>1
    <2> QED
      BY <2>2, <2>3 DEF Occurs
  <1>7. ASSUME NEW y, Occurs(y, s), y \notin {s[i] : i \in 1 .. n}
        PROVE  Occurs(y, r)
    <2>1. PICK m \in 1 .. Len(s) : s[m] = y
      BY <1>7 DEF Occurs
    <2>2. ~ (m \in 1 .. n)
      BY <1>7, <2>1
    <2>3. m - n \in 1 .. Len(r) /\ n + (m - n) = m
      BY <1>0, <1>3, <2>2
    <2>4. r[m - n] = y
      BY <1>4, <2>1, <2>3
    <2> QED
      BY <2>3, <2>4 DEF Occurs
  <1> QED
    BY <1>2, <1>3, <1>5, <1>6, <1>7 DEF r
=============================================================================
