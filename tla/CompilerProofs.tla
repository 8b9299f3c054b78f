--------------------------- MODULE CompilerProofs ---------------------------
(***************************************************************************)
(* Proofs about FuncValidation and InterpreterCompiler, for every module,  *)
(* every function and every sequence of instructions the decoder can give: *)
(* what the validator accepts, the compiler compiles (AcceptedCompiles).   *)
(* It pops nothing its stack does not hold, panics on no type, closes      *)
(* every frame it opened, and lowerIR finds every label that a branch, a   *)
(* br_table or an exception clause refers to.                              *)
(*                                                                         *)
(* The two read the same body one after the other, each with a stack and   *)
(* blocks of its own.  Joint relates the state v of the validator to the   *)
(* state c of the compiler after the same instructions: a block of v is a  *)
(* frame of c or counted in its unreachable depth, the stacks agree above  *)
(* the locals as far as the code can be reached (Matched), and a label     *)
(* that is wanted is given by an operation or due at the end of an open    *)
(* frame (LabelsFound).  There is one lemma per kind of instruction that   *)
(* says it keeps Joint (PlainStep ... EndStep); AcceptedCompiles follows   *)
(* by induction over the body, in the form of a least counterexample.      *)
(***************************************************************************)
EXTENDS FuncValidation, InterpreterCompiler, SequenceLemmas

(* The least and the greatest element, when it is known. *)
LEMMA MinIs ==
    ASSUME NEW S \in SUBSET Nat, NEW a \in S, \A y \in S : a <= y
    PROVE  Min(S) = a
  <1> DEFINE m == Min(S)
  <1>1. m \in S /\ m <= a
    BY MinProperties
  <1> HIDE DEF m
  <1>2. a <= m /\ a \in Nat /\ m \in Nat
    BY <1>1
  <1>3. m = a
    BY <1>1, <1>2
  <1> QED
    BY <1>3 DEF m

(* The element of a set of numbers that no other exceeds is its maximum. *)
LEMMA MaxIs ==
    ASSUME NEW S \in SUBSET Nat, NEW a \in S, \A y \in S : a >= y
    PROVE  Max(S) = a
  <1> DEFINE m == Max(S)
  <1>1. m \in S /\ \A y \in S : m >= y
    BY Zenon DEF Max
  <1> HIDE DEF m
  <1>2. a >= m /\ m >= a /\ a \in Nat /\ m \in Nat
    BY <1>1
  <1>3. m = a
    BY <1>2
  <1> QED
    BY <1>3 DEF m

(* popAll as a sequence of states: the last operand is popped first. *)
LEMMA PopSteps ==
    ASSUME NEW v, NEW S, NEW want \in Seq(S)
    PROVE  \E g : /\ g[Len(want) + 1] = v
                  /\ \A a \in 1 .. Len(want) : g[a] = popAndVerifyType(g[a + 1], want[a])
                  /\ popAll(v, want) = g[1]
  <1> DEFINE n == Len(want)
             Rec(h, a) == h = [s \in SUBSET (a .. n) |->
                                 IF s = {} THEN v
                                 ELSE popAndVerifyType(h[s \ {Min(s)}], want[Min(s)])]
  <1>0. n \in Nat /\ DOMAIN want = 1 .. n
    OBVIOUS
  <1> HIDE DEF n
  <1>1. \E h : Rec(h, n + 1)
    <2>1. (n + 1) .. n = {}
      BY <1>0
    <2> DEFINE h == [s \in SUBSET ((n + 1) .. n) |-> v]
    <2>2. Rec(h, n + 1)
      BY <2>1
    <2> QED
      BY <2>2, Zenon
  <1>2. ASSUME NEW a \in 1 .. n, NEW h, Rec(h, a + 1)
        PROVE  \E k : Rec(k, a)
    <2> DEFINE k == [s \in SUBSET (a .. n) |->
                       IF a \in s THEN popAndVerifyType(h[s \ {a}], want[a]) ELSE h[s]]
               body(s) == IF s = {} THEN v ELSE popAndVerifyType(k[s \ {Min(s)}], want[Min(s)])
    <2>1. ASSUME NEW s \in SUBSET (a .. n), a \in s
          PROVE  k[s] = body(s)
      <3>1. Min(s) = a
        <4>1. s \in SUBSET Nat /\ s # {} /\ \A y \in s : a <= y
          BY <1>0, <2>1
        <4> QED
          BY <2>1, <4>1, MinIs
      <3>2. s \ {a} \in SUBSET (a .. n) /\ a \notin s \ {a}
        OBVIOUS
      <3>3. k[s \ {a}] = h[s \ {a}]
        BY <3>2
      <3>4. k[s] = popAndVerifyType(h[s \ {a}], want[a])
        BY <2>1
      <3> HIDE DEF k
      <3> QED
        BY <2>1, <3>1, <3>3, <3>4
    <2>2. ASSUME NEW s \in SUBSET (a .. n), a \notin s
          PROVE  k[s] = body(s)
      <3>1. s \in SUBSET ((a + 1) .. n)
        BY <1>0, <2>2
      <3>2. k[s] = h[s]
        BY <2>2
      <3>3. h[s] = IF s = {} THEN v ELSE popAndVerifyType(h[s \ {Min(s)}], want[Min(s)])
        BY <1>2, <3>1, Zenon
      <3>4. s \ {Min(s)} \in SUBSET (a .. n) /\ a \notin s \ {Min(s)}
        BY <2>2, Zenon
      <3>5. k[s \ {Min(s)}] = h[s \ {Min(s)}]
        BY <3>4
      <3> HIDE DEF k
      <3> QED
        BY <3>2, <3>3, <3>5
    <2>3. k = [s \in SUBSET (a .. n) |-> body(s)]
      <3>1. \A s \in SUBSET (a .. n) : k[s] = body(s)
        BY <2>1, <2>2, Zenon
      <3> QED
        BY <3>1, Zenon
    <2>4. Rec(k, a)
      BY <2>3, Zenon
    <2> HIDE DEF k
    <2> QED
      BY <2>4, Zenon
  <1>3. \E h : Rec(h, 1)
    <2> DEFINE Bad == {m \in 0 .. n : ~ \E h : Rec(h, n + 1 - m)}
    <2>1. ASSUME Bad # {} PROVE FALSE
      <3> HIDE DEF Rec
      <3>0. Bad \in SUBSET Nat
        BY <1>0
      <3>1. PICK m \in Bad : \A y \in Bad : m <= y
        <4> HIDE DEF Bad
        <4> QED
          BY <2>1, <3>0, LeastNatural
      <3>2. m # 0
        <4>1. n + 1 - 0 = n + 1
          BY <1>0
        <4> QED
          BY <1>1, <3>1, <4>1
      <3>3. m - 1 \in 0 .. n /\ m - 1 \notin Bad
        BY <1>0, <3>1, <3>2
      <3>4. \E h : Rec(h, n + 1 - (m - 1))
        BY <3>3
      <3>5. n + 1 - m \in 1 .. n /\ n + 1 - (m - 1) = (n + 1 - m) + 1
        BY <1>0, <3>1, <3>2
      <3> QED
        BY <1>2, <3>1, <3>4, <3>5
    <2>2. n \in 0 .. n /\ n + 1 - n = 1
      BY <1>0
    <2> HIDE DEF Rec
    <2> QED
      BY <2>1, <2>2
  <1> DEFINE it == CHOOSE h : Rec(h, 1)
  <1>4. Rec(it, 1)
    BY <1>3, Zenon
  <1>5. popAll(v, want) = it[1 .. n]
    BY <1>0 DEF popAll, FoldRight, MapThenFoldSet
  <1> HIDE DEF it
  <1> DEFINE g == [a \in 1 .. n + 1 |-> it[a .. n]]
  <1>6. g[n + 1] = v
    <2>1. (n + 1) .. n = {} /\ {} \in SUBSET (1 .. n) /\ n + 1 \in 1 .. n + 1
      BY <1>0
    <2>2. it[{}] = v
      BY <1>4, <2>1
    <2> QED
      BY <2>1, <2>2, Zenon
  <1>7. ASSUME NEW a \in 1 .. n
        PROVE  g[a] = popAndVerifyType(g[a + 1], want[a])
    <2>0. a \in Nat /\ 1 <= a /\ a <= n
      BY <1>0
    <2>1. a .. n \in SUBSET (1 .. n) /\ a .. n # {} /\ a \in a .. n
      <3>1. a \in a .. n
        BY <1>0, <2>0
      <3>2. a .. n \in SUBSET (1 .. n)
        BY <1>0, <2>0
      <3> QED
        BY <3>1, <3>2
    <2>2. Min(a .. n) = a
      <3>1. a .. n \in SUBSET Nat /\ \A y \in a .. n : a <= y
        BY <1>0
      <3> QED
        BY <2>1, <3>1, MinIs, Zenon
    <2>3. (a .. n) \ {a} = (a + 1) .. n
      BY <1>0
    <2>4. it[a .. n] = popAndVerifyType(it[(a .. n) \ {a}], want[a])
      BY <1>4, <2>1, <2>2, Zenon
    <2>5. a \in 1 .. n + 1 /\ a + 1 \in 1 .. n + 1
      BY <1>0
    <2>6. g[a] = it[a .. n] /\ g[a + 1] = it[(a + 1) .. n]
      BY <2>5
    <2> HIDE DEF g
    <2> QED
      BY <2>3, <2>4, <2>6, Zenon
  <1>8. popAll(v, want) = g[1]
    BY <1>0, <1>5
  <1> HIDE DEF g
  <1> QED
    BY <1>6, <1>7, <1>8 DEF n

(* Sequences of anything. *)
IsSeq(s) == \E S : s \in Seq(S)

(* A sequence over any set is a sequence in the sense of IsSeq. *)
LEMMA SeqIs ==
    ASSUME NEW S, NEW s \in Seq(S)
    PROVE  IsSeq(s)
  BY DEF IsSeq

(* What IsSeq says of the length and the domain. *)
LEMMA SeqHas ==
    ASSUME NEW s, IsSeq(s)
    PROVE  Len(s) \in Nat /\ DOMAIN s = 1 .. Len(s) /\ (Len(s) = 0 <=> s = <<>>)
  <1>1. PICK S : s \in Seq(S)
    BY DEF IsSeq
  <1> QED
    BY <1>1

(* The length and the elements of a concatenation. *)
LEMMA ConcatIs ==
    ASSUME NEW s, IsSeq(s), NEW t, IsSeq(t)
    PROVE  /\ IsSeq(s \o t)
           /\ Len(s \o t) = Len(s) + Len(t)
           /\ \A k \in 1 .. Len(s) : (s \o t)[k] = s[k]
           /\ \A k \in 1 .. Len(t) : (s \o t)[Len(s) + k] = t[k]
  <1>1. PICK S : s \in Seq(S)
    BY DEF IsSeq
  <1>2. PICK T : t \in Seq(T)
    BY DEF IsSeq
  <1>3. Len(s) \in Nat /\ Len(t) \in Nat
    BY SeqHas
  <1> DEFINE V == S \cup T
             r == s \o t
  <1>4. s \in Seq(V) /\ t \in Seq(V)
    BY <1>1, <1>2, SeqMonotonic
  <1>5. /\ r \in Seq(V)
        /\ Len(r) = Len(s) + Len(t)
        /\ \A k \in 1 .. Len(s) + Len(t) : r[k] = IF k <= Len(s) THEN s[k] ELSE t[k - Len(s)]
    <2> HIDE DEF V
    <2> QED
      BY <1>4, ConcatProperties
  <1> HIDE DEF V, r
  <1>6. \A k \in 1 .. Len(s) : r[k] = s[k]
    BY <1>3, <1>5
  <1>7. ASSUME NEW k \in 1 .. Len(t) PROVE r[Len(s) + k] = t[k]
    <2>1. Len(s) + k \in 1 .. Len(s) + Len(t) /\ ~ (Len(s) + k <= Len(s)) /\ (Len(s) + k) - Len(s) = k
      BY <1>3
    <2> QED
      BY <1>5, <2>1
  <1> QED
    BY <1>5, <1>6, <1>7 DEF r, IsSeq

(* The length and the elements of a sequence with one more element. *)
LEMMA AppendIs ==
    ASSUME NEW s, IsSeq(s), NEW e
    PROVE  /\ IsSeq(Append(s, e))
           /\ Len(Append(s, e)) = Len(s) + 1
           /\ \A k \in 1 .. Len(s) : Append(s, e)[k] = s[k]
           /\ Append(s, e)[Len(s) + 1] = e
           /\ Append(s, e) # <<>>
  <1>1. PICK S : s \in Seq(S)
    BY DEF IsSeq
  <1>2. s \in Seq(S \cup {e}) /\ e \in S \cup {e}
    BY <1>1, SeqMonotonic
  <1>3. /\ Append(s, e) \in Seq(S \cup {e})
        /\ Append(s, e) # <<>>
        /\ Len(Append(s, e)) = Len(s) + 1
        /\ \A k \in 1 .. Len(s) : Append(s, e)[k] = s[k]
        /\ Append(s, e)[Len(s) + 1] = e
    BY <1>2, AppendProperties
  <1> QED
    BY <1>3 DEF IsSeq

(* The length and the elements of a prefix. *)
LEMMA PrefixIs ==
    ASSUME NEW s, IsSeq(s), NEW n \in Nat, n <= Len(s)
    PROVE  /\ IsSeq(SubSeq(s, 1, n))
           /\ Len(SubSeq(s, 1, n)) = n
           /\ \A k \in 1 .. n : SubSeq(s, 1, n)[k] = s[k]
  <1>1. PICK S : s \in Seq(S)
    BY DEF IsSeq
  <1>2. Len(s) \in Nat /\ \A k \in 1 .. n : s[k] \in S
    BY <1>1, ElementOfSeq
  <1>3. /\ SubSeq(s, 1, n) \in Seq(S) /\ Len(SubSeq(s, 1, n)) = n
        /\ \A k \in 1 .. n : SubSeq(s, 1, n)[k] = s[k]
    BY <1>1, <1>2, SubSeqProperties
  <1> QED
    BY <1>3 DEF IsSeq

(* The length and the elements of a sequence without its last element. *)
LEMMA FrontIs ==
    ASSUME NEW s, IsSeq(s), s # <<>>
    PROVE  /\ IsSeq(Front(s))
           /\ Len(s) \in Nat \ {0}
           /\ Len(Front(s)) = Len(s) - 1
           /\ \A k \in 1 .. Len(s) - 1 : Front(s)[k] = s[k]
           /\ Last(s) = s[Len(s)]
  <1>1. Len(s) \in Nat /\ Len(s) # 0
    BY SeqHas
  <1> DEFINE m == Len(s) - 1
  <1>2. m \in Nat /\ m <= Len(s)
    BY <1>1
  <1>3. Front(s) = SubSeq(s, 1, m) /\ Last(s) = s[Len(s)]
    BY DEF Front, Last
  <1>m. m = Len(s) - 1
    OBVIOUS
  <1> HIDE DEF m
  <1>4. IsSeq(Front(s)) /\ Len(Front(s)) = m /\ \A k \in 1 .. m : Front(s)[k] = s[k]
    BY <1>2, <1>3, PrefixIs
  <1> QED
    BY <1>1, <1>3, <1>4, <1>m

(* A function on 1 .. n is a sequence of length n. *)
LEMMA FunIs ==
    ASSUME NEW n \in Nat, NEW T, NEW g \in [1 .. n -> T]
    PROVE  IsSeq(g) /\ Len(g) = n
  <1>1. g \in Seq(T) /\ Len(g) = n
    OBVIOUS
  <1> QED
    BY <1>1 DEF IsSeq

(* Sequences with the same elements are equal. *)
LEMMA IsSeqEqual ==
    ASSUME NEW s, IsSeq(s), NEW t, IsSeq(t), Len(s) = Len(t), \A k \in 1 .. Len(s) : s[k] = t[k]
    PROVE  s = t
  <1>1. PICK S : s \in Seq(S)
    BY DEF IsSeq
  <1>2. PICK T : t \in Seq(T)
    BY DEF IsSeq
  <1> DEFINE V == S \cup T
  <1>3. s \in Seq(V) /\ t \in Seq(V)
    BY <1>1, <1>2, SeqMonotonic
  <1> HIDE DEF V
  <1> QED
    BY <1>3, SeqEqual

-----------------------------------------------------------------------------
(* The states of the validator. *)
StackTypes == ValueTypes \cup {"unknown"}

BlockNames == {"func", "block", "loop", "if", "else", "try_table"}
ControlBlocks == [op : BlockNames, bt : FuncTypes, saved : SUBSET Nat]
ValidatorStates ==
    [stack : Seq(StackTypes), limits : Seq(Nat), init : SUBSET Nat,
     status : {"ok", "error", "panic"}, cs : Seq(ControlBlocks)]

(* The stack of the validator is never below the limit of its block. *)
Above(v) == v \in ValidatorStates /\ Limit(v) <= Len(v.stack)

(* From v the validator went to w without leaving the block, and what is   *)
(* below the limit of the block is what it was.                            *)
Keeps(v, w) ==
    /\ w \in ValidatorStates
    /\ w.cs = v.cs
    /\ w.limits = v.limits
    /\ Limit(v) <= Len(w.stack)
    /\ \A k \in 1 .. Limit(v) : w.stack[k] = v.stack[k]
    /\ w.status = "ok" => v.status = "ok"

(* The stack limit of a validator state is a number, and so is the height of its stack. *)
LEMMA LimitType ==
    ASSUME NEW v \in ValidatorStates
    PROVE  Limit(v) \in Nat /\ Len(v.stack) \in Nat
  <1>1. v.limits \in Seq(Nat) /\ v.stack \in Seq(StackTypes)
    BY DEF ValidatorStates
  <1>2. CASE v.limits = <<>>
    BY <1>1, <1>2 DEF Limit
  <1>3. CASE v.limits # <<>>
    <2>1. Len(v.limits) \in 1 .. Len(v.limits)
      BY <1>1, <1>3
    <2>2. v.limits[Len(v.limits)] \in Nat
      BY <1>1, <2>1, ElementOfSeq
    <2> QED
      BY <1>1, <1>3, <2>2 DEF Limit, Last
  <1> QED
    BY <1>2, <1>3

(* Two stretches that keep the blocks and the stack below the limit make one. *)
LEMMA KeepsTrans ==
    ASSUME NEW v, NEW w, NEW x, Above(v), Keeps(v, w), Keeps(w, x)
    PROVE  Keeps(v, x) /\ Above(w) /\ Limit(w) = Limit(v)
  <1>1. Limit(w) = Limit(v)
    BY DEF Keeps, Limit
  <1> QED
    BY <1>1 DEF Keeps, Above

(* What keeps the blocks leaves the stack above the same limit. *)
LEMMA KeepsAbove ==
    ASSUME NEW v, NEW w, Above(v), Keeps(v, w)
    PROVE  Above(w) /\ Limit(w) = Limit(v)
  <1>1. Limit(w) = Limit(v)
    BY DEF Keeps, Limit
  <1> QED
    BY <1>1 DEF Keeps, Above

(* Doing nothing keeps the blocks. *)
LEMMA KeepsSelf ==
    ASSUME NEW v, Above(v)
    PROVE  Keeps(v, v)
  BY DEF Keeps, Above

(* Rejecting the function keeps the blocks. *)
LEMMA KeepsFail ==
    ASSUME NEW v, Above(v)
    PROVE  Keeps(v, fail(v)) /\ fail(v).status # "ok"
  <1>1. fail(v) \in ValidatorStates
    BY Zenon DEF fail, Above, ValidatorStates
  <1> QED
    BY <1>1, Zenon DEF fail, Above, ValidatorStates, Keeps

(* A stack that is put in the place of v's and does not differ from it     *)
(* below the limit.                                                        *)
LEMMA KeepsStack ==
    ASSUME NEW v, Above(v), NEW s \in Seq(StackTypes), Limit(v) <= Len(s),
           \A k \in 1 .. Limit(v) : s[k] = v.stack[k]
    PROVE  Keeps(v, [v EXCEPT !.stack = s])
  <1> DEFINE w == [v EXCEPT !.stack = s]
  <1>1. w \in ValidatorStates /\ w.stack = s /\ w.cs = v.cs /\ w.limits = v.limits /\ w.status = v.status
    BY Zenon DEF Above, ValidatorStates
  <1> QED
    BY <1>1 DEF Keeps

(* The stack of v cut to n values. *)
Cut(v, n) == [v EXCEPT !.stack = SubSeq(@, 1, n)]

(* Cutting the stack down to a height above the limit keeps the blocks. *)
LEMMA KeepsCut ==
    ASSUME NEW v, Above(v), NEW n \in Nat, Limit(v) <= n, n <= Len(v.stack)
    PROVE  /\ Keeps(v, Cut(v, n))
           /\ Cut(v, n).status = v.status
           /\ Cut(v, n).init = v.init
           /\ Len(Cut(v, n).stack) = n
           /\ \A k \in 1 .. n : Cut(v, n).stack[k] = v.stack[k]
  <1> DEFINE s == SubSeq(v.stack, 1, n)
  <1>0. v.stack \in Seq(StackTypes) /\ Len(v.stack) \in Nat /\ v \in ValidatorStates /\ Limit(v) \in Nat
    BY LimitType DEF ValidatorStates, Above
  <1>1. \A k \in 1 .. n : v.stack[k] \in StackTypes
    BY <1>0, ElementOfSeq
  <1>2. /\ s \in Seq(StackTypes) /\ Len(s) = n
        /\ \A k \in 1 .. n : s[k] = v.stack[k]
    BY <1>0, <1>1, SubSeqProperties
  <1> HIDE DEF s
  <1>3. Limit(v) <= Len(s) /\ \A k \in 1 .. Limit(v) : s[k] = v.stack[k]
    BY <1>0, <1>2
  <1>4. Keeps(v, [v EXCEPT !.stack = s])
    BY <1>2, <1>3, KeepsStack
  <1>5. Cut(v, n) = [v EXCEPT !.stack = s]
    BY DEF Cut, s
  <1>6. Cut(v, n).stack = s /\ Cut(v, n).status = v.status /\ Cut(v, n).init = v.init
    BY <1>0, <1>5 DEF ValidatorStates
  <1> QED
    BY <1>2, <1>4, <1>5, <1>6

(* Front, written as the prefix the lemmas about cuts are about. *)
LEMMA FrontIsPrefix ==
    ASSUME NEW S, NEW s \in Seq(S), s # <<>>
    PROVE  Front(s) = SubSeq(s, 1, Len(s) - 1) /\ Len(s) - 1 \in Nat /\ Last(s) = s[Len(s)]
  BY DEF Front, Last

(* tryPop never goes below the limit. *)
LEMMA KeepsTryPop ==
    ASSUME NEW v, Above(v)
    PROVE  Keeps(v, tryPop(v))
  <1>0. v.stack \in Seq(StackTypes) /\ Len(v.stack) \in Nat /\ v \in ValidatorStates /\ Limit(v) \in Nat
    BY LimitType DEF ValidatorStates, Above
  <1>1. CASE Empty(v) \/ AtUnknown(v)
    BY <1>1, KeepsFail, KeepsSelf DEF tryPop
  <1>2. CASE ~ Empty(v) /\ ~ AtUnknown(v)
    <2>1. v.stack # <<>> /\ Len(v.stack) - 1 \in Nat /\ Limit(v) <= Len(v.stack) - 1
      BY <1>0, <1>2 DEF Empty
    <2>2. Front(v.stack) = SubSeq(v.stack, 1, Len(v.stack) - 1)
      BY <1>0, <2>1, FrontIsPrefix
    <2>3. tryPop(v) = Cut(v, Len(v.stack) - 1)
      BY <1>2, <2>2 DEF tryPop, Cut
    <2>4. Len(v.stack) - 1 <= Len(v.stack)
      BY <1>0
    <2> QED
      BY <2>1, <2>3, <2>4, KeepsCut
  <1> QED
    BY <1>1, <1>2

(* popAndVerifyType never goes below the limit. *)
LEMMA KeepsPopVerify ==
    ASSUME NEW v, Above(v), NEW t
    PROVE  Keeps(v, popAndVerifyType(v, t))
  BY KeepsTryPop, KeepsFail DEF popAndVerifyType

(* pushAll adds above what is there and rejects nothing. *)
LEMMA KeepsPushAll ==
    ASSUME NEW v, Above(v), NEW ts \in Seq(StackTypes)
    PROVE  Keeps(v, pushAll(v, ts)) /\ pushAll(v, ts).status = v.status
  <1> DEFINE s == v.stack \o ts
  <1>0. v.stack \in Seq(StackTypes) /\ Len(v.stack) \in Nat /\ v \in ValidatorStates /\ Limit(v) \in Nat
        /\ Len(ts) \in Nat
    BY LimitType DEF ValidatorStates, Above
  <1>1. /\ s \in Seq(StackTypes) /\ Len(s) = Len(v.stack) + Len(ts)
        /\ \A k \in 1 .. Len(v.stack) + Len(ts) : s[k] = IF k <= Len(v.stack) THEN v.stack[k] ELSE ts[k - Len(v.stack)]
    BY <1>0, ConcatProperties
  <1> HIDE DEF s
  <1>2. Limit(v) <= Len(v.stack)
    BY DEF Above
  <1>3. Limit(v) <= Len(s) /\ \A k \in 1 .. Limit(v) : s[k] = v.stack[k]
    <2>1. ASSUME NEW k \in 1 .. Limit(v) PROVE s[k] = v.stack[k]
      <3>1. k \in 1 .. Len(v.stack) + Len(ts) /\ k <= Len(v.stack)
        BY <1>0, <1>2
      <3> QED
        BY <1>1, <3>1, Zenon
    <2> QED
      BY <1>0, <1>1, <1>2, <2>1
  <1>4. pushAll(v, ts) = [v EXCEPT !.stack = s]
    BY DEF pushAll, s
  <1>5. Keeps(v, pushAll(v, ts))
    BY <1>1, <1>3, <1>4, KeepsStack, Zenon
  <1> QED
    BY <1>0, <1>4, <1>5 DEF ValidatorStates

(* push is pushAll of one type. *)
LEMMA PushIsPushAll ==
    ASSUME NEW v, Above(v), NEW t \in StackTypes
    PROVE  push(v, t) = pushAll(v, <<t>>) /\ <<t>> \in Seq(StackTypes)
  <1>1. v.stack \in Seq(StackTypes)
    BY DEF ValidatorStates, Above
  <1>2. Append(v.stack, t) = v.stack \o <<t>>
    BY <1>1, AppendIsConcat
  <1> QED
    BY <1>2 DEF push, pushAll

(* push adds above what is there and rejects nothing. *)
LEMMA KeepsPush ==
    ASSUME NEW v, Above(v), NEW t \in StackTypes
    PROVE  Keeps(v, push(v, t)) /\ push(v, t).status = v.status
  BY PushIsPushAll, KeepsPushAll, Zenon

(* resetAtStackLimit is the cut to the limit. *)
LEMMA ResetIsCut ==
    ASSUME NEW v, Above(v)
    PROVE  resetAtStackLimit(v) = Cut(v, Limit(v)) /\ Limit(v) \in Nat /\ Limit(v) <= Limit(v)
  <1>1. Limit(v) \in Nat
    BY LimitType DEF Above
  <1> QED
    BY <1>1 DEF resetAtStackLimit, Cut

(* resetAtStackLimit leaves exactly what is below the limit. *)
LEMMA KeepsReset ==
    ASSUME NEW v, Above(v)
    PROVE  /\ Keeps(v, resetAtStackLimit(v))
           /\ Len(resetAtStackLimit(v).stack) = Limit(v)
           /\ resetAtStackLimit(v).status = v.status
           /\ resetAtStackLimit(v).init = v.init
  BY ResetIsCut, KeepsCut DEF Above

(* Turning the stack polymorphic keeps the blocks. *)
LEMMA KeepsUnreachable ==
    ASSUME NEW v, Above(v)
    PROVE  Keeps(v, unreachable(v)) /\ unreachable(v).status = v.status
  <1> DEFINE w == resetAtStackLimit(v)
  <1>1. Keeps(v, w) /\ w.status = v.status
    BY KeepsReset
  <1>2. Above(w)
    BY <1>1, KeepsAbove
  <1>3. "unknown" \in StackTypes
    BY DEF StackTypes
  <1>4. Keeps(w, push(w, "unknown")) /\ push(w, "unknown").status = w.status
    BY <1>2, <1>3, KeepsPush
  <1>5. unreachable(v) = push(w, "unknown")
    BY DEF unreachable
  <1> HIDE DEF w
  <1> QED
    BY <1>1, <1>4, <1>5, KeepsTrans

(* Popping several types never goes below the limit. *)
LEMMA KeepsPopAll ==
    ASSUME NEW v, Above(v), NEW S, NEW want \in Seq(S)
    PROVE  Keeps(v, popAll(v, want))
  <1> DEFINE n == Len(want)
  <1>1. PICK g : /\ g[n + 1] = v
                 /\ \A a \in 1 .. n : g[a] = popAndVerifyType(g[a + 1], want[a])
                 /\ popAll(v, want) = g[1]
    BY PopSteps
  <1>0. n \in Nat
    OBVIOUS
  <1> HIDE DEF n
  <1> DEFINE Bad == {m \in 0 .. n : ~ Keeps(v, g[n + 1 - m])}
  <1>2. Bad = {}
    <2> SUFFICES ASSUME Bad # {} PROVE FALSE
      OBVIOUS
    <2>1. Bad \in SUBSET Nat
      BY <1>0
    <2>2. PICK m \in Bad : \A y \in Bad : m <= y
      <3> HIDE DEF Bad
      <3> QED
        BY <2>1, LeastNatural
    <2>3. m # 0
      <3>1. n + 1 - 0 = n + 1
        BY <1>0
      <3> QED
        BY <1>1, <2>2, <3>1, KeepsSelf
    <2>4. m - 1 \in 0 .. n /\ m - 1 \notin Bad
      BY <1>0, <2>2, <2>3
    <2>5. n + 1 - m \in 1 .. n /\ n + 1 - (m - 1) = (n + 1 - m) + 1
      BY <1>0, <2>2, <2>3
    <2> DEFINE a == n + 1 - m
    <2>6. Keeps(v, g[a + 1])
      BY <2>4, <2>5
    <2>7. g[a] = popAndVerifyType(g[a + 1], want[a])
      BY <1>1, <2>5
    <2>8. Keeps(g[a + 1], g[a])
      BY <2>6, <2>7, KeepsAbove, KeepsPopVerify
    <2>9. Keeps(v, g[a])
      BY <2>6, <2>8, KeepsTrans
    <2> QED
      BY <2>2, <2>9
  <1>3. n \in 0 .. n /\ n + 1 - n = 1
    BY <1>0
  <1>4. n \notin Bad
    BY <1>2
  <1> QED
    BY <1>1, <1>3, <1>4

(* requireStackValues never goes below the limit. *)
LEMMA KeepsRequire ==
    ASSUME NEW v, Above(v), NEW S, NEW want \in Seq(S), NEW above
    PROVE  Keeps(v, requireStackValues(v, want, above))
  <1> DEFINE w == popAll(v, want)
  <1>1. Keeps(v, w) /\ Above(w)
    BY KeepsPopAll, KeepsAbove
  <1>2. requireStackValues(v, want, above) \in {w, fail(w)}
    BY DEF requireStackValues
  <1> HIDE DEF w
  <1>3. Keeps(v, fail(w))
    BY <1>1, KeepsFail, KeepsTrans
  <1> QED
    BY <1>1, <1>2, <1>3

(* Value types are stack types. *)
LEMMA ValueSeqs ==
    ASSUME NEW ts \in Seq(ValueTypes)
    PROVE  ts \in Seq(StackTypes)
  BY SeqMonotonic DEF StackTypes

(* An operator with operands and results keeps the blocks. *)
LEMMA KeepsTakes ==
    ASSUME NEW v, Above(v), NEW S, NEW in \in Seq(S), NEW out \in Seq(StackTypes)
    PROVE  Keeps(v, takes(v, in, out))
  <1> DEFINE w == popAll(v, in)
  <1>1. Keeps(v, w) /\ Above(w)
    BY KeepsPopAll, KeepsAbove
  <1>2. takes(v, in, out) = pushAll(w, out)
    BY DEF takes
  <1> HIDE DEF w
  <1> QED
    BY <1>1, <1>2, KeepsPushAll, KeepsTrans

(* Marking a local, or requiring it to be initialised, keeps the blocks. *)
LEMMA KeepsInit ==
    ASSUME NEW v, Above(v), NEW f, NEW x \in Nat
    PROVE  Keeps(v, markLocalInit(v, f, x)) /\ Keeps(v, requireLocalInit(v, f, x))
  <1>0. v \in ValidatorStates /\ Limit(v) <= Len(v.stack)
    BY DEF Above
  <1>1. Keeps(v, [v EXCEPT !.status = "panic"])
    BY <1>0, Zenon DEF Keeps, ValidatorStates
  <1>2. Keeps(v, [v EXCEPT !.init = @ \cup {x}])
    BY <1>0, Zenon DEF Keeps, ValidatorStates
  <1>3. Keeps(v, v) /\ Keeps(v, fail(v))
    BY KeepsSelf, KeepsFail
  <1> QED
    BY <1>1, <1>2, <1>3 DEF markLocalInit, requireLocalInit

-----------------------------------------------------------------------------
(* Reference types are value types. *)
LEMMA ReferencesAreTypes ==
    ASSUME NEW t, isReferenceValueType(t)
    PROVE  t \in ValueTypes
  BY DEF isReferenceValueType, ValueTypes

(* A label the validator has names an open block, whose label types are value types. *)
LEMMA LabelTypesType ==
    ASSUME NEW v \in ValidatorStates, NEW l \in Nat, HasLabel(v, l)
    PROVE  /\ Len(v.cs) - l \in 1 .. Len(v.cs)
           /\ Target(v, l) \in ControlBlocks
           /\ LabelTypes(Target(v, l)) \in Seq(ValueTypes)
  <1>1. v.cs \in Seq(ControlBlocks) /\ Len(v.cs) \in Nat
    BY DEF ValidatorStates
  <1>2. Len(v.cs) - l \in 1 .. Len(v.cs)
    BY <1>1 DEF HasLabel
  <1>3. Target(v, l) \in ControlBlocks
    BY <1>1, <1>2, ElementOfSeq DEF Target
  <1> QED
    BY <1>2, <1>3 DEF LabelTypes, ControlBlocks, FuncTypes

(* The type on top of a stack that is not empty, and its non-null form, are stack types. *)
LEMMA TopTypeType ==
    ASSUME NEW v, Above(v), ~ Empty(v)
    PROVE  TopType(v) \in StackTypes /\ AsNonNullable(TopType(v)) \in StackTypes
  <1>0. v.stack \in Seq(StackTypes) /\ Len(v.stack) \in Nat /\ Limit(v) \in Nat
    BY LimitType DEF ValidatorStates, Above
  <1>1. Len(v.stack) \in 1 .. Len(v.stack)
    BY <1>0 DEF Empty
  <1>2. v.stack[Len(v.stack)] \in StackTypes
    BY <1>0, <1>1, ElementOfSeq
  <1>3. TopType(v) \in StackTypes
    BY <1>2 DEF TopType, Last
  <1> QED
    BY <1>3 DEF AsNonNullable, StackTypes, ValueTypes, NonNullable, Nullable

(* Branches. *)
LEMMA KeepsBranch ==
    ASSUME NEW v, Above(v), NEW f, DecodedFunction(f), NEW i, Decoded(i)
    PROVE  /\ i.op = "br" => Keeps(v, validateBr(v, i))
           /\ i.op = "br_if" => Keeps(v, validateBrIf(v, i))
           /\ i.op = "br_table" => Keeps(v, validateBrTable(v, i))
           /\ Keeps(v, unreachable(requireStackValues(v, f.results, FALSE)))
           /\ i.op = "throw" => Keeps(v, unreachable(popAll(v, i.tag.params)))
           /\ Keeps(v, unreachable(popAndVerifyType(v, "exnref")))
  <1>0. v \in ValidatorStates
    BY DEF Above
  <1>f. Keeps(v, fail(v))
    BY KeepsFail
  <1>u. ASSUME NEW w, Keeps(v, w) PROVE Keeps(v, unreachable(w))
    <2>1. Above(w)
      BY <1>u, KeepsAbove
    <2>2. Keeps(w, unreachable(w))
      BY <2>1, KeepsUnreachable
    <2> QED
      BY <1>u, <2>2, KeepsTrans
  <1>1. ASSUME i.op = "br" PROVE Keeps(v, validateBr(v, i))
    <2>1. CASE HasLabel(v, i.l)
      <3>1. LabelTypes(Target(v, i.l)) \in Seq(ValueTypes)
        BY <1>0, <1>1, <2>1, LabelTypesType DEF Decoded
      <3>2. Keeps(v, requireStackValues(v, LabelTypes(Target(v, i.l)), FALSE))
        BY <3>1, KeepsRequire, Zenon
      <3> QED
        BY <1>u, <2>1, <3>2, Zenon DEF validateBr
    <2> QED
      BY <1>f, <2>1, Zenon DEF validateBr
  <1>2. ASSUME i.op = "br_if" PROVE Keeps(v, validateBrIf(v, i))
    <2>1. CASE HasLabel(v, i.l)
      <3> DEFINE ts == LabelTypes(Target(v, i.l))
                 w == popAndVerifyType(v, "i32")
                 x == requireStackValues(w, ts, FALSE)
      <3>1. ts \in Seq(ValueTypes)
        BY <1>0, <1>2, <2>1, LabelTypesType DEF Decoded, BrIfOps
      <3>2. ts \in Seq(StackTypes)
        BY <3>1, ValueSeqs
      <3>3. validateBrIf(v, i) = pushAll(x, ts)
        BY <2>1 DEF validateBrIf
      <3>4. Keeps(v, w) /\ Above(w)
        BY KeepsPopVerify, KeepsAbove
      <3> HIDE DEF w, ts
      <3>5. Keeps(v, x) /\ Above(x)
        BY <3>2, <3>4, KeepsRequire, KeepsTrans, KeepsAbove, Zenon
      <3> HIDE DEF x
      <3>6. Keeps(x, pushAll(x, ts))
        BY <3>2, <3>5, KeepsPushAll
      <3> QED
        BY <3>3, <3>5, <3>6, KeepsTrans
    <2> QED
      BY <1>f, <2>1, Zenon DEF validateBrIf
  <1>3. Keeps(v, validateBrTable(v, i))
    <2> DEFINE w == popAndVerifyType(v, "i32")
    <2>1. Keeps(v, unreachable(w))
      BY <1>u, KeepsPopVerify
    <2>2. validateBrTable(v, i) \in {unreachable(w), fail(v)}
      BY DEF validateBrTable
    <2> HIDE DEF w
    <2> QED
      BY <1>f, <2>1, <2>2
  <1>4. Keeps(v, unreachable(requireStackValues(v, f.results, FALSE)))
    <2>1. f.results \in Seq(ValueTypes)
      BY DEF DecodedFunction
    <2> QED
      BY <1>u, <2>1, KeepsRequire, Zenon
  <1>5. ASSUME i.op = "throw" PROVE Keeps(v, unreachable(popAll(v, i.tag.params)))
    <2>1. i.tag.params \in Seq(ValueTypes)
      BY <1>5 DEF Decoded
    <2> QED
      BY <1>u, <2>1, KeepsPopAll
  <1>6. Keeps(v, unreachable(popAndVerifyType(v, "exnref")))
    BY <1>u, KeepsPopVerify
  <1> QED
    BY <1>1, <1>2, <1>3, <1>4, <1>5, <1>6, Zenon

(* Calls. *)
LEMMA KeepsCall ==
    ASSUME NEW v, Above(v), NEW f, DecodedFunction(f), NEW i, Decoded(i),
           i.op \in CallOps \cup TailCallOps
    PROVE  Keeps(v, validateCall(v, f, i))
  <1>0. i.type.params \in Seq(ValueTypes) /\ i.type.results \in Seq(StackTypes) /\ f.results \in Seq(ValueTypes)
    <2>1. i.type \in FuncTypes
      BY DEF Decoded
    <2> QED
      BY <2>1, ValueSeqs DEF FuncTypes, DecodedFunction
  <1> DEFINE operand == CASE i.op \in {"call", "return_call"} -> v
                          [] i.op \in {"call_indirect", "return_call_indirect"} -> popAndVerifyType(v, "i32")
                          [] i.op \in {"call_ref", "return_call_ref"} -> popAndVerifyType(v, "tref")
             called == validateCallSignature(operand, i.type)
             tail == validateReturnCall(called, i.type, f)
  <1>1. Keeps(v, operand) /\ Above(operand)
    <2>1. operand \in {v, popAndVerifyType(v, "i32"), popAndVerifyType(v, "tref")}
      BY DEF CallOps, TailCallOps
    <2> HIDE DEF operand
    <2> QED
      BY <2>1, KeepsSelf, KeepsPopVerify, KeepsAbove
  <1>2. validateCall(v, f, i) \in {called, tail}
    BY Zenon DEF validateCall
  <1> HIDE DEF operand
  <1>3. Keeps(v, called) /\ Above(called)
    <2>1. Keeps(operand, takes(operand, i.type.params, i.type.results))
      BY <1>0, <1>1, KeepsTakes
    <2>2. called = takes(operand, i.type.params, i.type.results)
      BY DEF validateCallSignature, takes
    <2> QED
      BY <1>1, <2>1, <2>2, KeepsTrans, KeepsAbove
  <1> HIDE DEF called
  <1>4. Keeps(called, tail)
    <2> DEFINE w == requireStackValues(called, f.results, FALSE)
    <2>1. tail \in {fail(called), unreachable(w)}
      BY DEF validateReturnCall
    <2>2. Keeps(called, w) /\ Above(w)
      BY <1>0, <1>3, KeepsRequire, KeepsAbove, Zenon
    <2> HIDE DEF w, tail
    <2>3. Keeps(called, unreachable(w))
      BY <1>3, <2>2, KeepsUnreachable, KeepsTrans
    <2> QED
      BY <1>3, <2>1, <2>3, KeepsFail
  <1> HIDE DEF tail
  <1> QED
    BY <1>2, <1>3, <1>4, KeepsTrans

(* References. *)
LEMMA KeepsRef ==
    ASSUME NEW v, Above(v), NEW i, Decoded(i)
    PROVE  /\ i.op = "br_on_null" => Keeps(v, validateBrOnNull(v, i))
           /\ i.op = "br_on_non_null" => Keeps(v, validateBrOnNonNull(v, i))
           /\ i.op \in RefOps => Keeps(v, validateRef(v, i))
  <1>0. v \in ValidatorStates
    BY DEF Above
  <1>f. Keeps(v, fail(v))
    BY KeepsFail
  <1> DEFINE p == tryPop(v)
  <1>p. Keeps(v, p) /\ Above(p)
    BY KeepsTryPop, KeepsAbove
  <1> HIDE DEF p
  <1>r. ASSUME NEW S, NEW want \in Seq(S), NEW out \in Seq(StackTypes)
        PROVE  Keeps(v, pushAll(requireStackValues(p, want, FALSE), out))
    <2> DEFINE w == requireStackValues(p, want, FALSE)
    <2>1. Keeps(p, w)
      BY <1>p, KeepsRequire, Zenon
    <2> HIDE DEF w
    <2>2. Keeps(v, w) /\ Above(w)
      BY <1>p, <2>1, KeepsTrans, KeepsAbove
    <2>3. Keeps(w, pushAll(w, out))
      BY <2>2, KeepsPushAll
    <2>4. Keeps(v, pushAll(w, out))
      BY <2>2, <2>3, KeepsTrans
    <2> QED
      BY <2>4, Zenon DEF w
  <1>q. ASSUME NEW t \in StackTypes PROVE Keeps(v, push(p, t)) /\ Keeps(v, push(v, t))
    <2>1. Keeps(p, push(p, t)) /\ Keeps(v, push(v, t))
      BY <1>p, KeepsPush
    <2> QED
      BY <1>p, <2>1, KeepsTrans
  <1>1. ASSUME i.op = "br_on_null" PROVE Keeps(v, validateBrOnNull(v, i))
    <2>1. CASE HasLabel(v, i.l) /\ IsRefOperand(v)
      <3> DEFINE ts == LabelTypes(Target(v, i.l))
                 nn == AsNonNullable(TopType(v))
      <3>1. ts \in Seq(ValueTypes)
        BY <1>0, <1>1, <2>1, LabelTypesType DEF Decoded, BrIfOps
      <3>2. nn \in StackTypes
        BY <2>1, TopTypeType DEF IsRefOperand
      <3>3. validateBrOnNull(v, i) = pushAll(requireStackValues(p, ts, FALSE), Append(ts, nn))
        BY <2>1 DEF validateBrOnNull, p
      <3> HIDE DEF ts, nn
      <3>4. Append(ts, nn) \in Seq(StackTypes)
        BY <3>1, <3>2, ValueSeqs
      <3> QED
        BY <1>r, <3>1, <3>3, <3>4, Zenon
    <2> QED
      BY <1>f, <2>1, Zenon DEF validateBrOnNull
  <1>2. ASSUME i.op = "br_on_non_null" PROVE Keeps(v, validateBrOnNonNull(v, i))
    <2>1. CASE HasLabel(v, i.l) /\ LabelTypes(Target(v, i.l)) # <<>>
      <3> DEFINE ts == LabelTypes(Target(v, i.l))
                 w == pushAll(requireStackValues(p, Front(ts), FALSE), Front(ts))
      <3>1. ts \in Seq(ValueTypes)
        BY <1>0, <1>2, <2>1, LabelTypesType DEF Decoded, BrIfOps
      <3>2. validateBrOnNonNull(v, i) \in {fail(v), w}
        BY DEF validateBrOnNonNull, p
      <3>3. ts # <<>>
        BY <2>1
      <3> HIDE DEF ts
      <3>4. Front(ts) \in Seq(StackTypes)
        <4>1. \A k \in 1 .. Len(ts) : ts[k] \in ValueTypes
          BY <3>1, ElementOfSeq
        <4>2. SubSeq(ts, 1, Len(ts) - 1) \in Seq(ValueTypes)
          BY <3>1, <3>3, <4>1, SubSeqProperties
        <4> QED
          BY <3>1, <3>3, <4>2, FrontIsPrefix, ValueSeqs
      <3>5. Keeps(v, w)
        BY <1>r, <3>4, Zenon
      <3> HIDE DEF w
      <3> QED
        BY <1>f, <3>2, <3>5
    <2> QED
      BY <1>f, <2>1, Zenon DEF validateBrOnNonNull
  <1>3. ASSUME i.op \in RefOps PROVE Keeps(v, validateRef(v, i))
    <2>1. CASE i.op = "ref.null"
      <3>1. i.t \in StackTypes
        BY <2>1, ReferencesAreTypes DEF Decoded, StackTypes
      <3> QED
        BY <1>q, <2>1, <3>1 DEF validateRef
    <2>2. CASE i.op = "ref.func"
      <3>1. "t" \in StackTypes
        BY DEF StackTypes, ValueTypes, NonNullable
      <3> QED
        BY <1>q, <2>2, <3>1 DEF validateRef
    <2>3. CASE i.op = "ref.as_non_null"
      <3>1. IsRefOperand(v) => AsNonNullable(TopType(v)) \in StackTypes
        BY TopTypeType DEF IsRefOperand
      <3> QED
        BY <1>f, <1>q, <2>3, <3>1 DEF validateRef, p
    <2>4. CASE i.op = "ref.is_null"
      <3>1. "i32" \in StackTypes
        BY DEF StackTypes, ValueTypes
      <3> QED
        BY <1>f, <1>q, <2>4, <3>1 DEF validateRef, p
    <2> QED
      BY <1>3, <2>1, <2>2, <2>3, <2>4 DEF RefOps
  <1> QED
    BY <1>1, <1>2, <1>3

(* validateSelect keeps the blocks. *)
LEMMA KeepsSelect ==
    ASSUME NEW v, Above(v), NEW i
    PROVE  Keeps(v, validateSelect(v, i))
  <1> DEFINE w == popAndVerifyType(v, "i32")
             x == tryPop(w)
             y == tryPop(x)
  <1>1. Keeps(v, w) /\ Above(w)
    BY KeepsPopVerify, KeepsAbove
  <1> DEFINE t == IF TopType(w) = "unknown" \/ (TopType(x) # "unknown" /\ isRefSubtypeOf(TopType(w), TopType(x)))
                  THEN TopType(x) ELSE TopType(w)
  <1>0. t \in {TopType(w), TopType(x)}
    OBVIOUS
  <1>2. \/ validateSelect(v, i) = fail(v)
        \/ ~ Empty(w) /\ ~ Empty(x) /\ validateSelect(v, i) = push(y, t)
    BY Zenon DEF validateSelect
  <1> HIDE DEF t
  <1> HIDE DEF w
  <1>3. Keeps(w, x)
    BY <1>1, KeepsTryPop
  <1> HIDE DEF x
  <1>4. Keeps(v, x) /\ Above(x)
    BY <1>1, <1>3, KeepsTrans, KeepsAbove
  <1>5. Keeps(x, y)
    BY <1>4, KeepsTryPop
  <1> HIDE DEF y
  <1>6. Keeps(v, y) /\ Above(y)
    BY <1>4, <1>5, KeepsTrans, KeepsAbove
  <1>7. ASSUME NEW u \in StackTypes PROVE Keeps(v, push(y, u))
    BY <1>6, KeepsPush, KeepsTrans
  <1>8. ~ Empty(w) /\ ~ Empty(x) => TopType(w) \in StackTypes /\ TopType(x) \in StackTypes
    BY <1>1, <1>4, TopTypeType
  <1> QED
    BY <1>0, <1>2, <1>7, <1>8, KeepsFail

(* Locals. *)
LEMMA LocalTypesType ==
    ASSUME NEW f, DecodedFunction(f), NEW x \in Nat \ {0}, x <= Len(LocalTypes(f))
    PROVE  LocalTypes(f)[x] \in ValueTypes
  <1>1. LocalTypes(f) \in Seq(ValueTypes)
    BY DEF LocalTypes, DecodedFunction
  <1>2. x \in 1 .. Len(LocalTypes(f))
    BY <1>1
  <1> QED
    BY <1>1, <1>2, ElementOfSeq

(* local.get, local.set and local.tee keep the blocks. *)
LEMMA KeepsLocal ==
    ASSUME NEW v, Above(v), NEW f, DecodedFunction(f), NEW i, Decoded(i), i.op \in LocalOps
    PROVE  Keeps(v, validateLocal(v, f, i))
  <1> DEFINE t == LocalTypes(f)[i.x]
             w == popAndVerifyType(v, t)
             r == requireLocalInit(v, f, i.x)
             u == push(w, t)
  <1>0. i.x \in Nat \ {0}
    BY DEF Decoded
  <1>1. CASE i.x > Len(LocalTypes(f))
    BY <1>1, KeepsFail DEF validateLocal
  <1>2. CASE ~ (i.x > Len(LocalTypes(f)))
    <2>0. LocalTypes(f) \in Seq(ValueTypes)
      BY DEF LocalTypes, DecodedFunction
    <2>1. t \in StackTypes
      BY <1>0, <1>2, <2>0, LocalTypesType DEF StackTypes
    <2>2. validateLocal(v, f, i) \in {push(r, t), markLocalInit(w, f, i.x), markLocalInit(u, f, i.x)}
      BY <1>2 DEF validateLocal, LocalOps
    <2> HIDE DEF t
    <2>3. Keeps(v, w) /\ Above(w)
      BY KeepsPopVerify, KeepsAbove
    <2>4. Keeps(v, r) /\ Above(r)
      BY <1>0, KeepsInit, KeepsAbove
    <2> HIDE DEF w, r
    <2>5. Keeps(v, push(r, t))
      BY <2>1, <2>4, KeepsPush, KeepsTrans
    <2>6. Keeps(w, u)
      BY <2>1, <2>3, KeepsPush
    <2> HIDE DEF u
    <2>7. Keeps(v, u) /\ Above(u)
      BY <2>3, <2>6, KeepsTrans, KeepsAbove
    <2>8. Keeps(v, markLocalInit(w, f, i.x))
      BY <1>0, <2>3, KeepsInit, KeepsTrans
    <2>9. Keeps(v, markLocalInit(u, f, i.x))
      BY <1>0, <2>7, KeepsInit, KeepsTrans
    <2> QED
      BY <2>2, <2>5, <2>8, <2>9
  <1> QED
    BY <1>1, <1>2

(* The instructions that take operands of given types and leave results:   *)
(* what they take and leave.                                               *)
Operands(mod, i) ==
    CASE i.op = "eqz"     -> <<i.t>>
      [] i.op \in {"compare", "binary"} -> <<i.t, i.t>>
      [] i.op \in {"unary", "extend"} -> <<i.t>>
      [] i.op = "convert" -> <<i.from>>
      [] i.op \in {"const", "nop", "atomic.fence", "data.drop", "elem.drop", "memory.size", "table.size", "global.get"} -> <<>>
      [] i.op \in {"load", "memory.grow", "table.get", "atomic.load", "v.load"} -> <<"i32">>
      [] i.op \in {"store", "atomic.store", "atomic.rmw"} -> <<"i32", i.t>>
      [] i.op = "global.set" -> <<mod.globals[i.x].t>>
      [] i.op = "table.set"  -> <<"i32", mod.tables[i.x].type>>
      [] i.op = "table.grow" -> <<mod.tables[i.x].type, "i32">>
      [] i.op = "table.fill" -> <<"i32", mod.tables[i.x].type, "i32">>
      [] i.op \in {"memory.init", "memory.copy", "memory.fill", "table.init", "table.copy"} -> <<"i32", "i32", "i32">>
      [] i.op = "atomic.notify" -> <<"i32", "i32">>
      [] i.op = "atomic.wait" -> <<"i32", i.t, "i64">>
      [] i.op = "atomic.cmpxchg" -> <<"i32", i.t, i.t>>
      [] i.op \in {"v.load_lane", "v.store", "v.store_lane"} -> <<"i32", "v128">>
      [] i.op \in {"v.extract", "v.test", "v.unary"} -> <<"v128">>
      [] i.op = "v.replace" -> <<"v128", laneResultType(i.t)>>
      [] i.op = "v.splat" -> <<laneResultType(i.t)>>
      [] i.op = "v.shift" -> <<"v128", "i32">>
      [] i.op \in {"v.binary", "v.compare"} -> <<"v128", "v128">>
      [] i.op = "v.bitselect" -> <<"v128", "v128", "v128">>

Results(mod, i) ==
    CASE i.op \in {"eqz", "compare", "memory.size", "memory.grow", "table.size", "table.grow",
                   "atomic.notify", "atomic.wait", "v.test"} -> <<"i32">>
      [] i.op \in {"const", "unary", "extend", "binary", "convert", "load", "atomic.load", "atomic.rmw",
                   "atomic.cmpxchg"} -> <<i.t>>
      [] i.op = "global.get" -> <<mod.globals[i.x].t>>
      [] i.op = "table.get"  -> <<mod.tables[i.x].type>>
      [] i.op \in {"v.load", "v.load_lane", "v.replace", "v.splat", "v.unary", "v.shift", "v.binary",
                   "v.compare", "v.bitselect"} -> <<"v128">>
      [] i.op = "v.extract" -> <<laneResultType(i.t)>>
      [] OTHER -> <<>>

PlainOps ==
    {"nop", "const"} \cup NumericOps \cup MemoryOps \cup GlobalOps \cup TableOps \cup BulkOps
    \cup AtomicOps \cup AtomicRMWOps \cup VectorOps

(* The operands and results of the operators without control are value types. *)
LEMMA PlainTypes ==
    ASSUME NEW mod, DecodedModule(mod), NEW i, Decoded(i), i.op \in PlainOps,
           i.op \in GlobalOps => i.x <= Len(mod.globals),
           i.op \in TableOps => i.x <= Len(mod.tables)
    PROVE  /\ Operands(mod, i) \in Seq(ValueTypes)
           /\ Results(mod, i) \in Seq(ValueTypes)
  <1>1. /\ "i32" \in ValueTypes /\ "i64" \in ValueTypes /\ "v128" \in ValueTypes
        /\ <<>> \in Seq(ValueTypes)
        /\ \A a \in ValueTypes : <<a>> \in Seq(ValueTypes)
        /\ \A a, b \in ValueTypes : <<a, b>> \in Seq(ValueTypes)
        /\ \A a, b, c \in ValueTypes : <<a, b, c>> \in Seq(ValueTypes)
    BY DEF ValueTypes
  <1>2. i.op \in GlobalOps => mod.globals[i.x].t \in ValueTypes
    <2>1. i.op \in GlobalOps => i.x \in 1 .. Len(mod.globals)
      BY DEF Decoded, DecodedModule
    <2> QED
      BY <2>1 DEF DecodedModule
  <1>3. i.op \in TableOps => mod.tables[i.x].type \in ValueTypes
    <2>1. i.op \in TableOps => i.x \in 1 .. Len(mod.tables)
      BY DEF Decoded, DecodedModule
    <2> QED
      BY <2>1, ReferencesAreTypes DEF DecodedModule
  <1>4. /\ i.op \in Typed => i.t \in ValueTypes
        /\ i.op = "convert" => i.from \in ValueTypes
        /\ i.op \in VectorLaneOps => laneResultType(i.t) \in ValueTypes
    BY DEF Decoded
  <1>5. CASE i.op \in {"nop", "const"} \cup NumericOps
    BY <1>1, <1>4, <1>5 DEF Operands, Results, NumericOps, Typed
  <1>6. CASE i.op \in MemoryOps \cup BulkOps
    BY <1>1, <1>4, <1>6 DEF Operands, Results, MemoryOps, BulkOps, Typed
  <1>7. CASE i.op \in GlobalOps \cup TableOps
    BY <1>1, <1>2, <1>3, <1>7 DEF Operands, Results, GlobalOps, TableOps
  <1>8. CASE i.op \in AtomicOps \cup AtomicRMWOps
    BY <1>1, <1>4, <1>8 DEF Operands, Results, AtomicOps, AtomicRMWOps, Typed
  <1>9. CASE i.op \in VectorOps
    BY <1>1, <1>4, <1>9 DEF Operands, Results, VectorOps, VectorLaneOps, VectorMemoryOps, VectorLogicOps, VectorArithmeticOps
  <1> QED
    BY <1>5, <1>6, <1>7, <1>8, <1>9 DEF PlainOps

(* Popping no type and popping one. *)
LEMMA PopFew ==
    ASSUME NEW v, NEW e
    PROVE  popAll(v, <<>>) = v /\ popAll(v, <<e>>) = popAndVerifyType(v, e)
  <1>1. popAll(v, <<>>) = v
    <2> DEFINE s == <<>>
    <2>1. s \in Seq({}) /\ Len(s) + 1 = 1
      OBVIOUS
    <2> HIDE DEF s
    <2>2. PICK g : g[Len(s) + 1] = v /\ popAll(v, s) = g[1]
      BY <2>1, PopSteps
    <2>3. popAll(v, s) = v
      BY <2>1, <2>2
    <2> QED
      BY <2>3 DEF s
  <1>2. popAll(v, <<e>>) = popAndVerifyType(v, e)
    <2> DEFINE s == <<e>>
    <2>1. s \in Seq({e}) /\ Len(s) = 1 /\ s[1] = e /\ 1 \in 1 .. Len(s) /\ 1 + 1 = Len(s) + 1
      OBVIOUS
    <2> HIDE DEF s
    <2>2. PICK g : /\ g[Len(s) + 1] = v
                   /\ \A a \in 1 .. Len(s) : g[a] = popAndVerifyType(g[a + 1], s[a])
                   /\ popAll(v, s) = g[1]
      BY <2>1, PopSteps
    <2>3. g[1] = popAndVerifyType(g[1 + 1], s[1])
      BY <2>1, <2>2
    <2>4. popAll(v, s) = popAndVerifyType(v, e)
      BY <2>1, <2>2, <2>3
    <2> QED
      BY <2>4 DEF s
  <1> QED
    BY <1>1, <1>2

(* Pushing no type changes nothing. *)
LEMMA PushNone ==
    ASSUME NEW v, Above(v)
    PROVE  pushAll(v, <<>>) = v
  <1>1. v \in ValidatorStates /\ v.stack \in Seq(StackTypes)
    BY DEF Above, ValidatorStates
  <1>2. v.stack \o <<>> = v.stack
    BY <1>1, ConcatEmptySeq
  <1>3. pushAll(v, <<>>) = [v EXCEPT !.stack = v.stack]
    BY <1>2 DEF pushAll
  <1>4. [v EXCEPT !.stack = v.stack] = v
    BY <1>1 DEF ValidatorStates
  <1> QED
    BY <1>3, <1>4

(* The operators with no operand or result, one result, or one operand. *)
LEMMA TakesFew ==
    ASSUME NEW v, Above(v)
    PROVE  /\ takes(v, <<>>, <<>>) = v
           /\ \A t \in StackTypes : takes(v, <<>>, <<t>>) = push(v, t)
           /\ \A e : takes(v, <<e>>, <<>>) = popAndVerifyType(v, e)
  <1>1. takes(v, <<>>, <<>>) = v
    BY PopFew, PushNone, Zenon DEF takes
  <1>2. ASSUME NEW t \in StackTypes PROVE takes(v, <<>>, <<t>>) = push(v, t)
    BY PopFew, PushIsPushAll DEF takes
  <1>3. ASSUME NEW e PROVE takes(v, <<e>>, <<>>) = popAndVerifyType(v, e)
    <2>1. Above(popAndVerifyType(v, e))
      BY KeepsPopVerify, KeepsAbove
    <2> QED
      BY <2>1, PopFew, PushNone DEF takes
  <1> QED
    BY <1>1, <1>2, <1>3

(* The validator either rejects such an instruction or takes its operands  *)
(* and leaves its results.                                                 *)
LEMMA PlainForm ==
    ASSUME NEW v, Above(v), v.cs # <<>>, NEW mod, DecodedModule(mod), NEW f, NEW i, Decoded(i), i.op \in PlainOps
    PROVE  LET w == Validate(v, mod, f, i)
               in == Operands(mod, i)
               out == Results(mod, i)
           IN  \/ w = fail(v)
               \/ /\ w \in {takes(v, in, out), takes(fail(v), in, out)}
                  /\ i.op \in GlobalOps => i.x <= Len(mod.globals)
                  /\ i.op \in TableOps => i.x <= Len(mod.tables)
  <1> DEFINE w == Validate(v, mod, f, i)
             in == Operands(mod, i)
             out == Results(mod, i)
             Goal == \/ w = fail(v)
                     \/ /\ w \in {takes(v, in, out), takes(fail(v), in, out)}
                        /\ i.op \in GlobalOps => i.x <= Len(mod.globals)
                        /\ i.op \in TableOps => i.x <= Len(mod.tables)
  <1>1. /\ takes(v, <<>>, <<>>) = v
        /\ \A t \in StackTypes : takes(v, <<>>, <<t>>) = push(v, t)
        /\ \A e : takes(v, <<e>>, <<>>) = popAndVerifyType(v, e)
    BY TakesFew
  <1>2. ASSUME NEW n PROVE validateMemArg(v, mod, i, n) \in {v, fail(v)}
    BY DEF validateMemArg
  <1>3. CASE i.op \in {"nop", "const"}
    <2>1. i.op = "const" => i.t \in StackTypes
      BY DEF Decoded, Typed, StackTypes
    <2>2. w = takes(v, in, out)
      BY <1>1, <1>3, <2>1, Zenon DEF Validate, Operands, Results
    <2> QED
      BY <1>3, <2>2 DEF GlobalOps, TableOps
  <1>4. CASE i.op \in NumericOps
    <2>1. w = validateNumeric(v, i)
      BY <1>4, Zenon DEF Validate, NumericOps
    <2>2. validateNumeric(v, i) = takes(v, in, out)
      BY <1>4 DEF validateNumeric, Operands, Results, NumericOps
    <2> QED
      BY <1>4, <2>1, <2>2 DEF NumericOps, GlobalOps, TableOps
  <1>5. CASE i.op \in {"load", "store"}
    <2> DEFINE x == validateMemArg(v, mod, i, i.w)
    <2>1. w = validateLoadStore(v, mod, i)
      BY <1>5 DEF Validate
    <2>2. validateLoadStore(v, mod, i) = takes(x, in, out)
      BY <1>5 DEF validateLoadStore, Operands, Results
    <2>3. x \in {v, fail(v)}
      BY <1>2
    <2> HIDE DEF x
    <2> QED
      BY <1>5, <2>1, <2>2, <2>3 DEF GlobalOps, TableOps
  <1>6. CASE i.op \in {"memory.size", "memory.grow"}
    <2>1. w = validateMemorySizeGrow(v, mod, i)
      BY <1>6 DEF Validate
    <2>2. validateMemorySizeGrow(v, mod, i) \in {fail(v), takes(v, in, out)}
      BY <1>6 DEF validateMemorySizeGrow, Operands, Results
    <2> QED
      BY <1>6, <2>1, <2>2 DEF GlobalOps, TableOps
  <1>7. CASE i.op \in GlobalOps
    <2>0. Len(mod.globals) \in Nat /\ i.x \in Nat \ {0}
      BY <1>7 DEF DecodedModule, Decoded
    <2>1. w = validateGlobal(v, mod, i)
      BY <1>7 DEF Validate, GlobalOps
    <2>2. CASE i.x > Len(mod.globals)
      BY <1>7, <2>0, <2>1, <2>2 DEF validateGlobal, GlobalOps
    <2>3. CASE i.x <= Len(mod.globals)
      <3>1. mod.globals[i.x].t \in StackTypes
        BY <2>0, <2>3 DEF DecodedModule, StackTypes
      <3>2. ~ (i.x > Len(mod.globals))
        BY <2>0, <2>3
      <3>3. CASE i.op = "global.get"
        <4>1. w = push(v, mod.globals[i.x].t)
          BY <2>1, <2>3, <3>2, <3>3 DEF validateGlobal
        <4>2. w = takes(v, in, out)
          BY <1>1, <3>1, <3>3, <4>1 DEF Operands, Results
        <4> QED
          BY <2>3, <3>3, <4>2 DEF TableOps
      <3>4. CASE i.op = "global.set"
        <4>1. w \in {fail(v), popAndVerifyType(v, mod.globals[i.x].t)}
          BY <2>1, <2>3, <3>2, <3>4 DEF validateGlobal
        <4>2. takes(v, in, out) = popAndVerifyType(v, mod.globals[i.x].t)
          BY <1>1, <3>4 DEF Operands, Results
        <4> QED
          BY <2>3, <3>4, <4>1, <4>2 DEF TableOps
      <3> QED
        BY <1>7, <3>3, <3>4 DEF GlobalOps
    <2> QED
      BY <2>0, <2>2, <2>3
  <1>8. CASE i.op \in {"table.get", "table.set"}
    <2>0. Len(mod.tables) \in Nat /\ i.x \in Nat \ {0}
      BY <1>8 DEF DecodedModule, Decoded, TableOps
    <2>1. w = validateTableAccess(v, mod, i)
      BY <1>8 DEF Validate
    <2>2. i.x <= Len(mod.tables) => validateTableAccess(v, mod, i) = takes(v, in, out)
      BY <1>8, <2>0 DEF validateTableAccess, Operands, Results
    <2>3. ~ (i.x <= Len(mod.tables)) => validateTableAccess(v, mod, i) = fail(v)
      BY <2>0 DEF validateTableAccess
    <2> QED
      BY <1>8, <2>1, <2>2, <2>3 DEF GlobalOps
  <1>9. CASE i.op \in {"table.size", "table.grow", "table.fill"}
    <2>0. Len(mod.tables) \in Nat /\ i.x \in Nat \ {0} /\ "i32" \in StackTypes
      BY <1>9 DEF DecodedModule, Decoded, TableOps, StackTypes, ValueTypes
    <2>1. w = validateTableGrowFill(v, mod, i)
      BY <1>9 DEF Validate
    <2>2. CASE i.x <= Len(mod.tables)
      <3>1. ~ (i.x > Len(mod.tables))
        BY <2>0, <2>2
      <3>2. validateTableGrowFill(v, mod, i) = takes(v, in, out)
        BY <1>1, <1>9, <2>0, <2>2, <3>1 DEF validateTableGrowFill, Operands, Results
      <3> QED
        BY <1>9, <2>1, <2>2, <3>2 DEF GlobalOps
    <2>3. CASE i.x > Len(mod.tables)
      <3>1. ~ (i.x <= Len(mod.tables))
        BY <2>0, <2>3
      <3> QED
        BY <2>1, <2>3, <3>1 DEF validateTableGrowFill
    <2> QED
      BY <2>0, <2>2, <2>3
  <1>10. CASE i.op \in {"memory.init", "memory.copy", "memory.fill", "data.drop"}
    <2>1. w = validateMemoryBulk(v, mod, i)
      BY <1>10 DEF Validate
    <2>2. validateMemoryBulk(v, mod, i) \in {fail(v), takes(v, in, out)}
      BY <1>10 DEF validateMemoryBulk, Operands, Results
    <2> QED
      BY <1>10, <2>1, <2>2 DEF GlobalOps, TableOps
  <1>11. CASE i.op \in {"table.init", "table.copy", "elem.drop"}
    <2>1. w = validateTableBulk(v, mod, i)
      BY <1>11 DEF Validate
    <2>2. validateTableBulk(v, mod, i) \in {fail(v), takes(v, in, out)}
      BY <1>1, <1>11 DEF validateTableBulk, Operands, Results
    <2> QED
      BY <1>11, <2>1, <2>2 DEF GlobalOps, TableOps
  <1>12. CASE i.op \in AtomicOps
    <2> DEFINE x == validateMemArg(v, mod, i, i.w)
    <2>1. w = validateAtomic(v, mod, i)
      BY <1>12 DEF Validate, AtomicOps
    <2>2. validateAtomic(v, mod, i) \in {takes(v, in, out), takes(x, in, out)}
      BY <1>1, <1>12, Zenon DEF validateAtomic, Operands, Results, AtomicOps
    <2>3. x \in {v, fail(v)}
      BY <1>2
    <2> HIDE DEF x
    <2> QED
      BY <1>12, <2>1, <2>2, <2>3 DEF GlobalOps, TableOps, AtomicOps
  <1>13. CASE i.op \in AtomicRMWOps
    <2> DEFINE x == validateMemArg(v, mod, i, i.w)
    <2>1. w = validateAtomicRMW(v, mod, i)
      BY <1>13 DEF Validate, AtomicRMWOps
    <2>2. validateAtomicRMW(v, mod, i) = takes(x, in, out)
      BY <1>13 DEF validateAtomicRMW, Operands, Results, AtomicRMWOps
    <2>3. x \in {v, fail(v)}
      BY <1>2
    <2> HIDE DEF x
    <2> QED
      BY <1>13, <2>1, <2>2, <2>3 DEF GlobalOps, TableOps, AtomicRMWOps
  <1>14. CASE i.op \in VectorMemoryOps
    <2> DEFINE most == CASE i.op = "v.store" \/ (i.op = "v.load" /\ i.kind = "full") -> 16
                         [] i.op = "v.load" /\ i.kind = "extend" -> 8
                         [] OTHER -> i.w
               x == validateMemArg(v, mod, i, most)
    <2>1. w = validateVectorMemory(v, mod, i)
      BY <1>14 DEF Validate, VectorMemoryOps
    <2>2. validateVectorMemory(v, mod, i) \in {fail(v), takes(x, in, out)}
      BY <1>14 DEF validateVectorMemory, Operands, Results, VectorMemoryOps
    <2> HIDE DEF most
    <2>3. x \in {v, fail(v)}
      BY <1>2
    <2> HIDE DEF x
    <2> QED
      BY <1>14, <2>1, <2>2, <2>3 DEF GlobalOps, TableOps, VectorMemoryOps
  <1>15. CASE i.op \in VectorLaneOps
    <2>1. w = validateVectorLane(v, i)
      BY <1>15 DEF Validate, VectorLaneOps
    <2>2. validateVectorLane(v, i) \in {fail(v), takes(v, in, out)}
      BY <1>15 DEF validateVectorLane, Operands, Results, VectorLaneOps
    <2> QED
      BY <1>15, <2>1, <2>2 DEF GlobalOps, TableOps, VectorLaneOps
  <1>16. CASE i.op \in VectorLogicOps \cup VectorArithmeticOps
    <2>1. w = validateVectorOperands(v, i)
      BY <1>16, Zenon DEF Validate, VectorLogicOps, VectorArithmeticOps
    <2>2. validateVectorOperands(v, i) \in {fail(v), takes(v, in, out)}
      BY <1>16 DEF validateVectorOperands, Operands, Results, VectorLogicOps, VectorArithmeticOps
    <2> QED
      BY <1>16, <2>1, <2>2 DEF GlobalOps, TableOps, VectorLogicOps, VectorArithmeticOps
  <1>17. \/ i.op \in {"nop", "const"} \/ i.op \in NumericOps \/ i.op \in {"load", "store"}
         \/ i.op \in {"memory.size", "memory.grow"} \/ i.op \in GlobalOps
         \/ i.op \in {"table.get", "table.set"} \/ i.op \in {"table.size", "table.grow", "table.fill"}
         \/ i.op \in {"memory.init", "memory.copy", "memory.fill", "data.drop"}
         \/ i.op \in {"table.init", "table.copy", "elem.drop"} \/ i.op \in AtomicOps
         \/ i.op \in AtomicRMWOps \/ i.op \in VectorMemoryOps \/ i.op \in VectorLaneOps
         \/ i.op \in VectorLogicOps \cup VectorArithmeticOps
    BY DEF PlainOps, MemoryOps, TableOps, BulkOps, VectorOps
  <1>18. Goal
    BY <1>3, <1>4, <1>5, <1>6, <1>7, <1>8, <1>9, <1>10, <1>11, <1>12, <1>13, <1>14, <1>15, <1>16, <1>17
  <1> QED
    BY <1>18

(* Whatever instruction is not about a block keeps the block and what is   *)
(* below its limit.                                                        *)
LEMMA KeepsPlain ==
    ASSUME NEW v, Above(v), v.cs # <<>>, NEW mod, DecodedModule(mod), NEW f, NEW i, Decoded(i), i.op \in PlainOps
    PROVE  /\ Keeps(v, Validate(v, mod, f, i))
           /\ Validate(v, mod, f, i).status = "ok" =>
                /\ Validate(v, mod, f, i) = takes(v, Operands(mod, i), Results(mod, i))
                /\ Operands(mod, i) \in Seq(ValueTypes)
                /\ Results(mod, i) \in Seq(ValueTypes)
                /\ i.op \in GlobalOps => i.x <= Len(mod.globals)
                /\ i.op \in TableOps => i.x <= Len(mod.tables)
  <1> DEFINE w == Validate(v, mod, f, i)
             in == Operands(mod, i)
             out == Results(mod, i)
  <1>1. \/ w = fail(v)
        \/ /\ w \in {takes(v, in, out), takes(fail(v), in, out)}
           /\ i.op \in GlobalOps => i.x <= Len(mod.globals)
           /\ i.op \in TableOps => i.x <= Len(mod.tables)
    BY PlainForm
  <1> HIDE DEF w
  <1>2. Keeps(v, fail(v)) /\ Above(fail(v)) /\ fail(v).status # "ok"
    BY KeepsFail, KeepsAbove
  <1>3. CASE w = fail(v)
    BY <1>2, <1>3 DEF w
  <1>4. CASE w # fail(v)
    <2>1. in \in Seq(ValueTypes) /\ out \in Seq(ValueTypes)
      BY <1>1, <1>4, PlainTypes
    <2>2. out \in Seq(StackTypes)
      BY <2>1, ValueSeqs
    <2> HIDE DEF in, out
    <2>3. Keeps(v, takes(v, in, out)) /\ Keeps(fail(v), takes(fail(v), in, out))
      BY <1>2, <2>1, <2>2, KeepsTakes
    <2>4. Keeps(v, takes(fail(v), in, out)) /\ takes(fail(v), in, out).status # "ok"
      <3>1. Keeps(v, takes(fail(v), in, out))
        BY <1>2, <2>3, KeepsTrans
      <3>2. takes(fail(v), in, out).status # "ok"
        BY <1>2, <2>3 DEF Keeps
      <3> QED
        BY <3>1, <3>2
    <2>5. Keeps(v, w) /\ (w.status = "ok" => w = takes(v, in, out))
      BY <1>1, <1>4, <2>3, <2>4
    <2> QED
      BY <1>1, <1>4, <2>1, <2>5 DEF w, in, out
  <1> QED
    BY <1>3, <1>4

(* Every operator but those that open or close a block keeps the blocks. *)
LEMMA KeepsValidate ==
    ASSUME NEW v, Above(v), v.cs # <<>>, NEW mod, DecodedModule(mod), NEW f, DecodedFunction(f),
           NEW i, Decoded(i), i.op \notin BlockOps
    PROVE  Keeps(v, Validate(v, mod, f, i))
  <1> DEFINE w == Validate(v, mod, f, i)
  <1>1. CASE i.op \in PlainOps
    BY <1>1, KeepsPlain
  <1>2. CASE i.op \in {"unreachable", "drop"}
    <2>1. w \in {unreachable(v), tryPop(v)}
      BY <1>2, Zenon DEF Validate
    <2> QED
      BY <2>1, KeepsUnreachable, KeepsTryPop
  <1>3. CASE i.op \in {"select", "typed_select"}
    <2>1. w = validateSelect(v, i)
      BY <1>3, Zenon DEF Validate
    <2> QED
      BY <2>1, KeepsSelect
  <1>4. CASE i.op \in LocalOps
    <2>1. w = validateLocal(v, f, i)
      BY <1>4, Zenon DEF Validate, LocalOps
    <2> QED
      BY <1>4, <2>1, KeepsLocal
  <1>5. CASE i.op \in {"br", "br_if", "br_table", "return", "throw", "throw_ref"}
    <2>1. /\ i.op = "br" => w = validateBr(v, i)
          /\ i.op = "br_if" => w = validateBrIf(v, i)
          /\ i.op = "br_table" => w = validateBrTable(v, i)
          /\ i.op = "return" => w = unreachable(requireStackValues(v, f.results, FALSE))
          /\ i.op = "throw" => w = unreachable(popAll(v, i.tag.params))
          /\ i.op = "throw_ref" => w = unreachable(popAndVerifyType(v, "exnref"))
      BY Zenon DEF Validate
    <2> HIDE DEF w
    <2>2. Keeps(v, w)
      BY <1>5, <2>1, KeepsBranch, Zenon
    <2> QED
      BY <2>2 DEF w
  <1>6. CASE i.op \in CallOps \cup TailCallOps
    <2>1. w = validateCall(v, f, i)
      BY <1>6, Zenon DEF Validate, CallOps, TailCallOps
    <2> QED
      BY <1>6, <2>1, KeepsCall
  <1>7. CASE i.op \in {"br_on_null", "br_on_non_null"} \cup RefOps
    <2>1. /\ i.op = "br_on_null" => w = validateBrOnNull(v, i)
          /\ i.op = "br_on_non_null" => w = validateBrOnNonNull(v, i)
          /\ i.op \in RefOps => w = validateRef(v, i)
      BY Zenon DEF Validate, RefOps
    <2> HIDE DEF w
    <2>2. Keeps(v, w)
      BY <1>7, <2>1, KeepsRef
    <2> QED
      BY <2>2 DEF w
  <1>8. \/ i.op \in PlainOps \/ i.op \in {"unreachable", "drop"} \/ i.op \in {"select", "typed_select"}
        \/ i.op \in LocalOps \/ i.op \in {"br", "br_if", "br_table", "return", "throw", "throw_ref"}
        \/ i.op \in CallOps \cup TailCallOps \/ i.op \in {"br_on_null", "br_on_non_null"} \cup RefOps
    BY DEF Decoded, Opcodes, PlainOps, BrIfOps
  <1> QED
    BY <1>1, <1>2, <1>3, <1>4, <1>5, <1>6, <1>7, <1>8

-----------------------------------------------------------------------------
(* In code that can be reached every type on the stack is known.           *)
Known(v) == \A k \in 1 .. Len(v.stack) : v.stack[k] \in ValueTypes

U(t) == wasmValueTypeTounsignedType(t)

(* From v the validator went to w by popping operands of types in and      *)
(* pushing results of types out.                                           *)
Took(v, w, in, out) ==
    /\ w \in ValidatorStates /\ w.cs = v.cs /\ w.limits = v.limits
    /\ Limit(v) + Len(in) <= Len(v.stack)
    /\ Len(w.stack) = Len(v.stack) - Len(in) + Len(out)
    /\ \A k \in 1 .. Len(v.stack) - Len(in) : w.stack[k] = v.stack[k]
    /\ \A k \in 1 .. Len(out) : w.stack[Len(v.stack) - Len(in) + k] = out[k]
    /\ \A k \in 1 .. Len(in) : U(in[k]) = U(v.stack[Len(v.stack) - Len(in) + k])

(* A reference and its supertype take the same unsigned type on the compiler's stack. *)
LEMMA SubtypesAreStoredAlike ==
    ASSUME NEW a, NEW b, isRefSubtypeOf(a, b)
    PROVE  U(a) = U(b)
  BY DEF isRefSubtypeOf, U, wasmValueTypeTounsignedType, isReferenceValueType, AsNonNullable, NonNullable, Nullable

(* With no unknown type on it, the top of the stack is the type the operator pops. *)
LEMMA TopKnown ==
    ASSUME NEW v, Above(v), Known(v), ~ Empty(v)
    PROVE  /\ TopType(v) = v.stack[Len(v.stack)] /\ TopType(v) \in ValueTypes
           /\ TopType(v) # "unknown" /\ ~ AtUnknown(v)
           /\ Len(v.stack) \in Nat \ {0} /\ Limit(v) + 1 <= Len(v.stack) /\ Limit(v) \in Nat
  <1>0. v.stack \in Seq(StackTypes) /\ Len(v.stack) \in Nat /\ Limit(v) \in Nat
    BY LimitType DEF ValidatorStates, Above
  <1>1. Len(v.stack) \in 1 .. Len(v.stack) /\ Limit(v) + 1 <= Len(v.stack) /\ Len(v.stack) # 0
    BY <1>0 DEF Empty
  <1>2. v.stack[Len(v.stack)] \in ValueTypes
    BY <1>1 DEF Known
  <1>3. TopType(v) = v.stack[Len(v.stack)]
    BY DEF TopType, Last
  <1>4. "unknown" \notin ValueTypes
    BY DEF ValueTypes, NonNullable, Nullable
  <1> QED
    BY <1>0, <1>1, <1>2, <1>3, <1>4 DEF AtUnknown, TopType

(* tryPop of a known type. *)
LEMMA TookTryPop ==
    ASSUME NEW v, Above(v), Known(v), tryPop(v).status = "ok"
    PROVE  /\ ~ Empty(v)
           /\ \A t : U(t) = U(TopType(v)) => Took(v, tryPop(v), <<t>>, <<>>)
           /\ Known(tryPop(v)) /\ Above(tryPop(v)) /\ v.status = "ok"
  <1> DEFINE w == tryPop(v)
             n == Len(v.stack) - 1
  <1>1. ~ Empty(v)
    BY KeepsFail DEF tryPop
  <1>2. /\ TopType(v) = v.stack[Len(v.stack)] /\ ~ AtUnknown(v) /\ Limit(v) \in Nat
        /\ Len(v.stack) \in Nat \ {0} /\ Limit(v) + 1 <= Len(v.stack)
    BY <1>1, TopKnown
  <1>3. w = Cut(v, n)
    <2>1. v.stack \in Seq(StackTypes) /\ v.stack # <<>>
      BY <1>2 DEF Above, ValidatorStates
    <2>2. Front(v.stack) = SubSeq(v.stack, 1, n)
      BY <2>1, FrontIsPrefix
    <2> QED
      BY <1>1, <1>2, <2>2 DEF tryPop, Cut
  <1>4. n \in Nat /\ Limit(v) <= n /\ n <= Len(v.stack)
    BY <1>2
  <1>5. /\ Keeps(v, w) /\ Len(w.stack) = n
        /\ \A k \in 1 .. n : w.stack[k] = v.stack[k]
    BY <1>3, <1>4, KeepsCut
  <1> HIDE DEF w
  <1>6. Known(w)
    <2> SUFFICES ASSUME NEW k \in 1 .. Len(w.stack) PROVE w.stack[k] \in ValueTypes
      BY DEF Known
    <2>1. k \in 1 .. n /\ k \in 1 .. Len(v.stack)
      BY <1>2, <1>5
    <2> QED
      BY <1>5, <2>1 DEF Known
  <1>7. ASSUME NEW t, U(t) = U(TopType(v)) PROVE Took(v, w, <<t>>, <<>>)
    <2>1. Len(<<t>>) = 1 /\ <<t>>[1] = t /\ Len(<<>>) = 0
      OBVIOUS
    <2>2. Limit(v) + Len(<<t>>) <= Len(v.stack) /\ Len(w.stack) = Len(v.stack) - Len(<<t>>) + Len(<<>>)
      BY <1>2, <1>5, <2>1
    <2>3. \A k \in 1 .. Len(v.stack) - Len(<<t>>) : w.stack[k] = v.stack[k]
      BY <1>5, <2>1
    <2>4. \A k \in 1 .. Len(<<>>) : w.stack[Len(v.stack) - Len(<<t>>) + k] = <<>>[k]
      BY <2>1
    <2>5. ASSUME NEW k \in 1 .. Len(<<t>>) PROVE U(<<t>>[k]) = U(v.stack[Len(v.stack) - Len(<<t>>) + k])
      <3>1. k = 1 /\ Len(v.stack) - Len(<<t>>) + k = Len(v.stack)
        BY <1>2, <2>1
      <3> QED
        BY <1>2, <1>7, <2>1, <3>1
    <2> QED
      BY <1>5, <2>2, <2>3, <2>4, <2>5 DEF Took, Keeps
  <1>8. Above(w) /\ v.status = "ok"
    BY <1>5, KeepsAbove, Zenon DEF Keeps, w
  <1> QED
    BY <1>1, <1>6, <1>7, <1>8 DEF w

(* An accepted pop of one type took exactly that type, up to how it is stored. *)
LEMMA TookPopVerify ==
    ASSUME NEW v, Above(v), Known(v), NEW t \in ValueTypes, popAndVerifyType(v, t).status = "ok"
    PROVE  LET w == popAndVerifyType(v, t)
           IN  Took(v, w, <<t>>, <<>>) /\ Known(w) /\ Above(w) /\ v.status = "ok"
  <1>1. ~ Empty(v) /\ fail(v).status # "ok"
    BY KeepsFail DEF popAndVerifyType
  <1>2. TopType(v) # "unknown" /\ t # "unknown"
    BY <1>1, TopKnown DEF ValueTypes, NonNullable, Nullable
  <1>3. isRefSubtypeOf(TopType(v), t) /\ popAndVerifyType(v, t) = tryPop(v)
    BY <1>1, <1>2 DEF popAndVerifyType
  <1>4. U(t) = U(TopType(v))
    BY <1>3, SubtypesAreStoredAlike
  <1> QED
    BY <1>3, <1>4, TookTryPop

(* An accepted pop of several types took exactly those, up to how they are stored. *)
LEMMA TookPopAll ==
    ASSUME NEW v, Above(v), Known(v), NEW want \in Seq(ValueTypes), popAll(v, want).status = "ok"
    PROVE  LET w == popAll(v, want)
           IN  Took(v, w, want, <<>>) /\ Known(w) /\ Above(w) /\ v.status = "ok"
  <1> DEFINE n == Len(want)
             L == Len(v.stack)
  <1>0. n \in Nat /\ L \in Nat /\ Limit(v) \in Nat /\ Limit(v) <= L
    BY LimitType DEF Above
  <1>1. PICK g : /\ g[n + 1] = v
                 /\ \A a \in 1 .. n : g[a] = popAndVerifyType(g[a + 1], want[a])
                 /\ popAll(v, want) = g[1]
    BY PopSteps
  <1>2. \A k \in 1 .. n : want[k] \in ValueTypes
    BY ElementOfSeq
  <1> HIDE DEF n, L
  <1> DEFINE Pulled(x, m) == /\ Known(x)
                             /\ Len(x.stack) = L - m
                             /\ Limit(v) + m <= L
                             /\ \A k \in 1 .. L - m : x.stack[k] = v.stack[k]
                             /\ \A k \in n + 1 - m .. n : U(want[k]) = U(v.stack[L - n + k])
             Good(m) == /\ Keeps(v, g[n + 1 - m])
                        /\ g[n + 1 - m].status = "ok" => Pulled(g[n + 1 - m], m)
             Bad == {m \in 0 .. n : ~ Good(m)}
  <1>3. Bad = {}
    <2> SUFFICES ASSUME Bad # {} PROVE FALSE
      OBVIOUS
    <2>1. Bad \in SUBSET Nat
      BY <1>0
    <2>2. PICK m \in Bad : \A y \in Bad : m <= y
      <3> HIDE DEF Bad
      <3> QED
        BY <2>1, LeastNatural
    <2>3. m # 0
      <3>1. n + 1 - 0 = n + 1 /\ L - 0 = L /\ Limit(v) + 0 = Limit(v) /\ (n + 1) .. n = {}
        BY <1>0
      <3>2. Pulled(v, 0)
        BY <1>0, <3>1, Zenon DEF L
      <3>3. Good(0)
        BY <1>1, <3>1, <3>2, KeepsSelf
      <3> QED
        BY <2>2, <3>3
    <2> DEFINE a == n + 1 - m
               x == g[a + 1]
               y == g[a]
    <2>m. m \in 0 .. n /\ ~ Good(m)
      <3> HIDE DEF Good
      <3> QED
        BY <2>2
    <2>n. \A z \in 0 .. n : z < m => Good(z)
      <3> HIDE DEF Good
      <3> QED
        BY <1>0, <2>2
    <2> HIDE DEF Good, Bad
    <2>4. m - 1 \in 0 .. n /\ m - 1 < m /\ a \in 1 .. n /\ n + 1 - (m - 1) = a + 1 /\ m \in 1 .. n
      BY <1>0, <2>3, <2>m
    <2>5. Good(m - 1)
      BY <2>4, <2>n
    <2>6. y = popAndVerifyType(x, want[a])
      BY <1>1, <2>4
    <2>7. Keeps(v, x) /\ (x.status = "ok" => Pulled(x, m - 1))
      BY <2>4, <2>5 DEF Good
    <2> HIDE DEF x, y, a, Pulled
    <2>8. Keeps(v, y) /\ Keeps(x, y)
      BY <2>6, <2>7, KeepsAbove, KeepsPopVerify, KeepsTrans
    <2>9. ASSUME y.status = "ok" PROVE Pulled(y, m)
      <3>1. x.status = "ok" /\ Above(x) /\ Limit(x) = Limit(v)
        BY <2>7, <2>8, <2>9, KeepsAbove DEF Keeps
      <3>2. Pulled(x, m - 1)
        BY <2>7, <3>1
      <3>3. Took(x, y, <<want[a]>>, <<>>) /\ Known(y)
        <4>1. want[a] \in ValueTypes /\ Known(x)
          BY <1>2, <2>4, <3>2 DEF Pulled
        <4> QED
          BY <2>6, <2>9, <3>1, <4>1, TookPopVerify
      <3> DEFINE t == want[a]
      <3>4. Len(<<t>>) = 1 /\ <<t>>[1] = t /\ Len(<<>>) = 0
        OBVIOUS
      <3>5. Len(x.stack) = L - (m - 1) /\ Limit(v) + 1 <= Len(x.stack) /\ Len(y.stack) = Len(x.stack) - 1
        BY <3>1, <3>2, <3>3, <3>4, <1>0, <2>4 DEF Pulled, Took
      <3>6. \A k \in 1 .. Len(x.stack) - 1 : y.stack[k] = x.stack[k]
        BY <3>3, <3>4 DEF Took
      <3>7. U(t) = U(x.stack[Len(x.stack)])
        <4>1. 1 \in 1 .. Len(<<t>>) /\ Len(x.stack) - Len(<<t>>) + 1 = Len(x.stack)
          BY <1>0, <2>4, <3>4, <3>5
        <4> QED
          BY <3>3, <3>4, <4>1 DEF Took
      <3>8. Len(y.stack) = L - m /\ Limit(v) + m <= L
        BY <1>0, <2>4, <3>5
      <3>9. ASSUME NEW k \in 1 .. L - m PROVE y.stack[k] = v.stack[k]
        <4>1. Len(x.stack) - 1 = L - m /\ k \in Nat /\ 1 <= k /\ k <= L - m /\ L - m <= L - (m - 1)
          BY <1>0, <2>4, <3>5
        <4>2. k \in 1 .. Len(x.stack) - 1 /\ k \in 1 .. L - (m - 1)
          BY <1>0, <2>4, <4>1
        <4> QED
          BY <3>2, <3>6, <4>2 DEF Pulled
      <3>10. ASSUME NEW k \in n + 1 - m .. n PROVE U(want[k]) = U(v.stack[L - n + k])
        <4>1. CASE k = a
          <5>1. Len(x.stack) \in 1 .. L - (m - 1) /\ L - n + a = Len(x.stack)
            BY <1>0, <2>4, <3>5 DEF a
          <5>2. x.stack[Len(x.stack)] = v.stack[L - n + a]
            BY <3>2, <5>1 DEF Pulled
          <5> QED
            BY <3>7, <4>1, <5>2
        <4>2. CASE k # a
          <5>1. k \in n + 1 - (m - 1) .. n
            BY <1>0, <2>4, <4>2 DEF a
          <5> QED
            BY <3>2, <5>1 DEF Pulled
        <4> QED
          BY <4>1, <4>2
      <3> QED
        BY <3>3, <3>8, <3>9, <3>10 DEF Pulled
    <2>10. Good(m)
      BY <2>8, <2>9 DEF y, a, Good
    <2> QED
      BY <2>m, <2>10
  <1>4. n \in 0 .. n /\ n + 1 - n = 1
    BY <1>0
  <1> DEFINE w == popAll(v, want)
  <1>5. Keeps(v, w) /\ Pulled(w, n)
    <2>1. Good(n)
      BY <1>3, <1>4
    <2> HIDE DEF Pulled
    <2> QED
      BY <1>1, <1>4, <2>1
  <1>6. Above(w) /\ v.status = "ok" /\ w \in ValidatorStates /\ w.cs = v.cs /\ w.limits = v.limits
    BY <1>5, KeepsAbove DEF Keeps
  <1> HIDE DEF w
  <1>7. Took(v, w, want, <<>>)
    <2>1. Len(<<>>) = 0 /\ L - n + 0 = L - n
      BY <1>0
    <2>2. \A k \in 1 .. n : U(want[k]) = U(v.stack[L - n + k])
      BY <1>4, <1>5
    <2>3. Limit(v) + n <= L /\ Len(w.stack) = L - n + 0
      BY <1>5, <2>1
    <2> QED
      BY <1>5, <1>6, <2>1, <2>2, <2>3 DEF Took, n, L
  <1> QED
    BY <1>5, <1>6, <1>7 DEF w

(* Then pushing. *)
LEMMA TookPushAll ==
    ASSUME NEW v, Above(v), NEW w, NEW S, NEW in \in Seq(S), Took(v, w, in, <<>>), Known(w), Above(w), NEW out \in Seq(ValueTypes)
    PROVE  LET x == pushAll(w, out)
           IN  Took(v, x, in, out) /\ Known(x) /\ Above(x) /\ x.status = w.status
  <1> DEFINE x == pushAll(w, out)
             L == Len(v.stack)
             n == Len(in)
             M == Len(w.stack)
  <1>0. /\ L \in Nat /\ n \in Nat /\ M \in Nat /\ Limit(v) \in Nat /\ Limit(v) + n <= L /\ M = L - n
        /\ Len(out) \in Nat /\ w.stack \in Seq(StackTypes) /\ out \in Seq(StackTypes) /\ w \in ValidatorStates
    <2>1. Len(<<>>) = 0
      OBVIOUS
    <2> QED
      BY <2>1, LimitType, ValueSeqs DEF Above, Took, ValidatorStates
  <1>1. Keeps(w, x) /\ x.status = w.status /\ Above(x)
    BY <1>0, KeepsPushAll, KeepsAbove
  <1>2. x.stack = w.stack \o out
    BY <1>0, Zenon DEF pushAll, ValidatorStates
  <1> HIDE DEF x
  <1>3. /\ Len(x.stack) = M + Len(out)
        /\ \A k \in 1 .. M + Len(out) : x.stack[k] = IF k <= M THEN w.stack[k] ELSE out[k - M]
    <2>1. IsSeq(w.stack) /\ IsSeq(out)
      BY <1>0, SeqIs
    <2> DEFINE s == w.stack
    <2> HIDE DEF s
    <2>2. /\ Len(s \o out) = Len(s) + Len(out)
          /\ \A k \in 1 .. Len(s) : (s \o out)[k] = s[k]
          /\ \A k \in 1 .. Len(out) : (s \o out)[Len(s) + k] = out[k]
      BY <2>1, ConcatIs DEF s
    <2>3. x.stack = s \o out /\ Len(s) = M /\ M \in Nat /\ Len(out) \in Nat
      BY <1>0, <1>2 DEF s
    <2> HIDE DEF M
    <2>4. ASSUME NEW k \in 1 .. M + Len(out) PROVE x.stack[k] = IF k <= M THEN s[k] ELSE out[k - M]
      <3>1. CASE k <= M
        BY <2>2, <2>3, <3>1
      <3>2. CASE ~ (k <= M)
        <4>1. k - M \in 1 .. Len(out) /\ M + (k - M) = k
          BY <2>3, <3>2
        <4> QED
          BY <2>2, <2>3, <3>2, <4>1
      <3> QED
        BY <3>1, <3>2
    <2> QED
      BY <2>2, <2>3, <2>4 DEF s
  <1>4. \A k \in 1 .. Len(out) : out[k] \in ValueTypes
    BY ElementOfSeq
  <1>5. \A k \in 1 .. M : w.stack[k] = v.stack[k] /\ w.stack[k] \in ValueTypes
    BY <1>0 DEF Took, Known
  <1> HIDE DEF L, n, M
  <1>6. ASSUME NEW k \in 1 .. L - n PROVE x.stack[k] = v.stack[k]
    <2>1. k \in 1 .. M + Len(out) /\ k <= M /\ k \in 1 .. M
      BY <1>0
    <2> QED
      BY <1>3, <1>5, <2>1
  <1>7. ASSUME NEW k \in 1 .. Len(out) PROVE x.stack[L - n + k] = out[k]
    <2>1. L - n + k \in 1 .. M + Len(out) /\ ~ (L - n + k <= M) /\ (L - n + k) - M = k
      BY <1>0
    <2> QED
      BY <1>3, <2>1
  <1>8. ASSUME NEW k \in 1 .. Len(x.stack) PROVE x.stack[k] \in ValueTypes
    <2>1. CASE k <= M
      <3>1. k \in 1 .. M
        BY <1>0, <1>3, <2>1
      <3> QED
        BY <1>0, <1>3, <1>5, <2>1, <3>1, Zenon
    <2>2. CASE ~ (k <= M)
      <3>1. k - M \in 1 .. Len(out)
        BY <1>0, <1>3, <2>2
      <3> QED
        BY <1>3, <1>4, <2>2, <3>1
    <2> QED
      BY <2>1, <2>2
  <1>9. Took(v, x, in, out)
    <2>1. x \in ValidatorStates /\ x.cs = v.cs /\ x.limits = v.limits
      BY <1>1 DEF Took, Keeps
    <2>2. Limit(v) + n <= L /\ Len(x.stack) = L - n + Len(out)
      BY <1>0, <1>3
    <2>3. \A k \in 1 .. n : U(in[k]) = U(v.stack[L - n + k])
      BY DEF Took, L, n
    <2> QED
      BY <1>6, <1>7, <2>1, <2>2, <2>3 DEF Took, L, n
  <1> QED
    BY <1>1, <1>8, <1>9 DEF Known, x

(* An accepted operator replaced its operands by its results. *)
LEMMA TookTakes ==
    ASSUME NEW v, Above(v), Known(v), NEW in \in Seq(ValueTypes), NEW out \in Seq(ValueTypes), takes(v, in, out).status = "ok"
    PROVE  LET w == takes(v, in, out)
           IN  Took(v, w, in, out) /\ Known(w) /\ Above(w) /\ v.status = "ok"
  <1> DEFINE w == popAll(v, in)
  <1>1. Above(w) /\ Keeps(v, w)
    BY KeepsPopAll, KeepsAbove
  <1>2. takes(v, in, out) = pushAll(w, out)
    BY DEF takes
  <1>3. out \in Seq(StackTypes)
    BY ValueSeqs
  <1>4. w.status = "ok"
    <2> HIDE DEF w
    <2>1. pushAll(w, out).status = w.status
      BY <1>1, <1>3, KeepsPushAll
    <2> QED
      BY <1>2, <2>1
  <1>5. Took(v, w, in, <<>>) /\ Known(w) /\ v.status = "ok"
    BY <1>4, TookPopAll
  <1> HIDE DEF w
  <1> QED
    BY <1>1, <1>2, <1>5, TookPushAll

(* Two steps, the first of which pops the last operand. *)
LEMMA TookThen ==
    ASSUME NEW v, Above(v), NEW w, NEW x, NEW t, NEW in \in Seq(ValueTypes), NEW out \in Seq(ValueTypes),
           Took(v, w, <<t>>, <<>>), Took(w, x, in, out)
    PROVE  Took(v, x, Append(in, t), out)
  <1> DEFINE ts == Append(in, t)
             n == Len(in)
             L == Len(v.stack)
             M == Len(w.stack)
  <1>1. Len(<<t>>) = 1 /\ <<t>>[1] = t /\ Len(<<>>) = 0 /\ n \in Nat /\ Len(out) \in Nat
    OBVIOUS
  <1>2. /\ Len(ts) = n + 1 /\ ts[n + 1] = t
        /\ \A k \in 1 .. n : ts[k] = in[k]
    <2>1. in \in Seq(ValueTypes \cup {t}) /\ t \in ValueTypes \cup {t}
      BY SeqMonotonic
    <2> QED
      BY <2>1, AppendProperties
  <1>3. /\ L \in Nat /\ M \in Nat /\ Limit(v) \in Nat /\ Limit(w) = Limit(v) /\ M = L - 1
        /\ Limit(v) + n <= M
    <2>1. Limit(w) = Limit(v)
      BY DEF Took, Limit
    <2> QED
      BY <1>1, <2>1, LimitType DEF Took, Above
  <1>4. /\ \A k \in 1 .. L - 1 : w.stack[k] = v.stack[k]
        /\ U(t) = U(v.stack[L])
    <2>1. 1 \in 1 .. Len(<<t>>) /\ L - Len(<<t>>) + 1 = L
      BY <1>1, <1>3
    <2> QED
      BY <1>1, <2>1 DEF Took
  <1>5. /\ x \in ValidatorStates /\ x.cs = v.cs /\ x.limits = v.limits
        /\ Len(x.stack) = M - n + Len(out)
        /\ \A k \in 1 .. M - n : x.stack[k] = w.stack[k]
        /\ \A k \in 1 .. Len(out) : x.stack[M - n + k] = out[k]
        /\ \A k \in 1 .. n : U(in[k]) = U(w.stack[M - n + k])
    BY DEF Took
  <1> HIDE DEF ts, n, L, M
  <1>6. ASSUME NEW k \in 1 .. L - (n + 1) PROVE x.stack[k] = v.stack[k]
    <2>1. k \in 1 .. M - n /\ k \in 1 .. L - 1
      BY <1>1, <1>3
    <2> QED
      BY <1>4, <1>5, <2>1
  <1>7. ASSUME NEW k \in 1 .. Len(out) PROVE x.stack[L - (n + 1) + k] = out[k]
    <2>1. L - (n + 1) + k = M - n + k
      BY <1>1, <1>3
    <2> QED
      BY <1>5, <2>1
  <1>8. ASSUME NEW k \in 1 .. n + 1 PROVE U(ts[k]) = U(v.stack[L - (n + 1) + k])
    <2>1. CASE k = n + 1
      <3>1. L - (n + 1) + k = L
        BY <1>1, <1>3, <2>1
      <3> QED
        BY <1>2, <1>4, <2>1, <3>1
    <2>2. CASE k # n + 1
      <3>1. k \in 1 .. n /\ L - (n + 1) + k = M - n + k /\ M - n + k \in 1 .. L - 1
        BY <1>1, <1>3, <2>2
      <3> QED
        BY <1>2, <1>4, <1>5, <3>1
    <2> QED
      BY <2>1, <2>2
  <1>9. Limit(v) + (n + 1) <= L /\ Len(x.stack) = L - (n + 1) + Len(out)
    BY <1>1, <1>3, <1>5
  <1>10. Took(v, x, ts, out)
    BY <1>2, <1>5, <1>6, <1>7, <1>8, <1>9, Zenon DEF Took, L
  <1> QED
    BY <1>10 DEF ts

-----------------------------------------------------------------------------
(* The state of the compiler. *)
Kinds == {"func", "block", "continued", "loop", "if", "ifelse", "try_table"}
FrameFields == {"id", "kind", "bt", "len", "len64"}
IsFrame(fr) == DOMAIN fr = FrameFields /\ fr.kind \in Kinds /\ fr.bt \in FuncTypes /\ fr.len \in Nat

CompilerFields == {"stack", "frames", "on", "depth", "id", "ops", "table", "err", "mod", "self", "ensureTermination"}
CompilerState(c) ==
    /\ DOMAIN c = CompilerFields
    /\ IsSeq(c.stack) /\ IsSeq(c.frames) /\ IsSeq(c.ops) /\ IsSeq(c.table)
    /\ c.on \in BOOLEAN /\ c.depth \in Nat
    /\ \A k \in 1 .. Len(c.frames) : IsFrame(c.frames[k])

(* All but the operations, and all but these and the stack. *)
SameFrames(c, d) ==
    /\ CompilerState(d)
    /\ d.frames = c.frames /\ d.on = c.on /\ d.depth = c.depth /\ d.id = c.id /\ d.table = c.table
    /\ d.err = c.err /\ d.mod = c.mod /\ d.self = c.self /\ d.ensureTermination = c.ensureTermination
SameStack(c, d) == SameFrames(c, d) /\ d.stack = c.stack

(* emit adds at most one operation and nothing while the code is unreachable. *)
LEMMA EmitFacts ==
    ASSUME NEW c, CompilerState(c), NEW op
    PROVE  /\ SameStack(c, emit(c, op))
           /\ c.on => emit(c, op) = c
           /\ emit(c, op).ops \in {c.ops, Append(c.ops, op)}
           /\ ~ c.on /\ op.k # "drop" => emit(c, op).ops = Append(c.ops, op)
  <1>1. CASE c.on \/ (op.k = "drop" /\ op.range = NopRange)
    BY <1>1 DEF emit, SameStack, SameFrames
  <1>2. CASE ~ (c.on \/ (op.k = "drop" /\ op.range = NopRange))
    <2> DEFINE d == [c EXCEPT !.ops = Append(c.ops, op)]
    <2>1. emit(c, op) = d
      BY <1>2 DEF emit
    <2>2. /\ DOMAIN d = CompilerFields /\ d.ops = Append(c.ops, op)
          /\ d.stack = c.stack /\ d.frames = c.frames /\ d.on = c.on /\ d.depth = c.depth /\ d.id = c.id
          /\ d.table = c.table /\ d.err = c.err /\ d.mod = c.mod /\ d.self = c.self
          /\ d.ensureTermination = c.ensureTermination
      BY DEF CompilerState, CompilerFields
    <2>3. IsSeq(Append(c.ops, op))
      BY AppendIs DEF CompilerState
    <2> HIDE DEF d
    <2>4. CompilerState(d)
      BY <2>2, <2>3 DEF CompilerState
    <2> QED
      BY <1>2, <2>1, <2>2, <2>4 DEF SameStack, SameFrames
  <1> QED
    BY <1>1, <1>2

(* stackPush adds the unsigned types above what is there. *)
LEMMA PushFacts ==
    ASSUME NEW c, CompilerState(c), NEW ts, IsSeq(ts)
    PROVE  LET d == stackPush(c, ts)
           IN  /\ SameFrames(c, d) /\ d.ops = c.ops
               /\ Len(d.stack) = Len(c.stack) + Len(ts)
               /\ \A k \in 1 .. Len(c.stack) : d.stack[k] = c.stack[k]
               /\ \A k \in 1 .. Len(ts) : d.stack[Len(c.stack) + k] = U(ts[k])
  <1> DEFINE us == Unsigned(ts)
             s == c.stack \o us
             d == [c EXCEPT !.stack = s]
  <1>1. Len(ts) \in Nat /\ DOMAIN ts = 1 .. Len(ts)
    BY SeqHas
  <1>2. us \in Seq({us[k] : k \in 1 .. Len(ts)}) /\ Len(us) = Len(ts) /\ \A k \in 1 .. Len(ts) : us[k] = U(ts[k])
    BY <1>1, IsASeq DEF Unsigned, U
  <1>3. IsSeq(us) /\ IsSeq(c.stack)
    BY <1>2 DEF CompilerState, IsSeq
  <1>4. stackPush(c, ts) = d
    BY DEF stackPush
  <1> HIDE DEF us
  <1>5. /\ IsSeq(s) /\ Len(s) = Len(c.stack) + Len(ts)
        /\ \A k \in 1 .. Len(c.stack) : s[k] = c.stack[k]
        /\ \A k \in 1 .. Len(ts) : s[Len(c.stack) + k] = U(ts[k])
    <2> DEFINE r == c.stack
    <2>1. IsSeq(r)
      BY <1>3
    <2> HIDE DEF r
    <2>2. /\ IsSeq(r \o us) /\ Len(r \o us) = Len(r) + Len(us)
          /\ \A k \in 1 .. Len(r) : (r \o us)[k] = r[k]
          /\ \A k \in 1 .. Len(us) : (r \o us)[Len(r) + k] = us[k]
      BY <1>3, <2>1, ConcatIs
    <2>3. \A k \in 1 .. Len(ts) : (r \o us)[Len(r) + k] = U(ts[k])
      BY <1>2, <2>2
    <2> QED
      BY <1>2, <2>2, <2>3, Zenon DEF r
  <1> HIDE DEF s
  <1>6. /\ DOMAIN d = CompilerFields /\ d.stack = s
        /\ d.ops = c.ops /\ d.frames = c.frames /\ d.on = c.on /\ d.depth = c.depth /\ d.id = c.id
        /\ d.table = c.table /\ d.err = c.err /\ d.mod = c.mod /\ d.self = c.self
        /\ d.ensureTermination = c.ensureTermination
    BY DEF CompilerState, CompilerFields
  <1> HIDE DEF d
  <1>7. SameFrames(c, d)
    BY <1>5, <1>6 DEF CompilerState, SameFrames
  <1> QED
    BY <1>4, <1>5, <1>6, <1>7

(* A branch to some of the frames changes no more than their kind. *)
Alike(fs, gs) ==
    /\ Len(gs) = Len(fs)
    /\ \A k \in 1 .. Len(fs) :
         /\ IsFrame(gs[k]) /\ gs[k].id = fs[k].id /\ gs[k].bt = fs[k].bt /\ gs[k].len = fs[k].len
         /\ gs[k].kind = fs[k].kind \/ (fs[k].kind = "block" /\ gs[k].kind = "continued")

(* ensureContinuation changes the continuation marks of the named frames and nothing else. *)
LEMMA ContinuationFacts ==
    ASSUME NEW c, CompilerState(c), NEW ns
    PROVE  LET d == ensureContinuation(c, ns)
           IN  /\ CompilerState(d) /\ Alike(c.frames, d.frames)
               /\ d.stack = c.stack /\ d.ops = c.ops /\ d.on = c.on /\ d.depth = c.depth /\ d.id = c.id /\ d.table = c.table
               /\ d.err = c.err /\ d.mod = c.mod /\ d.self = c.self /\ d.ensureTermination = c.ensureTermination
               /\ \A k \in 1 .. Len(c.frames) : Len(c.frames) - k \in ns => d.frames[k].kind # "block"
  <1> DEFINE fs == c.frames
             G(k) == IF Len(fs) - k \in ns /\ fs[k].kind = "block" THEN [fs[k] EXCEPT !.kind = "continued"] ELSE fs[k]
             gs == [k \in DOMAIN fs |-> G(k)]
             d == [c EXCEPT !.frames = gs]
  <1>1. ensureContinuation(c, ns) = d
    BY DEF ensureContinuation
  <1>2. Len(fs) \in Nat /\ DOMAIN fs = 1 .. Len(fs)
    BY SeqHas DEF CompilerState
  <1> HIDE DEF G
  <1>3. \A k \in 1 .. Len(fs) : gs[k] = G(k)
    BY <1>2
  <1>4. IsSeq(gs) /\ Len(gs) = Len(fs)
    <2>1. gs \in [1 .. Len(fs) -> {G(k) : k \in 1 .. Len(fs)}]
      BY <1>2
    <2> HIDE DEF gs, fs
    <2> QED
      BY <1>2, <2>1, FunIs, Zenon
  <1> HIDE DEF gs
  <1>5. ASSUME NEW k \in 1 .. Len(fs)
        PROVE  /\ IsFrame(gs[k]) /\ gs[k].id = fs[k].id /\ gs[k].bt = fs[k].bt /\ gs[k].len = fs[k].len
               /\ gs[k].kind = fs[k].kind \/ (fs[k].kind = "block" /\ gs[k].kind = "continued")
               /\ Len(fs) - k \in ns => gs[k].kind # "block"
    <2> DEFINE fr == fs[k]
    <2>1. IsFrame(fr)
      BY DEF CompilerState
    <2>2. gs[k] = IF Len(fs) - k \in ns /\ fr.kind = "block" THEN [fr EXCEPT !.kind = "continued"] ELSE fr
      BY <1>3 DEF G
    <2> HIDE DEF fr
    <2>3. CASE Len(fs) - k \in ns /\ fr.kind = "block"
      <3> DEFINE gr == [fr EXCEPT !.kind = "continued"]
      <3>1. DOMAIN gr = FrameFields /\ gr.kind = "continued" /\ gr.id = fr.id /\ gr.bt = fr.bt /\ gr.len = fr.len
        BY <2>1 DEF IsFrame, FrameFields
      <3>2. gs[k] = gr
        BY <2>2, <2>3
      <3> HIDE DEF gr
      <3> QED
        BY <2>1, <2>3, <3>1, <3>2 DEF IsFrame, Kinds, fr
    <2>4. CASE ~ (Len(fs) - k \in ns /\ fr.kind = "block")
      BY <2>1, <2>2, <2>4 DEF fr
    <2> QED
      BY <2>3, <2>4
  <1>6. /\ DOMAIN d = CompilerFields /\ d.frames = gs /\ d.stack = c.stack
        /\ d.ops = c.ops /\ d.on = c.on /\ d.depth = c.depth /\ d.id = c.id
        /\ d.table = c.table /\ d.err = c.err /\ d.mod = c.mod /\ d.self = c.self
        /\ d.ensureTermination = c.ensureTermination
    BY DEF CompilerState, CompilerFields
  <1> HIDE DEF d
  <1>7. CompilerState(d)
    BY <1>4, <1>5, <1>6 DEF CompilerState
  <1>8. Alike(c.frames, d.frames)
    BY <1>4, <1>5, <1>6 DEF Alike
  <1> QED
    BY <1>1, <1>5, <1>6, <1>7, <1>8

-----------------------------------------------------------------------------
(* Labels.  What an operation jumps to. *)
Jumps == {"br", "br_if", "br_on_null", "br_on_non_null", "br_table"}
Targets(op) ==
    CASE op.k = "br" -> {op.target}
      [] op.k \in {"br_if", "br_on_null", "br_on_non_null"} -> {op.target, op.other}
      [] op.k = "br_table" -> {op.targets[n] : n \in DOMAIN op.targets}
      [] OTHER -> {}

(* A label some operation or some exception handler goes to, one that was  *)
(* emitted, and one that the end or the else of an open block will emit.   *)
Handles(e, t) == t = e.end \/ \E n \in DOMAIN e.clauses : t = e.clauses[n].target
Wanted(c, t) ==
    \/ \E n \in 1 .. Len(c.ops) : t \in Targets(c.ops[n])
    \/ \E n \in 1 .. Len(c.table) : Handles(c.table[n], t)
Given(c, t) ==
    \/ t[1] = "return"
    \/ \E n \in 1 .. Len(c.ops) : c.ops[n].k = "label" /\ c.ops[n].label = t
Emits(fr, t) ==
    \/ fr.kind \notin {"func", "loop", "block"} /\ t = <<"continuation", fr.id>>
    \/ fr.kind = "if" /\ t = <<"else", fr.id>>
Due(c, t) == \E k \in 1 .. Len(c.frames) : Emits(c.frames[k], t)

LabelsFound(c) ==
    /\ \A t : Wanted(c, t) => Given(c, t) \/ Due(c, t)
    /\ \A k \in 1 .. Len(c.frames) : c.frames[k].kind = "loop" => Given(c, <<"header", c.frames[k].id>>)

(* More operations, whose jumps are known. *)
More(c, d) ==
    /\ \A t : Given(c, t) => Given(d, t)
    /\ \A t : Wanted(d, t) => Wanted(c, t)

(* Adding no operation. *)
LEMMA MoreSelf ==
    ASSUME NEW c
    PROVE  More(c, c)
  BY DEF More

(* Adding operations in two stretches. *)
LEMMA MoreTrans ==
    ASSUME NEW c, NEW d, NEW e, More(c, d), More(d, e)
    PROVE  More(c, e)
  BY DEF More

(* The same operations give and want the same labels. *)
LEMMA MoreSame ==
    ASSUME NEW c, NEW d, d.ops = c.ops, d.table = c.table
    PROVE  More(c, d) /\ More(d, c)
  BY DEF More, Wanted, Given

(* One operation more. *)
LEMMA AppendedOp ==
    ASSUME NEW c, NEW d, IsSeq(c.ops), NEW op, d.ops = Append(c.ops, op), d.table = c.table
    PROVE  /\ \A t : Given(c, t) => Given(d, t)
           /\ \A t : Wanted(d, t) <=> Wanted(c, t) \/ t \in Targets(op)
           /\ op.k = "label" => Given(d, op.label)
  <1> DEFINE s == c.ops
             r == d.ops
  <1>0. IsSeq(s) /\ r = Append(s, op)
    OBVIOUS
  <1> HIDE DEF s, r
  <1>1. /\ Len(s) \in Nat /\ Len(r) = Len(s) + 1
        /\ \A k \in 1 .. Len(s) : r[k] = s[k]
        /\ r[Len(s) + 1] = op
    BY <1>0, AppendIs, SeqHas
  <1>2. /\ \A k \in 1 .. Len(s) : k \in 1 .. Len(r)
        /\ Len(s) + 1 \in 1 .. Len(r)
        /\ \A k \in 1 .. Len(r) : k \in 1 .. Len(s) \/ k = Len(s) + 1
    BY <1>1
  <1>3. ASSUME NEW t, Given(c, t) PROVE Given(d, t)
    <2>1. CASE t[1] = "return"
      BY <2>1 DEF Given
    <2>2. CASE ~ (t[1] = "return")
      <3>1. PICK n \in 1 .. Len(s) : s[n].k = "label" /\ s[n].label = t
        BY <1>3, <2>2 DEF Given, s
      <3>2. n \in 1 .. Len(r) /\ r[n] = s[n]
        BY <1>1, <1>2
      <3>3. r[n].k = "label" /\ r[n].label = t
        BY <3>1, <3>2
      <3> QED
        BY <3>2, <3>3 DEF Given, r
    <2> QED
      BY <2>1, <2>2
  <1>4. ASSUME NEW t, Wanted(d, t) PROVE Wanted(c, t) \/ t \in Targets(op)
    <2>1. CASE \E n \in 1 .. Len(r) : t \in Targets(r[n])
      <3>1. PICK n \in 1 .. Len(r) : t \in Targets(r[n])
        BY <2>1
      <3>2. CASE n \in 1 .. Len(s)
        <4>1. t \in Targets(s[n])
          BY <1>1, <3>1, <3>2
        <4> QED
          BY <3>2, <4>1 DEF Wanted, s
      <3>3. CASE n = Len(s) + 1
        BY <1>1, <3>1, <3>3
      <3> QED
        BY <1>2, <3>2, <3>3
    <2>2. CASE ~ \E n \in 1 .. Len(r) : t \in Targets(r[n])
      BY <1>4, <2>2 DEF Wanted, r
    <2> QED
      BY <2>1, <2>2
  <1>5. ASSUME NEW t, Wanted(c, t) PROVE Wanted(d, t)
    <2>1. CASE \E n \in 1 .. Len(s) : t \in Targets(s[n])
      <3>1. PICK n \in 1 .. Len(s) : t \in Targets(s[n])
        BY <2>1
      <3>2. n \in 1 .. Len(r) /\ t \in Targets(r[n])
        BY <1>1, <1>2, <3>1
      <3> QED
        BY <3>2 DEF Wanted, r
    <2>2. CASE ~ \E n \in 1 .. Len(s) : t \in Targets(s[n])
      BY <1>5, <2>2 DEF Wanted, s
    <2> QED
      BY <2>1, <2>2
  <1>6. ASSUME NEW t \in Targets(op) PROVE Wanted(d, t)
    <2>1. t \in Targets(r[Len(s) + 1])
      BY <1>1
    <2> QED
      BY <1>2, <2>1 DEF Wanted, r
  <1>7. ASSUME op.k = "label" PROVE Given(d, op.label)
    <2>1. r[Len(s) + 1].k = "label" /\ r[Len(s) + 1].label = op.label
      BY <1>1, <1>7
    <2> QED
      BY <1>2, <2>1 DEF Given, r
  <1> QED
    BY <1>3, <1>4, <1>5, <1>6, <1>7

(* An operation that does not jump, or that jumps to labels that are given *)
(* or due.                                                                 *)
LEMMA EmitMore ==
    ASSUME NEW c, CompilerState(c), NEW op, op.k \notin Jumps
    PROVE  SameStack(c, emit(c, op)) /\ More(c, emit(c, op))
  <1> DEFINE d == emit(c, op)
  <1>1. SameStack(c, d) /\ d.ops \in {c.ops, Append(c.ops, op)}
    BY EmitFacts
  <1>2. Targets(op) = {}
    BY DEF Targets, Jumps
  <1> HIDE DEF d
  <1>3. IsSeq(c.ops) /\ d.table = c.table
    BY <1>1 DEF CompilerState, SameStack, SameFrames
  <1>4. ASSUME d.ops = c.ops PROVE More(c, d)
    BY <1>3, <1>4, MoreSame
  <1>5. ASSUME d.ops = Append(c.ops, op) PROVE More(c, d)
    BY <1>2, <1>3, <1>5, AppendedOp DEF More
  <1>6. More(c, d)
    BY <1>1, <1>4, <1>5
  <1> QED
    BY <1>1, <1>6 DEF d

(* With the same frames, labels given or due stay so while code is added without new targets. *)
LEMMA LabelsMore ==
    ASSUME NEW c, NEW d, LabelsFound(c), More(c, d), d.frames = c.frames
    PROVE  LabelsFound(d)
  <1>1. ASSUME NEW t, Wanted(d, t) PROVE Given(d, t) \/ Due(d, t)
    <2>1. Given(c, t) \/ Due(c, t)
      BY <1>1 DEF More, LabelsFound
    <2> QED
      BY <2>1 DEF More, Due
  <1>2. ASSUME NEW k \in 1 .. Len(d.frames), d.frames[k].kind = "loop" PROVE Given(d, <<"header", d.frames[k].id>>)
    <2>1. Given(c, <<"header", c.frames[k].id>>)
      BY <1>2 DEF LabelsFound
    <2> QED
      BY <2>1 DEF More
  <1> QED
    BY <1>1, <1>2 DEF LabelsFound

(* An operation whose targets are given or due keeps every label given or due. *)
LEMMA LabelsEmit ==
    ASSUME NEW c, CompilerState(c), LabelsFound(c), NEW op, \A t \in Targets(op) : Given(c, t) \/ Due(c, t)
    PROVE  /\ LabelsFound(emit(c, op))
           /\ \A t : Given(c, t) => Given(emit(c, op), t)
           /\ ~ c.on /\ op.k = "label" => Given(emit(c, op), op.label)
  <1> DEFINE d == emit(c, op)
  <1>1. SameStack(c, d) /\ d.ops \in {c.ops, Append(c.ops, op)} /\ (~ c.on /\ op.k # "drop" => d.ops = Append(c.ops, op))
    BY EmitFacts
  <1> HIDE DEF d
  <1>2. IsSeq(c.ops) /\ d.table = c.table /\ d.frames = c.frames
    BY <1>1 DEF CompilerState, SameStack, SameFrames
  <1>3. CASE d.ops = c.ops
    <2>1. More(c, d)
      BY <1>2, <1>3, MoreSame
    <2>2. ASSUME ~ c.on, op.k = "label" PROVE Given(d, op.label)
      BY <1>1, <1>2, <2>2, AppendedOp
    <2> QED
      BY <1>2, <2>1, <2>2, LabelsMore DEF More, d
  <1>4. CASE d.ops = Append(c.ops, op)
    <2>1. /\ \A t : Given(c, t) => Given(d, t)
          /\ \A t : Wanted(d, t) <=> Wanted(c, t) \/ t \in Targets(op)
          /\ op.k = "label" => Given(d, op.label)
      BY <1>2, <1>4, AppendedOp
    <2>2. ASSUME NEW t, Wanted(d, t) PROVE Given(d, t) \/ Due(d, t)
      <3>1. Given(c, t) \/ Due(c, t)
        BY <2>1, <2>2 DEF LabelsFound
      <3> QED
        BY <1>2, <2>1, <3>1 DEF Due
    <2>3. ASSUME NEW k \in 1 .. Len(d.frames), d.frames[k].kind = "loop" PROVE Given(d, <<"header", d.frames[k].id>>)
      <3>1. Given(c, <<"header", c.frames[k].id>>)
        BY <1>2, <2>3 DEF LabelsFound
      <3> QED
        BY <1>2, <2>1, <3>1
    <2>4. LabelsFound(d)
      BY <2>2, <2>3 DEF LabelsFound
    <2> QED
      BY <2>1, <2>4 DEF d
  <1> QED
    BY <1>1, <1>3, <1>4

-----------------------------------------------------------------------------
(* The steps of the compiler that do not emit. *)
LEMMA MarkFacts ==
    ASSUME NEW c, CompilerState(c), NEW b \in BOOLEAN
    PROVE  LET d == [c EXCEPT !.on = b]
           IN  /\ CompilerState(d) /\ d.on = b
               /\ d.stack = c.stack /\ d.ops = c.ops /\ d.frames = c.frames /\ d.depth = c.depth /\ d.id = c.id
               /\ d.table = c.table /\ d.err = c.err /\ d.mod = c.mod /\ d.self = c.self
               /\ d.ensureTermination = c.ensureTermination
  <1> DEFINE d == [c EXCEPT !.on = b]
  <1>1. /\ DOMAIN d = CompilerFields /\ d.on = b
        /\ d.stack = c.stack /\ d.ops = c.ops /\ d.frames = c.frames /\ d.depth = c.depth /\ d.id = c.id
        /\ d.table = c.table /\ d.err = c.err /\ d.mod = c.mod /\ d.self = c.self
        /\ d.ensureTermination = c.ensureTermination
    BY DEF CompilerState, CompilerFields
  <1> HIDE DEF d
  <1>3. CompilerState(d)
    BY <1>1 DEF CompilerState
  <1> QED
    BY <1>1, <1>3 DEF d

(* What changing the unreachable depth leaves alone. *)
LEMMA DepthFacts ==
    ASSUME NEW c, CompilerState(c), NEW n \in Nat
    PROVE  LET d == [c EXCEPT !.depth = n]
           IN  /\ CompilerState(d) /\ d.depth = n
               /\ d.stack = c.stack /\ d.ops = c.ops /\ d.frames = c.frames /\ d.on = c.on /\ d.id = c.id
               /\ d.table = c.table /\ d.err = c.err /\ d.mod = c.mod /\ d.self = c.self
               /\ d.ensureTermination = c.ensureTermination
  <1> DEFINE d == [c EXCEPT !.depth = n]
  <1>1. /\ DOMAIN d = CompilerFields /\ d.depth = n
        /\ d.stack = c.stack /\ d.ops = c.ops /\ d.frames = c.frames /\ d.on = c.on /\ d.id = c.id
        /\ d.table = c.table /\ d.err = c.err /\ d.mod = c.mod /\ d.self = c.self
        /\ d.ensureTermination = c.ensureTermination
    BY DEF CompilerState, CompilerFields
  <1> HIDE DEF d
  <1>3. CompilerState(d)
    BY <1>1 DEF CompilerState
  <1> QED
    BY <1>1, <1>3 DEF d

(* What drawing the next frame identifier leaves alone. *)
LEMMA IDFacts ==
    ASSUME NEW c, CompilerState(c)
    PROVE  LET d == nextFrameID(c)
           IN  /\ CompilerState(d)
               /\ d.stack = c.stack /\ d.ops = c.ops /\ d.frames = c.frames /\ d.depth = c.depth /\ d.on = c.on
               /\ d.table = c.table /\ d.err = c.err /\ d.mod = c.mod /\ d.self = c.self
               /\ d.ensureTermination = c.ensureTermination
  <1> DEFINE d == nextFrameID(c)
  <1>1. /\ DOMAIN d = CompilerFields
        /\ d.stack = c.stack /\ d.ops = c.ops /\ d.frames = c.frames /\ d.depth = c.depth /\ d.on = c.on
        /\ d.table = c.table /\ d.err = c.err /\ d.mod = c.mod /\ d.self = c.self
        /\ d.ensureTermination = c.ensureTermination
    BY DEF CompilerState, CompilerFields, nextFrameID
  <1> HIDE DEF d
  <1>3. CompilerState(d)
    BY <1>1 DEF CompilerState
  <1> QED
    BY <1>1, <1>3 DEF d

(* What replacing the stack leaves alone. *)
LEMMA StackFacts ==
    ASSUME NEW c, CompilerState(c), NEW s, IsSeq(s)
    PROVE  LET d == [c EXCEPT !.stack = s]
           IN  SameFrames(c, d) /\ d.stack = s /\ d.ops = c.ops
  <1> DEFINE d == [c EXCEPT !.stack = s]
  <1>1. /\ DOMAIN d = CompilerFields /\ d.stack = s /\ d.id = c.id
        /\ d.ops = c.ops /\ d.frames = c.frames /\ d.depth = c.depth /\ d.on = c.on
        /\ d.table = c.table /\ d.err = c.err /\ d.mod = c.mod /\ d.self = c.self
        /\ d.ensureTermination = c.ensureTermination
    BY DEF CompilerState, CompilerFields
  <1> HIDE DEF d
  <1>3. CompilerState(d)
    BY <1>1 DEF CompilerState
  <1> QED
    BY <1>1, <1>3 DEF d, SameFrames

(* What replacing the frames leaves alone. *)
LEMMA FramesFacts ==
    ASSUME NEW c, CompilerState(c), NEW fs, IsSeq(fs), \A k \in 1 .. Len(fs) : IsFrame(fs[k])
    PROVE  LET d == [c EXCEPT !.frames = fs]
           IN  /\ CompilerState(d) /\ d.frames = fs
               /\ d.stack = c.stack /\ d.ops = c.ops /\ d.depth = c.depth /\ d.on = c.on /\ d.id = c.id
               /\ d.table = c.table /\ d.err = c.err /\ d.mod = c.mod /\ d.self = c.self
               /\ d.ensureTermination = c.ensureTermination
  <1> DEFINE d == [c EXCEPT !.frames = fs]
  <1>1. /\ DOMAIN d = CompilerFields /\ d.frames = fs
        /\ d.stack = c.stack /\ d.ops = c.ops /\ d.depth = c.depth /\ d.on = c.on /\ d.id = c.id
        /\ d.table = c.table /\ d.err = c.err /\ d.mod = c.mod /\ d.self = c.self
        /\ d.ensureTermination = c.ensureTermination
    BY DEF CompilerState, CompilerFields
  <1> HIDE DEF d
  <1>3. CompilerState(d)
    BY <1>1 DEF CompilerState
  <1> QED
    BY <1>1, <1>3 DEF d

FramePushed(c, d, kind, bt) ==
    LET n == Len(c.frames)
        fr == d.frames[n + 1]
    IN  /\ CompilerState(d)
        /\ n \in Nat /\ Len(d.frames) = n + 1
        /\ \A k \in 1 .. n : d.frames[k] = c.frames[k]
        /\ fr.id = d.id /\ fr.kind = kind /\ fr.bt = bt /\ fr.len = Len(c.stack) - Len(bt.params)
        /\ d.stack = c.stack /\ d.ops = c.ops /\ d.depth = c.depth /\ d.on = c.on
        /\ d.table = c.table /\ d.err = c.err /\ d.mod = c.mod /\ d.self = c.self
        /\ d.ensureTermination = c.ensureTermination

(* pushFrame opens one frame above its parameters, with a new identifier. *)
LEMMA PushFrameFacts ==
    ASSUME NEW c, CompilerState(c), NEW kind \in Kinds, NEW bt \in FuncTypes, Len(bt.params) <= Len(c.stack)
    PROVE  FramePushed(c, pushFrame(c, kind, bt), kind, bt)
  <1> DEFINE e == nextFrameID(c)
             fr == [id |-> e.id, kind |-> kind, bt |-> bt,
                    len |-> Len(c.stack) - Len(bt.params),
                    len64 |-> stackLenInUint64(c) - Slots(bt.params)]
             fs == c.frames
             gs == Append(fs, fr)
             n == Len(fs)
             d == [e EXCEPT !.frames = gs]
  <1>1. /\ CompilerState(e)
        /\ e.stack = c.stack /\ e.ops = c.ops /\ e.frames = c.frames /\ e.depth = c.depth /\ e.on = c.on
        /\ e.table = c.table /\ e.err = c.err /\ e.mod = c.mod /\ e.self = c.self
        /\ e.ensureTermination = c.ensureTermination
    BY IDFacts
  <1>2. pushFrame(c, kind, bt) = d
    BY <1>1 DEF pushFrame
  <1> HIDE DEF e
  <1>3. Len(bt.params) \in Nat /\ Len(c.stack) \in Nat
    BY SeqHas DEF FuncTypes, CompilerState
  <1>4. IsFrame(fr) /\ fr.id = e.id /\ fr.kind = kind /\ fr.bt = bt /\ fr.len = Len(c.stack) - Len(bt.params)
    BY <1>3 DEF IsFrame, FrameFields
  <1> HIDE DEF fr
  <1>5. IsSeq(fs) /\ \A k \in 1 .. n : IsFrame(fs[k])
    BY DEF CompilerState
  <1> HIDE DEF fs
  <1>6. /\ IsSeq(gs) /\ n \in Nat /\ Len(gs) = n + 1 /\ gs[n + 1] = fr
        /\ \A k \in 1 .. n : gs[k] = fs[k]
    BY <1>5, AppendIs, SeqHas
  <1> HIDE DEF gs
  <1>7. ASSUME NEW k \in 1 .. Len(gs) PROVE IsFrame(gs[k])
    <2>1. k \in 1 .. n \/ k = n + 1
      BY <1>6
    <2> QED
      BY <1>4, <1>5, <1>6, <2>1
  <1> HIDE DEF n
  <1>8. /\ CompilerState(d) /\ d.frames = gs
        /\ d.stack = e.stack /\ d.ops = e.ops /\ d.depth = e.depth /\ d.on = e.on /\ d.id = e.id
        /\ d.table = e.table /\ d.err = e.err /\ d.mod = e.mod /\ d.self = e.self
        /\ d.ensureTermination = e.ensureTermination
    BY <1>1, <1>6, <1>7, FramesFacts
  <1> HIDE DEF d
  <1>9. fs = c.frames /\ n = Len(c.frames)
    BY DEF fs, n
  <1>10. /\ d.stack = c.stack /\ d.ops = c.ops /\ d.depth = c.depth /\ d.on = c.on
         /\ d.table = c.table /\ d.err = c.err /\ d.mod = c.mod /\ d.self = c.self
         /\ d.ensureTermination = c.ensureTermination
    BY <1>1, <1>8, Zenon
  <1>11. /\ n \in Nat /\ Len(d.frames) = n + 1 /\ d.frames[n + 1] = fr
         /\ \A k \in 1 .. n : d.frames[k] = c.frames[k]
    BY <1>6, <1>8, <1>9, Zenon
  <1>12. fr.id = d.id /\ fr.kind = kind /\ fr.bt = bt /\ fr.len = Len(c.stack) - Len(bt.params)
    BY <1>4, <1>8, Zenon
  <1>13. FramePushed(c, d, kind, bt)
    BY <1>8, <1>9, <1>10, <1>11, <1>12, Zenon DEF FramePushed
  <1> QED
    BY <1>2, <1>13, Zenon

(* The operands of an instruction and what is in their place. *)
Replaces(c, d, in, out) ==
    /\ Len(d.stack) = Len(c.stack) - Len(in) + Len(out)
    /\ \A k \in 1 .. Len(c.stack) - Len(in) : d.stack[k] = c.stack[k]
    /\ \A k \in 1 .. Len(out) : d.stack[Len(c.stack) - Len(in) + k] = U(out[k])

(* applyToStack replaces operands that the stack holds by the results. *)
LEMMA ApplyFacts ==
    ASSUME NEW c, CompilerState(c), ~ c.on, NEW f, NEW i, NEW sig,
           wasmOpcodeSignature(c.mod, f, i) = sig,
           sig.in \in Seq(ValueTypes), sig.out \in Seq(ValueTypes),
           Len(sig.in) <= Len(c.stack),
           \A k \in 1 .. Len(sig.in) : U(sig.in[k]) = c.stack[Len(c.stack) - Len(sig.in) + k]
    PROVE  LET d == applyToStack(c, f, i)
           IN  SameFrames(c, d) /\ d.ops = c.ops /\ Replaces(c, d, sig.in, sig.out)
  <1> DEFINE n == Len(sig.in)
             s == c.stack
             L == Len(s)
             taken == LastOf(s, n)
             fits == /\ n <= Len(c.stack)
                     /\ \A k \in 1..n : sig.in[k] # "unknown" => Unsigned(sig.in)[k] = taken[k]
                     /\ \A j, k \in 1..n :
                          sig.in[j] = "unknown" /\ sig.in[k] = "unknown" => taken[j] = taken[k]
             found(t) == IF t = "unknown" THEN taken[1] ELSE t
             out == [k \in DOMAIN sig.out |-> found(sig.out[k])]
             b == [c EXCEPT !.stack = ButLast(s, n)]
             d == stackPush(b, out)
  <1>0. n \in Nat /\ L \in Nat /\ IsSeq(s) /\ n <= L /\ DOMAIN sig.in = 1 .. n
    BY SeqHas DEF CompilerState
  <1>1. \A k \in 1 .. n : sig.in[k] \in ValueTypes
    BY ElementOfSeq
  <1>2. "unknown" \notin ValueTypes
    BY DEF ValueTypes, NonNullable, Nullable
  <1>3. \A k \in 1 .. n : Unsigned(sig.in)[k] = U(sig.in[k])
    BY <1>0 DEF Unsigned, U
  <1>4. \A k \in 1 .. n : taken[k] = s[L - n + k]
    <2> SUFFICES ASSUME NEW k \in 1 .. n PROVE LastOf(s, n)[k] = s[L - n + k]
      BY Zenon
    <2>1. PICK S : s \in Seq(S)
      BY <1>0 DEF IsSeq
    <2>2. k \in 1 .. (L + 1 - (L - n + 1)) /\ L - n + 1 \in Nat /\ (L - n + 1) + k - 1 = L - n + k
      BY <1>0
    <2> HIDE DEF s, n
    <2>3. SubSeq(s, L - n + 1, L)[k] = s[(L - n + 1) + k - 1]
      BY <1>0, <2>1, <2>2
    <2> QED
      BY <2>2, <2>3 DEF LastOf
  <1> HIDE DEF taken
  <1>5. fits
    <2>1. ASSUME NEW k \in 1 .. n PROVE Unsigned(sig.in)[k] = taken[k]
      BY <1>3, <1>4, Zenon
    <2>2. \A k \in 1 .. n : sig.in[k] # "unknown"
      BY <1>1, <1>2
    <2> QED
      BY <2>1, <2>2
  <1>6. applyToStack(c, f, i) = d
    BY <1>5 DEF applyToStack, taken
  <1>7. out = sig.out
    <2>1. \A k \in DOMAIN sig.out : sig.out[k] \in ValueTypes
      BY ElementOfSeq
    <2>2. \A k \in DOMAIN sig.out : found(sig.out[k]) = sig.out[k]
      BY <1>2, <2>1
    <2>3. sig.out = [k \in DOMAIN sig.out |-> sig.out[k]]
      OBVIOUS
    <2> QED
      BY <2>2, <2>3
  <1>8. IsSeq(ButLast(s, n)) /\ Len(ButLast(s, n)) = L - n /\ \A k \in 1 .. L - n : ButLast(s, n)[k] = s[k]
    <2> HIDE DEF s, n
    <2>1. L - n \in Nat /\ L - n <= Len(s)
      BY <1>0
    <2> QED
      BY <1>0, <2>1, PrefixIs DEF ButLast
  <1> HIDE DEF fits
  <1>9. SameFrames(c, b) /\ b.stack = ButLast(s, n) /\ b.ops = c.ops
    BY <1>8, StackFacts
  <1> HIDE DEF b, out
  <1>10. IsSeq(sig.out)
    BY SeqIs
  <1>11. /\ SameFrames(b, d) /\ d.ops = b.ops
         /\ Len(d.stack) = Len(b.stack) + Len(sig.out)
         /\ \A k \in 1 .. Len(b.stack) : d.stack[k] = b.stack[k]
         /\ \A k \in 1 .. Len(sig.out) : d.stack[Len(b.stack) + k] = U(sig.out[k])
    <2>1. CompilerState(b)
      BY <1>9 DEF SameFrames
    <2>2. d = stackPush(b, sig.out)
      BY <1>7
    <2> HIDE DEF d
    <2> DEFINE o == sig.out
    <2>3. IsSeq(o) /\ d = stackPush(b, o)
      BY <1>10, <2>2
    <2> HIDE DEF o
    <2>4. /\ SameFrames(b, d) /\ d.ops = b.ops
          /\ Len(d.stack) = Len(b.stack) + Len(o)
          /\ \A k \in 1 .. Len(b.stack) : d.stack[k] = b.stack[k]
          /\ \A k \in 1 .. Len(o) : d.stack[Len(b.stack) + k] = U(o[k])
      BY <2>1, <2>3, PushFacts
    <2> QED
      BY <2>4 DEF o
  <1> HIDE DEF d
  <1>12. SameFrames(c, d)
    BY <1>9, <1>11 DEF SameFrames
  <1>13. Replaces(c, d, sig.in, sig.out)
    <2>1. Len(b.stack) = Len(c.stack) - Len(sig.in) /\ \A k \in 1 .. Len(b.stack) : b.stack[k] = c.stack[k]
      BY <1>8, <1>9
    <2> DEFINE m == Len(b.stack)
    <2> HIDE DEF m
    <2>2. /\ m = Len(c.stack) - Len(sig.in) /\ Len(d.stack) = m + Len(sig.out)
          /\ \A k \in 1 .. m : d.stack[k] = c.stack[k]
          /\ \A k \in 1 .. Len(sig.out) : d.stack[m + k] = U(sig.out[k])
      BY <1>11, <2>1 DEF m
    <2> QED
      BY <2>2 DEF Replaces
  <1> QED
    BY <1>6, <1>9, <1>11, <1>12, <1>13

-----------------------------------------------------------------------------
(* How the compiler's state follows the validator's.  The blocks of the    *)
(* validator that the compiler entered are its frames, the others it only  *)
(* counts.  In code that can be reached the two stacks agree, above the L  *)
(* locals; otherwise they agree below the innermost frame.                 *)
LimitOf(v, k) == IF k = 1 THEN 0 ELSE v.limits[k - 1]

Nested(v) ==
    /\ Above(v) /\ v.status = "ok" /\ v.cs # <<>> /\ v.cs[1].op = "func"
    /\ Len(v.limits) = Len(v.cs) - 1
    /\ \A j, k \in 1 .. Len(v.limits) : j <= k => v.limits[j] <= v.limits[k]

SameBlocks(v, fs, L) ==
    /\ Len(fs) \in 1 .. Len(v.cs)
    /\ \A k \in 1 .. Len(fs) :
         /\ fs[k].bt = v.cs[k].bt
         /\ fs[k].len = IF k = 1 THEN 0 ELSE L + v.limits[k - 1]
         /\ fs[k].kind = "func" <=> k = 1

Reach(v, c) == IF c.on THEN LimitOf(v, Len(c.frames)) ELSE Len(v.stack)

SameOperands(v, c, L) ==
    /\ L + Reach(v, c) <= Len(c.stack)
    /\ ~ c.on => Len(c.stack) = L + Len(v.stack)
    /\ \A k \in 1 .. Reach(v, c) : v.stack[k] \in ValueTypes /\ c.stack[L + k] = U(v.stack[k])

Matched(v, c, mod, L) ==
    /\ Nested(v)
    /\ CompilerState(c) /\ c.err = FALSE /\ c.mod = mod
    /\ SameBlocks(v, c.frames, L)
    /\ Len(c.frames) + c.depth = Len(v.cs)
    /\ ~ c.on => c.depth = 0
    /\ SameOperands(v, c, L)

(* The stacks of the two in code that can be reached. *)
Agrees(v, c, L) ==
    /\ Len(c.stack) = L + Len(v.stack)
    /\ \A k \in 1 .. Len(v.stack) : v.stack[k] \in ValueTypes /\ c.stack[L + k] = U(v.stack[k])

(* All but the operations, and up to the kinds of the frames. *)
Similar(c, d) ==
    /\ CompilerState(d) /\ Alike(c.frames, d.frames)
    /\ d.stack = c.stack /\ d.on = c.on /\ d.depth = c.depth /\ d.err = c.err /\ d.mod = c.mod

(* Arithmetic on the places of a stack of blocks. *)
LEMMA PlaceBefore ==
    ASSUME NEW m \in Nat, NEW n \in Nat, n = m - 1, NEW k \in 1 .. m, k # 1
    PROVE  k - 1 \in 1 .. n /\ n \in 1 .. n /\ k - 1 <= n /\ m # 1 /\ m - 1 = n
  OBVIOUS

(* The limits of nested blocks are numbers, none above the innermost. *)
LEMMA NestedFacts ==
    ASSUME NEW v, Nested(v)
    PROVE  /\ Len(v.cs) \in Nat \ {0} /\ Len(v.limits) \in Nat /\ Len(v.stack) \in Nat /\ Limit(v) \in Nat
           /\ Limit(v) <= Len(v.stack)
           /\ Limit(v) = LimitOf(v, Len(v.cs))
           /\ \A k \in 1 .. Len(v.cs) : LimitOf(v, k) \in Nat /\ LimitOf(v, k) <= Limit(v)
  <1>1. /\ v \in ValidatorStates /\ Limit(v) <= Len(v.stack) /\ v.cs # <<>> /\ Len(v.limits) = Len(v.cs) - 1
        /\ v.cs \in Seq(ControlBlocks) /\ v.limits \in Seq(Nat)
    BY DEF Nested, Above, ValidatorStates
  <1>2. Len(v.cs) \in Nat \ {0} /\ Len(v.limits) \in Nat
    BY <1>1
  <1>3. Limit(v) \in Nat /\ Len(v.stack) \in Nat
    BY <1>1, LimitType
  <1>4. \A k \in 1 .. Len(v.limits) : v.limits[k] \in Nat
    BY <1>1, ElementOfSeq, Zenon
  <1>5. Limit(v) = LimitOf(v, Len(v.cs))
    <2>1. CASE v.limits = <<>>
      <3>1. Len(v.cs) = 1
        BY <1>1, <1>2, <2>1
      <3> QED
        BY <2>1, <3>1 DEF Limit, LimitOf
    <2>2. CASE v.limits # <<>>
      <3>1. Len(v.cs) # 1
        BY <1>1, <1>2, <2>2
      <3> QED
        BY <1>1, <2>2, <3>1 DEF Limit, LimitOf, Last
    <2> QED
      BY <2>1, <2>2
  <1>6. ASSUME NEW k \in 1 .. Len(v.cs) PROVE LimitOf(v, k) \in Nat /\ LimitOf(v, k) <= Limit(v)
    <2>1. CASE k = 1
      BY <1>3, <2>1 DEF LimitOf
    <2>2. CASE k # 1
      <3>1. k - 1 \in 1 .. Len(v.limits) /\ Len(v.limits) \in 1 .. Len(v.limits) /\ k - 1 <= Len(v.limits)
            /\ Len(v.cs) # 1 /\ Len(v.cs) - 1 = Len(v.limits)
        <4>1. Len(v.limits) = Len(v.cs) - 1
          BY <1>1, Zenon
        <4> QED
          BY <1>2, <2>2, <4>1, PlaceBefore
      <3>2. v.limits[k - 1] <= v.limits[Len(v.limits)] /\ v.limits[k - 1] \in Nat
        BY <1>4, <3>1, Zenon DEF Nested
      <3> QED
        BY <1>5, <2>2, <3>1, <3>2 DEF LimitOf
    <2> QED
      BY <2>1, <2>2
  <1> QED
    BY <1>1, <1>2, <1>3, <1>5, <1>6

(* Blocks that did not change are nested as before. *)
LEMMA NestedKeeps ==
    ASSUME NEW v, Nested(v), NEW w, Above(w), w.cs = v.cs, w.limits = v.limits, w.status = "ok"
    PROVE  Nested(w) /\ Limit(w) = Limit(v)
  BY Zenon DEF Nested, Limit

(* Frames that differ only in their continuation marks stand for the same blocks. *)
LEMMA AlikeBlocks ==
    ASSUME NEW v, NEW w, w.cs = v.cs, w.limits = v.limits, NEW fs, NEW gs, NEW L, SameBlocks(v, fs, L), Alike(fs, gs)
    PROVE  SameBlocks(w, gs, L) /\ Len(gs) = Len(fs)
  <1>1. Len(gs) = Len(fs)
    BY DEF Alike
  <1>2. ASSUME NEW k \in 1 .. Len(gs)
        PROVE  /\ gs[k].bt = w.cs[k].bt
               /\ gs[k].len = IF k = 1 THEN 0 ELSE L + w.limits[k - 1]
               /\ gs[k].kind = "func" <=> k = 1
    <2>1. /\ fs[k].bt = v.cs[k].bt
          /\ fs[k].len = IF k = 1 THEN 0 ELSE L + v.limits[k - 1]
          /\ fs[k].kind = "func" <=> k = 1
      BY <1>1 DEF SameBlocks
    <2>2. /\ gs[k].bt = fs[k].bt /\ gs[k].len = fs[k].len
          /\ gs[k].kind = fs[k].kind \/ (fs[k].kind = "block" /\ gs[k].kind = "continued")
      BY <1>1 DEF Alike
    <2>3. gs[k].kind = "func" <=> fs[k].kind = "func"
      BY <2>2
    <2> QED
      BY <2>1, <2>2, <2>3
  <1> QED
    BY <1>1, <1>2 DEF SameBlocks

(* Frames are like themselves. *)
LEMMA AlikeSelf ==
    ASSUME NEW c, CompilerState(c)
    PROVE  Alike(c.frames, c.frames)
  BY DEF Alike, CompilerState

(* Likeness of frames is transitive. *)
LEMMA AlikeTrans ==
    ASSUME NEW fs, NEW gs, NEW hs, Alike(fs, gs), Alike(gs, hs)
    PROVE  Alike(fs, hs)
  <1>1. Len(gs) = Len(fs) /\ Len(hs) = Len(fs)
    BY DEF Alike
  <1>2. ASSUME NEW k \in 1 .. Len(fs)
        PROVE  /\ IsFrame(hs[k]) /\ hs[k].id = fs[k].id /\ hs[k].bt = fs[k].bt /\ hs[k].len = fs[k].len
               /\ hs[k].kind = fs[k].kind \/ (fs[k].kind = "block" /\ hs[k].kind = "continued")
    BY <1>1 DEF Alike
  <1> QED
    BY <1>1, <1>2 DEF Alike

(* A compiler state is similar to itself. *)
LEMMA SimilarSelf ==
    ASSUME NEW c, CompilerState(c)
    PROVE  Similar(c, c)
  BY AlikeSelf DEF Similar

(* States with the same stack and frames are similar. *)
LEMMA SimilarSame ==
    ASSUME NEW c, NEW d, CompilerState(c), SameStack(c, d)
    PROVE  Similar(c, d)
  BY AlikeSelf DEF Similar, SameStack, SameFrames

(* Similarity is transitive. *)
LEMMA SimilarTrans ==
    ASSUME NEW c, NEW d, NEW e, Similar(c, d), Similar(d, e)
    PROVE  Similar(c, e)
  BY AlikeTrans DEF Similar

(* A state similar to a matched one is matched. *)
LEMMA SimilarMatches ==
    ASSUME NEW v, NEW c, NEW d, NEW mod, NEW L, Matched(v, c, mod, L), Similar(c, d)
    PROVE  Matched(v, d, mod, L)
  <1>1. SameBlocks(v, d.frames, L) /\ Len(d.frames) = Len(c.frames)
    BY AlikeBlocks DEF Matched, Similar
  <1>2. Reach(v, d) = Reach(v, c)
    BY <1>1 DEF Reach, Similar
  <1>3. SameOperands(v, d, L)
    BY <1>2 DEF SameOperands, Matched, Similar
  <1> QED
    BY <1>1, <1>3 DEF Matched, Similar

(* In reachable code, what a match says of the two stacks. *)
LEMMA MatchLive ==
    ASSUME NEW v, NEW c, NEW mod, NEW L \in Nat, Matched(v, c, mod, L), ~ c.on
    PROVE  /\ Known(v) /\ Agrees(v, c, L)
           /\ Len(c.frames) = Len(v.cs) /\ c.depth = 0
           /\ Above(v) /\ v.status = "ok" /\ v.cs # <<>> /\ CompilerState(c) /\ c.mod = mod /\ c.err = FALSE
           /\ LimitOf(v, Len(c.frames)) = Limit(v)
           /\ Len(v.stack) \in Nat /\ Limit(v) \in Nat /\ Limit(v) <= Len(v.stack)
  <1>1. Nested(v) /\ CompilerState(c) /\ c.depth = 0 /\ Len(c.frames) + c.depth = Len(v.cs)
    BY DEF Matched
  <1>2. Len(c.frames) = Len(v.cs)
    <2>1. Len(c.frames) \in Nat
      BY <1>1, SeqHas DEF CompilerState
    <2> QED
      BY <1>1, <2>1
  <1>3. Known(v) /\ Agrees(v, c, L)
    BY DEF Matched, SameOperands, Reach, Known, Agrees
  <1> QED
    BY <1>1, <1>2, <1>3, NestedFacts, Zenon DEF Matched, Nested

(* A step to code that cannot be reached, or in it. *)
LEMMA MatchKept ==
    ASSUME NEW v, NEW c, NEW mod, NEW L \in Nat, Matched(v, c, mod, L),
           NEW w, Keeps(v, w), w.status = "ok",
           NEW d, CompilerState(d), d.err = FALSE, d.mod = mod, Alike(c.frames, d.frames), d.depth = c.depth, d.on = TRUE,
           L + LimitOf(v, Len(c.frames)) <= Len(d.stack),
           \A k \in 1 .. LimitOf(v, Len(c.frames)) : d.stack[L + k] = c.stack[L + k]
    PROVE  Matched(w, d, mod, L)
  <1> DEFINE n == LimitOf(v, Len(c.frames))
  <1>1. Nested(v) /\ CompilerState(c) /\ SameBlocks(v, c.frames, L) /\ SameOperands(v, c, L)
    BY DEF Matched
  <1>2. Above(w) /\ w.cs = v.cs /\ w.limits = v.limits
    BY <1>1, KeepsAbove, Zenon DEF Nested, Keeps
  <1>3. Nested(w)
    BY <1>1, <1>2, NestedKeeps
  <1>4. SameBlocks(w, d.frames, L) /\ Len(d.frames) = Len(c.frames)
    BY <1>1, <1>2, AlikeBlocks
  <1>5. n \in Nat /\ n <= Limit(v) /\ Limit(v) \in Nat /\ Limit(v) <= Len(v.stack) /\ Len(v.stack) \in Nat
    BY <1>1, NestedFacts DEF SameBlocks
  <1>6. Reach(w, d) = n
    BY <1>2, <1>4 DEF Reach, LimitOf
  <1> HIDE DEF n
  <1>7. ASSUME NEW k \in 1 .. n PROVE w.stack[k] \in ValueTypes /\ d.stack[L + k] = U(w.stack[k])
    <2>1. k \in 1 .. Reach(v, c)
      <3>1. Reach(v, c) \in {n, Len(v.stack)}
        BY DEF Reach, n
      <3> QED
        BY <1>5, <3>1
    <2>2. v.stack[k] \in ValueTypes /\ c.stack[L + k] = U(v.stack[k])
      BY <1>1, <2>1 DEF SameOperands
    <2>3. k \in 1 .. Limit(v)
      BY <1>5
    <2>4. w.stack[k] = v.stack[k]
      BY <2>3 DEF Keeps
    <2>5. d.stack[L + k] = c.stack[L + k]
      BY DEF n
    <2> QED
      BY <2>2, <2>4, <2>5
  <1>8. SameOperands(w, d, L)
    <2>1. L + n <= Len(d.stack)
      BY DEF n
    <2> QED
      BY <1>6, <1>7, <2>1 DEF SameOperands
  <1> QED
    BY <1>2, <1>3, <1>4, <1>8 DEF Matched

(* A step in code that can be reached. *)
LEMMA MatchNext ==
    ASSUME NEW v, NEW c, NEW mod, NEW L \in Nat, Matched(v, c, mod, L), ~ c.on,
           NEW w, Above(w), w.cs = v.cs, w.limits = v.limits, w.status = "ok",
           NEW d, CompilerState(d), d.err = FALSE, d.mod = mod, Alike(c.frames, d.frames), d.depth = c.depth, ~ d.on,
           Agrees(w, d, L)
    PROVE  Matched(w, d, mod, L)
  <1>1. Nested(v) /\ SameBlocks(v, c.frames, L) /\ c.depth = 0
    BY DEF Matched
  <1>2. Nested(w)
    BY <1>1, NestedKeeps
  <1>3. SameBlocks(w, d.frames, L) /\ Len(d.frames) = Len(c.frames)
    BY <1>1, AlikeBlocks
  <1>4. Len(w.stack) \in Nat
    BY <1>2, NestedFacts
  <1>5. SameOperands(w, d, L)
    BY <1>4 DEF SameOperands, Agrees, Reach
  <1> QED
    BY <1>1, <1>2, <1>3, <1>5 DEF Matched

(* The operands are on the compiler's stack too. *)
LEMMA AgreesIn ==
    ASSUME NEW v, NEW c, NEW L \in Nat, Agrees(v, c, L), Above(v), NEW w, NEW S, NEW in \in Seq(S), NEW out, Took(v, w, in, out)
    PROVE  /\ Len(in) \in Nat /\ Len(v.stack) \in Nat /\ Limit(v) \in Nat
           /\ L + Limit(v) + Len(in) <= Len(c.stack) /\ Len(in) <= Len(c.stack)
           /\ \A k \in 1 .. Len(in) : U(in[k]) = c.stack[Len(c.stack) - Len(in) + k]
  <1>1. Len(in) \in Nat /\ Len(v.stack) \in Nat /\ Limit(v) \in Nat /\ Limit(v) + Len(in) <= Len(v.stack)
        /\ Len(c.stack) = L + Len(v.stack)
    BY LimitType DEF Above, Took, Agrees
  <1>2. ASSUME NEW k \in 1 .. Len(in) PROVE U(in[k]) = c.stack[Len(c.stack) - Len(in) + k]
    <2> DEFINE j == Len(v.stack) - Len(in) + k
    <2>1. j \in 1 .. Len(v.stack) /\ Len(c.stack) - Len(in) + k = L + j
      BY <1>1
    <2>2. U(in[k]) = U(v.stack[j])
      BY DEF Took
    <2> HIDE DEF j
    <2> QED
      BY <2>1, <2>2, Zenon DEF Agrees
  <1> QED
    BY <1>1, <1>2

(* The same replacement on both sides keeps the stacks in agreement. *)
LEMMA AgreesTook ==
    ASSUME NEW v, NEW c, NEW L \in Nat, Agrees(v, c, L), Above(v), NEW w, Known(w),
           NEW S, NEW in \in Seq(S), NEW T, NEW out \in Seq(T), Took(v, w, in, out),
           NEW d, Replaces(c, d, in, out)
    PROVE  Agrees(w, d, L)
  <1> DEFINE m == Len(v.stack) - Len(in)
  <1>1. /\ Len(in) \in Nat /\ Len(out) \in Nat /\ Len(v.stack) \in Nat /\ Limit(v) \in Nat
        /\ Limit(v) + Len(in) <= Len(v.stack)
        /\ Len(c.stack) = L + Len(v.stack)
        /\ Len(w.stack) = Len(v.stack) - Len(in) + Len(out)
        /\ Len(d.stack) = Len(c.stack) - Len(in) + Len(out)
    BY LimitType DEF Above, Took, Agrees, Replaces
  <1>2. m \in Nat /\ Len(w.stack) = m + Len(out) /\ Len(c.stack) - Len(in) = L + m /\ Len(d.stack) = L + m + Len(out)
        /\ Len(v.stack) - Len(in) = m
    BY <1>1
  <1> HIDE DEF m
  <1>3. ASSUME NEW k \in 1 .. Len(w.stack) PROVE d.stack[L + k] = U(w.stack[k])
    <2>1. CASE k <= m
      <3>0. k \in 1 .. m /\ L + k \in 1 .. L + m
        BY <1>2, <2>1
      <3>a. m <= Len(v.stack)
        BY <1>1, <1>2
      <3>b. k \in 1 .. Len(v.stack)
        BY <1>1, <1>2, <3>0, <3>a
      <3>1. k \in 1 .. Len(v.stack) - Len(in) /\ k \in 1 .. Len(v.stack) /\ L + k \in 1 .. Len(c.stack) - Len(in)
        BY <1>2, <3>0, <3>b, Zenon
      <3> QED
        BY <3>1 DEF Took, Agrees, Replaces
    <2>2. CASE ~ (k <= m)
      <3> DEFINE j == k - m
      <3>k. k \in Nat /\ k <= m + Len(out) /\ m < k /\ Len(out) \in Nat
        <4>1. Len(out) \in Nat /\ m \in Nat /\ Len(w.stack) = m + Len(out)
          BY <1>1, <1>2, Zenon
        <4> QED
          BY <2>2, <4>1
      <3>0. j \in 1 .. Len(out) /\ k = m + j /\ L + k = L + m + j
        BY <1>2, <3>k
      <3>1. j \in 1 .. Len(out) /\ k = Len(v.stack) - Len(in) + j /\ L + k = Len(c.stack) - Len(in) + j
        BY <1>2, <3>0, Zenon
      <3> HIDE DEF j
      <3>2. w.stack[Len(v.stack) - Len(in) + j] = out[j] /\ d.stack[Len(c.stack) - Len(in) + j] = U(out[j])
        BY <3>1, Zenon DEF Took, Replaces
      <3> QED
        BY <3>1, <3>2
    <2> QED
      BY <2>1, <2>2
  <1>4. Len(d.stack) = L + Len(w.stack)
    BY <1>1, <1>2
  <1> QED
    BY <1>3, <1>4 DEF Agrees, Known

(* Operands that are checked and stay on the stack. *)
LEMMA AgreesSame ==
    ASSUME NEW v, NEW c, NEW L \in Nat, Agrees(v, c, L), Above(v), NEW w, Known(w),
           NEW S, NEW ts \in Seq(S), Took(v, w, ts, ts)
    PROVE  Agrees(w, c, L)
  <1>1. /\ Len(ts) \in Nat /\ Len(ts) <= Len(c.stack) /\ Len(v.stack) \in Nat /\ Limit(v) \in Nat
        /\ \A k \in 1 .. Len(ts) : U(ts[k]) = c.stack[Len(c.stack) - Len(ts) + k]
    BY AgreesIn
  <1>2. Len(c.stack) = L + Len(v.stack)
    BY DEF Agrees
  <1>3. Replaces(c, c, ts, ts)
    <2>1. Len(c.stack) = Len(c.stack) - Len(ts) + Len(ts)
      BY <1>1, <1>2
    <2> QED
      BY <1>1, <2>1 DEF Replaces
  <1> QED
    BY <1>3, AgreesTook

-----------------------------------------------------------------------------
(* An instruction whose signature says what the validator saw it take and  *)
(* leave, up to how the values are stored.                                 *)
StoredAlike(ts, us) ==
    /\ ts \in Seq(ValueTypes) /\ us \in Seq(ValueTypes) /\ Len(ts) = Len(us)
    /\ \A k \in 1 .. Len(us) : U(ts[k]) = U(us[k])

(* When the validator took what the signature says, applyToStack keeps the match. *)
LEMMA MatchApply ==
    ASSUME NEW v, NEW c, NEW mod, NEW L \in Nat, Matched(v, c, mod, L), ~ c.on,
           NEW w, Above(w), Known(w), w.status = "ok", NEW in, NEW out, Took(v, w, in, out),
           NEW f, NEW i, NEW sig, wasmOpcodeSignature(mod, f, i) = sig,
           StoredAlike(sig.in, in), StoredAlike(sig.out, out)
    PROVE  LET e == applyToStack(c, f, i)
           IN  Matched(w, e, mod, L) /\ SameFrames(c, e) /\ e.ops = c.ops /\ Replaces(c, e, in, out)
  <1> DEFINE e == applyToStack(c, f, i)
             a == sig.in
             b == sig.out
  <1>0. /\ Agrees(v, c, L) /\ Above(v) /\ CompilerState(c) /\ c.mod = mod /\ c.err = FALSE
    BY MatchLive, Zenon
  <1>1. /\ a \in Seq(ValueTypes) /\ in \in Seq(ValueTypes) /\ Len(a) = Len(in)
        /\ b \in Seq(ValueTypes) /\ out \in Seq(ValueTypes) /\ Len(b) = Len(out)
        /\ \A k \in 1 .. Len(in) : U(a[k]) = U(in[k])
        /\ \A k \in 1 .. Len(out) : U(b[k]) = U(out[k])
    BY DEF StoredAlike
  <1>2. /\ Len(in) \in Nat /\ Len(in) <= Len(c.stack)
        /\ \A k \in 1 .. Len(in) : U(in[k]) = c.stack[Len(c.stack) - Len(in) + k]
    BY <1>0, <1>1, AgreesIn
  <1>3. SameFrames(c, e) /\ e.ops = c.ops /\ Replaces(c, e, a, b)
    <2>1. Len(a) <= Len(c.stack) /\ \A k \in 1 .. Len(a) : U(a[k]) = c.stack[Len(c.stack) - Len(a) + k]
      BY <1>1, <1>2
    <2> QED
      <3>1. CompilerState(c) /\ wasmOpcodeSignature(c.mod, f, i) = sig
        BY <1>0
      <3>2. sig.in \in Seq(ValueTypes) /\ sig.out \in Seq(ValueTypes)
        BY <1>1
      <3> QED
        BY <2>1, <3>1, <3>2, ApplyFacts
  <1> HIDE DEF e, a, b
  <1>4. Replaces(c, e, in, out)
    BY <1>1, <1>3 DEF Replaces
  <1>5. Agrees(w, e, L)
    BY <1>0, <1>1, <1>4, AgreesTook
  <1>6. Matched(w, e, mod, L)
    <2>1. w.cs = v.cs /\ w.limits = v.limits
      BY DEF Took
    <2>2. CompilerState(e) /\ e.err = FALSE /\ e.mod = mod /\ e.depth = c.depth /\ ~ e.on /\ e.frames = c.frames
      BY <1>0, <1>3 DEF SameFrames
    <2>3. Alike(c.frames, e.frames)
      BY <1>0, <2>2, AlikeSelf
    <2> QED
      BY <1>5, <2>1, <2>2, <2>3, MatchNext, Zenon
  <1> QED
    BY <1>3, <1>4, <1>6 DEF e

Peek(c) == IF c.stack = <<>> THEN "none" ELSE Last(c.stack)

(* What handleInstruction does with c once its operands are applied, which *)
(* gave e.                                                                 *)
HandledAs(c, f, i, e, d) ==
    /\ i.op = "nop" => d = e
    /\ i.op = "unreachable" => d = markUnreachable(emit(e, [k |-> "unreachable"]))
    /\ i.op = "const" => d = emit(e, [k |-> "const", vals |-> InSlots(i.t, i.n)])
    /\ i.op = "drop" => d = emitDrop(e, <<0, IF Peek(c) = "v128" THEN 1 ELSE 0>>)
    /\ i.op \in {"select", "typed_select"} => d = IF e.on THEN e ELSE emit(e, [k |-> "select", v128 |-> Last(e.stack) = "v128"])
    /\ i.op \in LocalOps => d = compileLocal(e, f, i)
    /\ i.op = "block" => d = compileBlock(e, i)
    /\ i.op = "loop" => d = compileLoop(e, i)
    /\ i.op = "if" => d = compileIf(e, i)
    /\ i.op = "else" => d = compileElse(e)
    /\ i.op = "end" => d = compileEnd(e)
    /\ i.op = "try_table" => d = compileTryTable(e, i)
    /\ i.op = "br" => d = compileBr(e, i)
    /\ i.op \in BrIfOps => d = compileBrIf(e, i)
    /\ i.op = "br_table" => d = compileBrTable(e, i)
    /\ i.op = "return" => d = compileReturn(e)
    /\ i.op \in {"throw", "throw_ref"} => d = compileThrow(e, i)
    /\ i.op \in CallOps \cup TailCallOps => d = compileCall(e, i)
    /\ i.op = "ref.func" => d = emit(e, [k |-> "const", vals |-> <<i.func>>])
    /\ i.op = "ref.null" => d = emit(e, [k |-> "const", vals |-> <<0>>])
    /\ i.op = "ref.is_null" => d = compileRefIsNull(e)
    /\ i.op = "ref.as_non_null" => d = emit(e, [k |-> i.op])
    /\ i.op \in PlainOps \ {"nop", "const"} => d = emitOperation(e, i)

(* Once applyToStack succeeded, Handle goes on from its result. *)
LEMMA HandleForm ==
    ASSUME NEW c, NEW f, NEW i, applyToStack(c, f, i).err = FALSE
    PROVE  HandledAs(c, f, i, applyToStack(c, f, i), Handle(c, f, i))
  <1> DEFINE e == applyToStack(c, f, i)
             d == Handle(c, f, i)
  <1> USE DEF NumericOps, MemoryOps, GlobalOps, TableOps, BulkOps, AtomicOps, AtomicRMWOps,
              VectorMemoryOps, VectorLaneOps, VectorLogicOps, VectorArithmeticOps
  <1>1. /\ i.op = "nop" => d = e
        /\ i.op = "unreachable" => d = markUnreachable(emit(e, [k |-> "unreachable"]))
        /\ i.op = "const" => d = emit(e, [k |-> "const", vals |-> InSlots(i.t, i.n)])
        /\ i.op = "drop" => d = emitDrop(e, <<0, IF Peek(c) = "v128" THEN 1 ELSE 0>>)
        /\ i.op \in {"select", "typed_select"} => d = IF e.on THEN e ELSE emit(e, [k |-> "select", v128 |-> Last(e.stack) = "v128"])
    BY Zenon DEF Handle, Peek, LocalOps, BrIfOps, CallOps, TailCallOps
  <1>2. /\ i.op \in LocalOps => d = compileLocal(e, f, i)
        /\ i.op = "block" => d = compileBlock(e, i)
        /\ i.op = "loop" => d = compileLoop(e, i)
        /\ i.op = "if" => d = compileIf(e, i)
        /\ i.op = "else" => d = compileElse(e)
        /\ i.op = "end" => d = compileEnd(e)
        /\ i.op = "try_table" => d = compileTryTable(e, i)
    BY Zenon DEF Handle, Peek, LocalOps, BrIfOps, CallOps, TailCallOps
  <1>3. /\ i.op = "br" => d = compileBr(e, i)
        /\ i.op \in BrIfOps => d = compileBrIf(e, i)
        /\ i.op = "br_table" => d = compileBrTable(e, i)
        /\ i.op = "return" => d = compileReturn(e)
        /\ i.op \in {"throw", "throw_ref"} => d = compileThrow(e, i)
    BY Zenon DEF Handle, Peek, LocalOps, BrIfOps, CallOps, TailCallOps
  <1>4. /\ i.op \in CallOps \cup TailCallOps => d = compileCall(e, i)
        /\ i.op = "ref.func" => d = emit(e, [k |-> "const", vals |-> <<i.func>>])
        /\ i.op = "ref.null" => d = emit(e, [k |-> "const", vals |-> <<0>>])
        /\ i.op = "ref.is_null" => d = compileRefIsNull(e)
        /\ i.op = "ref.as_non_null" => d = emit(e, [k |-> i.op])
    BY Zenon DEF Handle, Peek, LocalOps, BrIfOps, CallOps, TailCallOps
  <1>5. i.op \in PlainOps \ {"nop", "const"} => d = emitOperation(e, i)
    BY DEF Handle, PlainOps, VectorOps, compileGlobal, compileMemory, compileNumeric, compileTable, compileBulk, compileAtomic,
           compileAtomicRMW, compileVectorMemory, compileVectorLane, compileVectorLogic, compileVectorArithmetic
  <1> HIDE DEF e, d
  <1>6. HandledAs(c, f, i, e, d)
    BY <1>1, <1>2, <1>3, <1>4, <1>5 DEF HandledAs
  <1> QED
    BY <1>6 DEF e, d

(* What the instruction does to the state otherwise is to emit operations  *)
(* that do not jump.                                                       *)
StraightOps == PlainOps \cup {"drop", "select", "typed_select"} \cup LocalOps \cup CallOps \cup RefOps

(* The handlers of operators without control only emit. *)
LEMMA HandleStraight ==
    ASSUME NEW c, ~ c.on, NEW f, NEW i, i.op \in StraightOps,
           CompilerState(applyToStack(c, f, i)), applyToStack(c, f, i).err = FALSE
    PROVE  /\ SameStack(applyToStack(c, f, i), Handle(c, f, i))
           /\ More(applyToStack(c, f, i), Handle(c, f, i))
  <1> DEFINE e == applyToStack(c, f, i)
             d == Handle(c, f, i)
  <1>0. CompilerState(e) /\ e.err = FALSE /\ e = applyToStack(c, f, i) /\ d = Handle(c, f, i)
    OBVIOUS
  <1> HIDE DEF e, d
  <1>f. HandledAs(c, f, i, e, d)
    BY HandleForm, Zenon DEF d, e
  <1>a. ASSUME NEW op, op.k \notin Jumps, d = emit(e, op)
        PROVE  SameStack(e, d) /\ More(e, d)
    BY <1>0, <1>a, EmitMore
  <1>b. ASSUME d = e PROVE SameStack(e, d) /\ More(e, d)
    BY <1>0, <1>b, MoreSelf DEF SameStack, SameFrames
  <1>1. CASE i.op \in PlainOps \ {"nop", "const"}
    <2> DEFINE op == [k |-> i.op, arg |-> i]
    <2>1. op.k \notin Jumps
      BY <1>1 DEF Jumps, PlainOps, NumericOps, MemoryOps, GlobalOps, TableOps, BulkOps, AtomicOps, AtomicRMWOps,
                  VectorOps, VectorMemoryOps, VectorLaneOps, VectorLogicOps, VectorArithmeticOps
    <2>2. d = emit(e, op)
      BY <1>1, <1>f DEF HandledAs, emitOperation
    <2> HIDE DEF op, d
    <2>3. SameStack(e, d) /\ More(e, d)
      BY <1>a, <2>1, <2>2
    <2> QED
      BY <2>3 DEF d, e
  <1>2. CASE i.op \in {"nop", "const", "drop", "select", "typed_select", "ref.func", "ref.null", "ref.is_null", "ref.as_non_null"}
    <2>1. CASE i.op = "nop"
      <3>1. d = e
        BY <1>f, <2>1 DEF HandledAs
      <3> QED
        BY <1>b, <3>1 DEF d, e
    <2>2. CASE i.op = "const"
      <3> DEFINE op == [k |-> "const", vals |-> InSlots(i.t, i.n)]
      <3>1. op.k \notin Jumps
        BY DEF Jumps
      <3>2. d = emit(e, op)
        BY <1>f, <2>2 DEF HandledAs
      <3> HIDE DEF op
      <3> QED
        BY <1>a, <3>1, <3>2 DEF d, e
    <2>3. CASE i.op = "drop"
      <3> DEFINE op(p) == [k |-> "drop", range |-> <<0, IF p = "v128" THEN 1 ELSE 0>>]
      <3>1. op(Peek(c)).k \notin Jumps
        BY DEF Jumps
      <3>2. d = emit(e, op(Peek(c)))
        BY <1>f, <2>3 DEF HandledAs, emitDrop
      <3> HIDE DEF op
      <3> QED
        BY <1>a, <3>1, <3>2 DEF d, e
    <2>4. CASE i.op \in {"select", "typed_select"}
      <3> DEFINE op == [k |-> "select", v128 |-> Last(e.stack) = "v128"]
      <3>1. op.k \notin Jumps
        BY DEF Jumps
      <3>2. d \in {e, emit(e, op)}
        BY <1>f, <2>4 DEF HandledAs
      <3> HIDE DEF op
      <3> QED
        BY <1>a, <1>b, <3>1, <3>2 DEF d, e
    <2>5. CASE i.op = "ref.func"
      <3> DEFINE op == [k |-> "const", vals |-> <<i.func>>]
      <3>1. op.k \notin Jumps
        BY DEF Jumps
      <3>2. d = emit(e, op)
        BY <1>f, <2>5 DEF HandledAs
      <3> HIDE DEF op
      <3> QED
        BY <1>a, <3>1, <3>2 DEF d, e
    <2>6. CASE i.op = "ref.null"
      <3> DEFINE op == [k |-> "const", vals |-> <<0>>]
      <3>1. op.k \notin Jumps
        BY DEF Jumps
      <3>2. d = emit(e, op)
        BY <1>f, <2>6 DEF HandledAs
      <3> HIDE DEF op
      <3> QED
        BY <1>a, <3>1, <3>2 DEF d, e
    <2>7. CASE i.op = "ref.is_null"
      <3> DEFINE arg == [op |-> "eqz", t |-> "i64"]
                 op == [k |-> "eqz", arg |-> arg]
      <3>1. op.k \notin Jumps
        BY DEF Jumps
      <3>2. d = emit(e, op)
        BY <1>f, <2>7 DEF HandledAs, compileRefIsNull, emitOperation
      <3> HIDE DEF op
      <3> QED
        BY <1>a, <3>1, <3>2 DEF d, e
    <2>8. CASE i.op = "ref.as_non_null"
      <3> DEFINE op == [k |-> i.op]
      <3>1. op.k \notin Jumps
        BY <2>8 DEF Jumps
      <3>2. d = emit(e, op)
        BY <1>f, <2>8 DEF HandledAs
      <3> HIDE DEF op
      <3> QED
        BY <1>a, <3>1, <3>2 DEF d, e
    <2> QED
      BY <1>2, <2>1, <2>2, <2>3, <2>4, <2>5, <2>6, <2>7, <2>8
  <1>3. CASE i.op \in LocalOps
    <2> DEFINE depth == localDepth(e, f, i.x)
               v128  == LocalTypes(f)[i.x] = "v128"
               w     == IF v128 THEN 2 ELSE 1
               pick(n) == [k |-> "pick", depth |-> n, v128 |-> v128]
               set == [k |-> "set", depth |-> depth + w, v128 |-> v128]
               p == emit(e, pick(w - 1))
    <2>1. set.k \notin Jumps /\ pick(depth - w).k \notin Jumps /\ pick(w - 1).k \notin Jumps
      BY DEF Jumps
    <2>2. d = compileLocal(e, f, i)
      BY <1>f, <1>3 DEF HandledAs
    <2>3. d \in {emit(e, pick(depth - w)), emit(e, set), emit(p, set)}
      BY <1>3, <2>2 DEF compileLocal, LocalOps
    <2> HIDE DEF set, pick, d
    <2>4. SameStack(e, p) /\ More(e, p)
      BY <1>0, <2>1, EmitMore
    <2> HIDE DEF p
    <2>5. CompilerState(p)
      BY <2>4 DEF SameStack, SameFrames
    <2>6. SameStack(p, emit(p, set)) /\ More(p, emit(p, set))
      BY <2>1, <2>5, EmitMore
    <2>7. SameStack(e, emit(p, set)) /\ More(e, emit(p, set))
      BY <2>4, <2>6, MoreTrans DEF SameStack, SameFrames
    <2>8. SameStack(e, d) /\ More(e, d)
      BY <1>0, <2>1, <2>3, <2>7, EmitMore
    <2> QED
      BY <2>8 DEF d, e
  <1>4. CASE i.op \in CallOps
    <2> DEFINE op == [k |-> i.op, type |-> i.type, func |-> i.func,
                      range |-> getFrameDropRange(e, functionFrame(e), FALSE)]
    <2>1. op.k \notin Jumps
      BY <1>4 DEF Jumps, CallOps
    <2>2. d = compileCall(e, i)
      BY <1>f, <1>4 DEF HandledAs
    <2>3. d = emit(e, op)
      BY <1>4, <2>2 DEF compileCall, CallOps
    <2> HIDE DEF op, d
    <2>4. SameStack(e, d) /\ More(e, d)
      BY <1>a, <2>1, <2>3
    <2> QED
      BY <2>4 DEF d, e
  <1> QED
    BY <1>1, <1>2, <1>3, <1>4 DEF StraightOps, RefOps

-----------------------------------------------------------------------------
(* What holds between two instructions of an accepted function. *)
Joint(v, c, mod, L) == Matched(v, c, mod, L) /\ LabelsFound(c)

(* Emitting without new targets keeps the joint relation. *)
LEMMA JointSame ==
    ASSUME NEW v, NEW c, NEW mod, NEW L, Joint(v, c, mod, L), NEW d, SameStack(c, d), More(c, d)
    PROVE  Joint(v, d, mod, L)
  <1>1. CompilerState(c)
    BY DEF Joint, Matched
  <1>2. Similar(c, d) /\ d.frames = c.frames
    BY <1>1, SimilarSame DEF SameStack, SameFrames
  <1> QED
    BY <1>2, SimilarMatches, LabelsMore DEF Joint

(* applyToStack keeps the joint relation when the validator took what the signature says. *)
LEMMA JointApply ==
    ASSUME NEW v, NEW c, NEW mod, NEW L \in Nat, Joint(v, c, mod, L), ~ c.on,
           NEW w, Above(w), Known(w), w.status = "ok", NEW in, NEW out, Took(v, w, in, out),
           NEW f, NEW i, NEW sig, wasmOpcodeSignature(mod, f, i) = sig,
           StoredAlike(sig.in, in), StoredAlike(sig.out, out)
    PROVE  LET e == applyToStack(c, f, i)
           IN  Joint(w, e, mod, L) /\ SameFrames(c, e) /\ e.ops = c.ops /\ Replaces(c, e, in, out)
  <1> DEFINE e == applyToStack(c, f, i)
  <1>1. Matched(w, e, mod, L) /\ SameFrames(c, e) /\ e.ops = c.ops /\ Replaces(c, e, in, out)
    BY MatchApply DEF Joint
  <1> HIDE DEF e
  <1>2. More(c, e)
    BY <1>1, MoreSame DEF SameFrames
  <1>3. LabelsFound(e)
    BY <1>1, <1>2, LabelsMore DEF Joint, SameFrames
  <1> QED
    BY <1>1, <1>3 DEF Joint, e

(* The step of an operator without control whose signature the validator agrees with. *)
LEMMA StraightStep ==
    ASSUME NEW v, NEW c, NEW mod, NEW L \in Nat, Joint(v, c, mod, L), ~ c.on,
           NEW w, Above(w), Known(w), w.status = "ok", NEW in, NEW out, Took(v, w, in, out),
           NEW f, NEW i, i.op \in StraightOps, NEW sig, wasmOpcodeSignature(mod, f, i) = sig,
           StoredAlike(sig.in, in), StoredAlike(sig.out, out)
    PROVE  Joint(w, Handle(c, f, i), mod, L)
  <1> DEFINE e == applyToStack(c, f, i)
  <1>1. Joint(w, e, mod, L)
    BY JointApply
  <1>2. CompilerState(e) /\ e.err = FALSE
    BY <1>1 DEF Joint, Matched
  <1>3. SameStack(e, Handle(c, f, i)) /\ More(e, Handle(c, f, i))
    BY <1>2, HandleStraight, Zenon
  <1> HIDE DEF e
  <1> QED
    BY <1>1, <1>3, JointSame

(* A sequence of types is stored like itself. *)
LEMMA AlikeTypes ==
    ASSUME NEW ts \in Seq(ValueTypes)
    PROVE  StoredAlike(ts, ts)
  BY DEF StoredAlike

(* References are words of 64 bits on the compiler's stack. *)
LEMMA ReferencesAreWords ==
    ASSUME NEW t, isReferenceValueType(t)
    PROVE  U(t) = "i64" /\ U("tref") = "i64" /\ U("i64") = "i64" /\ U("i32") = "i32"
  BY DEF U, wasmValueTypeTounsignedType, isReferenceValueType, NonNullable, Nullable

(* Instructions of given types. *)
LEMMA PlainSignature ==
    ASSUME NEW mod, DecodedModule(mod), NEW f, NEW i, Decoded(i), i.op \in PlainOps,
           i.op \in TableOps => i.x <= Len(mod.tables),
           Operands(mod, i) \in Seq(ValueTypes), Results(mod, i) \in Seq(ValueTypes)
    PROVE  LET sig == wasmOpcodeSignature(mod, f, i)
           IN  StoredAlike(sig.in, Operands(mod, i)) /\ StoredAlike(sig.out, Results(mod, i))
  <1> DEFINE sig == wasmOpcodeSignature(mod, f, i)
             in == Operands(mod, i)
             out == Results(mod, i)
  <1>0. in \in Seq(ValueTypes) /\ out \in Seq(ValueTypes)
    OBVIOUS
  <1> USE DEF NumericOps, MemoryOps, GlobalOps, TableOps, BulkOps, AtomicOps, AtomicRMWOps,
              VectorOps, VectorMemoryOps, VectorLaneOps, VectorLogicOps, VectorArithmeticOps
  <1>1. ASSUME sig.in = in, sig.out = out
        PROVE  StoredAlike(sig.in, in) /\ StoredAlike(sig.out, out)
    <2> HIDE DEF sig, in, out
    <2> QED
      BY <1>0, <1>1, AlikeTypes
  <1> DEFINE same == sig.in = in /\ sig.out = out
  <1>s. same => StoredAlike(sig.in, in) /\ StoredAlike(sig.out, out)
    BY <1>1, Zenon DEF same
  <1>2. CASE i.op \in {"nop", "const"}
    <2>1. same
      BY <1>2 DEF wasmOpcodeSignature, Operands, Results
    <2> HIDE DEF same
    <2> QED
      BY <1>s, <2>1, Zenon
  <1>3. CASE i.op \in NumericOps
    <2>1. same
      BY <1>3 DEF wasmOpcodeSignature, numericSignature, Operands, Results
    <2> HIDE DEF same
    <2> QED
      BY <1>s, <2>1, Zenon
  <1>4. CASE i.op \in MemoryOps \cup GlobalOps
    <2>1. same
      BY <1>4 DEF wasmOpcodeSignature, memorySignature, Operands, Results
    <2> HIDE DEF same
    <2> QED
      BY <1>s, <2>1, Zenon
  <1>5. CASE i.op \in BulkOps \cup {"table.size"}
    <2>1. same
      BY <1>5 DEF wasmOpcodeSignature, miscSignature, Operands, Results
    <2> HIDE DEF same
    <2> QED
      BY <1>s, <2>1, Zenon
  <1>6. CASE i.op \in AtomicOps \cup AtomicRMWOps
    <2>1. same
      BY <1>6 DEF wasmOpcodeSignature, atomicSignature, Operands, Results
    <2> HIDE DEF same
    <2> QED
      BY <1>s, <2>1, Zenon
  <1>7. CASE i.op \in VectorOps
    <2>0. sig = vectorSignature(i)
      BY <1>7 DEF wasmOpcodeSignature
    <2>1. same
      <3> HIDE DEF sig
      <3> QED
        BY <1>7, <2>0 DEF vectorSignature, laneResultType, Operands, Results
    <2> HIDE DEF same
    <2> QED
      BY <1>s, <2>1, Zenon
  <1>8. CASE i.op \in TableOps \ {"table.size"}
    <2> DEFINE t == mod.tables[i.x].type
    <2>0. i.x \in 1 .. Len(mod.tables)
      BY <1>8 DEF Decoded, DecodedModule
    <2>1. isReferenceValueType(t)
      BY <2>0 DEF DecodedModule
    <2>2. U(t) = U("i64") /\ t \in ValueTypes /\ "i64" \in ValueTypes /\ "i32" \in ValueTypes
      BY <2>1, ReferencesAreWords, ReferencesAreTypes DEF ValueTypes
    <2>3. /\ sig = miscSignature(i)
          /\ i.op = "table.get" => in = <<"i32">> /\ out = <<t>>
          /\ i.op = "table.set" => in = <<"i32", t>> /\ out = <<>>
          /\ i.op = "table.grow" => in = <<t, "i32">> /\ out = <<"i32">>
          /\ i.op = "table.fill" => in = <<"i32", t, "i32">> /\ out = <<>>
      BY <1>8, Zenon DEF wasmOpcodeSignature, Operands, Results
    <2> HIDE DEF sig, in, out, t
    <2>4. /\ i.op = "table.get" => sig.in = <<"i32">> /\ sig.out = <<"i64">>
          /\ i.op = "table.set" => sig.in = <<"i32", "i64">> /\ sig.out = <<>>
          /\ i.op = "table.grow" => sig.in = <<"i64", "i32">> /\ sig.out = <<"i32">>
          /\ i.op = "table.fill" => sig.in = <<"i32", "i64", "i32">> /\ sig.out = <<>>
      BY <2>3 DEF miscSignature
    <2>5. StoredAlike(<<>>, <<>>) /\ StoredAlike(<<"i32">>, <<"i32">>) /\ StoredAlike(<<"i64">>, <<t>>)
          /\ StoredAlike(<<"i32", "i64">>, <<"i32", t>>)
      BY <2>2 DEF StoredAlike
    <2>6. StoredAlike(<<"i64", "i32">>, <<t, "i32">>)
      BY <2>2 DEF StoredAlike
    <2>7. StoredAlike(<<"i32", "i64", "i32">>, <<"i32", t, "i32">>)
      BY <2>2 DEF StoredAlike
    <2>8. StoredAlike(sig.in, in) /\ StoredAlike(sig.out, out)
      BY <1>8, <2>3, <2>4, <2>5, <2>6, <2>7, Zenon
    <2> QED
      BY <2>8 DEF sig, in, out
  <1> QED
    BY <1>2, <1>3, <1>4, <1>5, <1>6, <1>7, <1>8 DEF PlainOps

(* Numeric, memory, global, table, bulk, atomic and vector operators: validator and compiler stay joined. *)
LEMMA PlainStep ==
    ASSUME NEW v, NEW c, NEW mod, DecodedModule(mod), NEW L \in Nat, Joint(v, c, mod, L), ~ c.on,
           NEW f, NEW i, Decoded(i), i.op \in PlainOps, Validate(v, mod, f, i).status = "ok"
    PROVE  Joint(Validate(v, mod, f, i), Handle(c, f, i), mod, L)
  <1> DEFINE w == Validate(v, mod, f, i)
             in == Operands(mod, i)
             out == Results(mod, i)
             sig == wasmOpcodeSignature(mod, f, i)
  <1>0. Above(v) /\ Known(v) /\ v.cs # <<>>
    BY MatchLive, Zenon DEF Joint
  <1>1. /\ w = takes(v, in, out) /\ in \in Seq(ValueTypes) /\ out \in Seq(ValueTypes)
        /\ i.op \in TableOps => i.x <= Len(mod.tables)
    BY <1>0, KeepsPlain
  <1>2. StoredAlike(sig.in, in) /\ StoredAlike(sig.out, out)
    BY <1>1, PlainSignature
  <1>3. i.op \in StraightOps /\ w.status = "ok"
    BY DEF StraightOps
  <1> HIDE DEF w, in, out
  <1>4. Took(v, w, in, out) /\ Known(w) /\ Above(w)
    BY <1>0, <1>1, <1>3, TookTakes
  <1> HIDE DEF sig
  <1>5. wasmOpcodeSignature(mod, f, i) = sig
    BY DEF sig
  <1>6. Joint(w, Handle(c, f, i), mod, L)
    BY <1>2, <1>3, <1>4, <1>5, StraightStep
  <1> QED
    BY <1>6 DEF w

(* Taking nothing. *)
LEMMA TookNone ==
    ASSUME NEW v, Above(v)
    PROVE  Took(v, v, <<>>, <<>>)
  <1>1. Len(v.stack) \in Nat /\ Limit(v) \in Nat /\ Limit(v) <= Len(v.stack) /\ v \in ValidatorStates
    BY LimitType DEF Above
  <1>2. Len(<<>>) = 0 /\ Limit(v) + 0 <= Len(v.stack) /\ Len(v.stack) = Len(v.stack) - 0 + 0
    BY <1>1
  <1> QED
    BY <1>1, <1>2 DEF Took

(* Pushing one value. *)
LEMMA TookPush ==
    ASSUME NEW v, Above(v), NEW w, NEW S, NEW in \in Seq(S), Took(v, w, in, <<>>), Known(w), Above(w), NEW t \in ValueTypes
    PROVE  LET x == push(w, t)
           IN  Took(v, x, in, <<t>>) /\ Known(x) /\ Above(x) /\ x.status = w.status
  <1>1. <<t>> \in Seq(ValueTypes) /\ t \in StackTypes
    BY DEF StackTypes
  <1>2. push(w, t) = pushAll(w, <<t>>)
    BY <1>1, PushIsPushAll
  <1> QED
    BY <1>1, <1>2, TookPushAll, Zenon

(* Setting a local changes no more than which are set. *)
LEMMA TookInit ==
    ASSUME NEW v, NEW w, NEW in, NEW out, Took(v, w, in, out), Known(w), Above(w), NEW f, NEW x \in Nat,
           markLocalInit(w, f, x).status = "ok"
    PROVE  LET y == markLocalInit(w, f, x)
           IN  Took(v, y, in, out) /\ Known(y) /\ Above(y) /\ w.status = "ok"
  <1> DEFINE y == markLocalInit(w, f, x)
  <1>0. w \in ValidatorStates
    BY DEF Above
  <1>1. y.stack = w.stack /\ y.cs = w.cs /\ y.limits = w.limits
    BY <1>0 DEF markLocalInit, ValidatorStates
  <1>2. Keeps(w, y)
    BY KeepsInit
  <1>3. Above(y) /\ w.status = "ok" /\ y \in ValidatorStates
    BY <1>2, KeepsAbove DEF Keeps
  <1> HIDE DEF y
  <1>4. Took(v, y, in, out) /\ Known(y)
    BY <1>1, <1>3 DEF Took, Known
  <1> QED
    BY <1>3, <1>4 DEF y

(* local.get, local.set and local.tee: validator and compiler stay joined. *)
LEMMA LocalStep ==
    ASSUME NEW v, NEW c, NEW mod, NEW L \in Nat, Joint(v, c, mod, L), ~ c.on,
           NEW f, DecodedFunction(f), NEW i, Decoded(i), i.op \in LocalOps, Validate(v, mod, f, i).status = "ok"
    PROVE  Joint(Validate(v, mod, f, i), Handle(c, f, i), mod, L)
  <1> DEFINE w == Validate(v, mod, f, i)
             t == LocalTypes(f)[i.x]
             sig == wasmOpcodeSignature(mod, f, i)
  <1>0. Above(v) /\ Known(v) /\ v.cs # <<>> /\ i.x \in Nat \ {0} /\ i.op \in StraightOps
    BY MatchLive, Zenon DEF Joint, Decoded, StraightOps
  <1>1. w = validateLocal(v, f, i)
    BY <1>0, Zenon DEF Validate, LocalOps
  <1>2. ~ (i.x > Len(LocalTypes(f)))
    BY <1>0, <1>1, KeepsFail DEF validateLocal
  <1>3. t \in ValueTypes
    <2>1. LocalTypes(f) \in Seq(ValueTypes)
      BY DEF LocalTypes, DecodedFunction
    <2> QED
      BY <1>0, <1>2, <2>1, LocalTypesType
  <1>4. StoredAlike(<<t>>, <<t>>) /\ StoredAlike(<<>>, <<>>)
    <2>1. <<t>> \in Seq(ValueTypes) /\ <<>> \in Seq(ValueTypes)
      BY <1>3
    <2> HIDE DEF t
    <2> QED
      BY <2>1, AlikeTypes, Zenon
  <1>5. /\ i.op = "local.get" => w = push(requireLocalInit(v, f, i.x), t) /\ sig.in = <<>> /\ sig.out = <<t>>
        /\ i.op = "local.set" => w = markLocalInit(popAndVerifyType(v, t), f, i.x) /\ sig.in = <<t>> /\ sig.out = <<>>
        /\ i.op = "local.tee" => w = markLocalInit(push(popAndVerifyType(v, t), t), f, i.x) /\ sig.in = <<t>> /\ sig.out = <<t>>
    BY <1>1, <1>2, Zenon DEF validateLocal, wasmOpcodeSignature, LocalOps, NumericOps, MemoryOps, GlobalOps, TableOps, BulkOps, AtomicOps, AtomicRMWOps,
              VectorOps, VectorMemoryOps, VectorLaneOps, VectorLogicOps, VectorArithmeticOps
  <1>6. w.status = "ok" /\ wasmOpcodeSignature(mod, f, i) = sig /\ t \in StackTypes
    BY <1>3 DEF StackTypes
  <1> HIDE DEF w, t, sig
  <1> DEFINE p == popAndVerifyType(v, t)
             q == push(p, t)
  <1>p. Above(p) /\ (p.status = "ok" => Took(v, p, <<t>>, <<>>) /\ Known(p))
    BY <1>0, <1>3, KeepsPopVerify, KeepsAbove, TookPopVerify
  <1> HIDE DEF p
  <1>q. Above(q) /\ q.status = p.status /\ (p.status = "ok" => Took(v, q, <<t>>, <<t>>) /\ Known(q))
    <2>1. Above(q) /\ q.status = p.status
      BY <1>6, <1>p, KeepsPush, KeepsAbove
    <2>2. ASSUME p.status = "ok" PROVE Took(v, q, <<t>>, <<t>>) /\ Known(q)
      <3>1. <<t>> \in Seq(ValueTypes)
        BY <1>3
      <3> QED
        BY <1>0, <1>3, <1>p, <2>2, <3>1, TookPush, Zenon
    <2> QED
      BY <2>1, <2>2
  <1> HIDE DEF q
  <1>7. CASE i.op = "local.get"
    <2> DEFINE r == requireLocalInit(v, f, i.x)
    <2>1. r \in {v, fail(v)}
      BY DEF requireLocalInit
    <2>2. w = push(r, t) /\ sig.in = <<>> /\ sig.out = <<t>>
      BY <1>5, <1>7
    <2> HIDE DEF r
    <2>3. Above(r) /\ fail(v).status # "ok"
      BY <1>0, <2>1, KeepsFail, KeepsAbove
    <2>4. push(r, t).status = r.status
      BY <1>6, <2>3, KeepsPush
    <2>5. r = v
      BY <1>6, <2>1, <2>2, <2>3, <2>4
    <2>6. Took(v, w, <<>>, <<t>>) /\ Known(w) /\ Above(w)
      <3>1. Took(v, v, <<>>, <<>>) /\ <<>> \in Seq(ValueTypes)
        BY <1>0, TookNone
      <3> QED
        BY <1>0, <1>3, <2>2, <2>5, <3>1, TookPush, Zenon
    <2> QED
      BY <1>0, <1>4, <1>6, <2>2, <2>6, StraightStep DEF w
  <1>8. CASE i.op = "local.set"
    <2>1. w = markLocalInit(p, f, i.x) /\ sig.in = <<t>> /\ sig.out = <<>>
      BY <1>5, <1>8 DEF p
    <2>2. Keeps(p, w)
      BY <1>0, <1>p, <2>1, KeepsInit
    <2>3. p.status = "ok"
      BY <1>6, <2>2 DEF Keeps
    <2>4. Took(v, w, <<t>>, <<>>) /\ Known(w) /\ Above(w)
      BY <1>0, <1>6, <1>p, <2>1, <2>3, TookInit
    <2> QED
      BY <1>0, <1>4, <1>6, <2>1, <2>4, StraightStep DEF w
  <1>9. CASE i.op = "local.tee"
    <2>1. w = markLocalInit(q, f, i.x) /\ sig.in = <<t>> /\ sig.out = <<t>>
      BY <1>5, <1>9 DEF p, q
    <2>2. Keeps(q, w)
      BY <1>0, <1>q, <2>1, KeepsInit
    <2>3. p.status = "ok"
      BY <1>6, <1>q, <2>2 DEF Keeps
    <2>4. Took(v, w, <<t>>, <<t>>) /\ Known(w) /\ Above(w)
      BY <1>0, <1>6, <1>q, <2>1, <2>3, TookInit
    <2> QED
      BY <1>0, <1>4, <1>6, <2>1, <2>4, StraightStep DEF w
  <1> QED
    BY <1>7, <1>8, <1>9 DEF LocalOps

(* Calls: the operand, then the parameters. *)
LEMMA TookCall ==
    ASSUME NEW v, Above(v), Known(v), NEW t \in ValueTypes, NEW type \in FuncTypes,
           validateCallSignature(popAndVerifyType(v, t), type).status = "ok"
    PROVE  LET w == validateCallSignature(popAndVerifyType(v, t), type)
           IN  Took(v, w, Append(type.params, t), type.results) /\ Known(w) /\ Above(w)
  <1> DEFINE p == popAndVerifyType(v, t)
             w == takes(p, type.params, type.results)
  <1>0. type.params \in Seq(ValueTypes) /\ type.results \in Seq(ValueTypes)
    BY DEF FuncTypes
  <1>1. validateCallSignature(p, type) = w
    BY DEF validateCallSignature, takes
  <1>2. Above(p)
    BY KeepsPopVerify, KeepsAbove
  <1>3. p.status = "ok"
    <2> HIDE DEF p
    <2>1. Keeps(p, w)
      BY <1>0, <1>2, KeepsTakes, ValueSeqs
    <2> QED
      BY <1>1, <2>1 DEF Keeps, p
  <1>4. Took(v, p, <<t>>, <<>>) /\ Known(p)
    BY <1>3, TookPopVerify
  <1>5. w.status = "ok"
    BY <1>1
  <1> HIDE DEF p
  <1>6. Took(p, w, type.params, type.results) /\ Known(w) /\ Above(w)
    BY <1>0, <1>2, <1>4, <1>5, TookTakes
  <1> HIDE DEF w
  <1>7. Took(v, w, Append(type.params, t), type.results)
    BY <1>0, <1>4, <1>6, TookThen
  <1> QED
    BY <1>1, <1>6, <1>7 DEF p, w

(* What a call takes and leaves, and that its signature says so. *)
LEMMA CallTook ==
    ASSUME NEW v, Above(v), Known(v), NEW mod, NEW f, NEW i, Decoded(i), i.op \in CallOps \cup TailCallOps,
           NEW p, p = (CASE i.op \in {"call", "return_call"} -> v
                         [] i.op \in {"call_indirect", "return_call_indirect"} -> popAndVerifyType(v, "i32")
                         [] i.op \in {"call_ref", "return_call_ref"} -> popAndVerifyType(v, "tref")),
           validateCallSignature(p, i.type).status = "ok"
    PROVE  LET w == validateCallSignature(p, i.type)
               sig == wasmOpcodeSignature(mod, f, i)
           IN  /\ Took(v, w, sig.in, sig.out) /\ Known(w) /\ Above(w)
               /\ sig.in \in Seq(ValueTypes) /\ sig.out \in Seq(ValueTypes)
  <1> DEFINE w == validateCallSignature(p, i.type)
             sig == wasmOpcodeSignature(mod, f, i)
             ps == i.type.params
             rs == i.type.results
  <1>0. ps \in Seq(ValueTypes) /\ rs \in Seq(ValueTypes) /\ i.type \in FuncTypes
    BY DEF Decoded, FuncTypes
  <1>1. "i32" \in ValueTypes /\ "tref" \in ValueTypes
    BY DEF ValueTypes, Nullable
  <1>2. CASE i.op \in {"call", "return_call"}
    <2>1. p = v /\ sig.in = ps /\ sig.out = rs
      BY <1>2 DEF wasmOpcodeSignature, RefOps, NumericOps, MemoryOps, GlobalOps, TableOps, BulkOps, AtomicOps, AtomicRMWOps,
              VectorOps, VectorMemoryOps, VectorLaneOps, VectorLogicOps, VectorArithmeticOps
    <2>2. w = takes(v, ps, rs)
      BY <2>1, Zenon DEF validateCallSignature, takes
    <2>3. w.status = "ok"
      BY Zenon
    <2> HIDE DEF w, sig, ps, rs
    <2>4. Took(v, w, ps, rs) /\ Known(w) /\ Above(w)
      BY <1>0, <2>2, <2>3, TookTakes
    <2> QED
      BY <1>0, <2>1, <2>4, Zenon DEF w, sig
  <1>3. CASE i.op \in {"call_indirect", "return_call_indirect"}
    <2>1. p = popAndVerifyType(v, "i32") /\ sig.in = Append(ps, "i32") /\ sig.out = rs
      BY <1>3, Zenon DEF wasmOpcodeSignature, RefOps, NumericOps, MemoryOps, GlobalOps, TableOps, BulkOps, AtomicOps, AtomicRMWOps,
              VectorOps, VectorMemoryOps, VectorLaneOps, VectorLogicOps, VectorArithmeticOps
    <2>2. Took(v, w, Append(ps, "i32"), rs) /\ Known(w) /\ Above(w)
      BY <1>0, <1>1, <2>1, TookCall, Zenon
    <2>3. Append(ps, "i32") \in Seq(ValueTypes)
      BY <1>0, <1>1
    <2> HIDE DEF w, sig, ps, rs
    <2> QED
      BY <1>0, <2>1, <2>2, <2>3, Zenon DEF w, sig
  <1>4. CASE i.op \in {"call_ref", "return_call_ref"}
    <2>1. p = popAndVerifyType(v, "tref") /\ sig.in = Append(ps, "tref") /\ sig.out = rs
      BY <1>4, Zenon DEF wasmOpcodeSignature, RefOps, NumericOps, MemoryOps, GlobalOps, TableOps, BulkOps, AtomicOps, AtomicRMWOps,
              VectorOps, VectorMemoryOps, VectorLaneOps, VectorLogicOps, VectorArithmeticOps
    <2>2. Took(v, w, Append(ps, "tref"), rs) /\ Known(w) /\ Above(w)
      BY <1>0, <1>1, <2>1, TookCall, Zenon
    <2>3. Append(ps, "tref") \in Seq(ValueTypes)
      BY <1>0, <1>1
    <2> HIDE DEF w, sig, ps, rs
    <2> QED
      BY <1>0, <2>1, <2>2, <2>3, Zenon DEF w, sig
  <1> QED
    BY <1>2, <1>3, <1>4 DEF CallOps, TailCallOps

(* Calls: validator and compiler stay joined. *)
LEMMA CallStep ==
    ASSUME NEW v, NEW c, NEW mod, NEW L \in Nat, Joint(v, c, mod, L), ~ c.on,
           NEW f, NEW i, Decoded(i), i.op \in CallOps, Validate(v, mod, f, i).status = "ok"
    PROVE  Joint(Validate(v, mod, f, i), Handle(c, f, i), mod, L)
  <1> DEFINE w == Validate(v, mod, f, i)
             sig == wasmOpcodeSignature(mod, f, i)
             p == CASE i.op \in {"call", "return_call"} -> v
                    [] i.op \in {"call_indirect", "return_call_indirect"} -> popAndVerifyType(v, "i32")
                    [] i.op \in {"call_ref", "return_call_ref"} -> popAndVerifyType(v, "tref")
  <1>0. Above(v) /\ Known(v) /\ v.cs # <<>> /\ i.op \in StraightOps
    BY MatchLive, Zenon DEF Joint, StraightOps
  <1>1. w = validateCall(v, f, i)
    BY <1>0, Zenon DEF Validate, CallOps
  <1>2. w = validateCallSignature(p, i.type)
    BY <1>1 DEF validateCall, CallOps
  <1>3. w.status = "ok"
    OBVIOUS
  <1> HIDE DEF w
  <1>4. /\ Took(v, w, sig.in, sig.out) /\ Known(w) /\ Above(w)
        /\ sig.in \in Seq(ValueTypes) /\ sig.out \in Seq(ValueTypes)
    BY <1>0, <1>2, <1>3, CallTook, Zenon
  <1>5. StoredAlike(sig.in, sig.in) /\ StoredAlike(sig.out, sig.out) /\ wasmOpcodeSignature(mod, f, i) = sig
    BY <1>4, AlikeTypes
  <1> HIDE DEF sig
  <1>6. Joint(w, Handle(c, f, i), mod, L)
    BY <1>0, <1>3, <1>4, <1>5, StraightStep
  <1> QED
    BY <1>6 DEF w

(* References. *)
LEMMA RefStep ==
    ASSUME NEW v, NEW c, NEW mod, NEW L \in Nat, Joint(v, c, mod, L), ~ c.on,
           NEW f, NEW i, Decoded(i), i.op \in RefOps, Validate(v, mod, f, i).status = "ok"
    PROVE  Joint(Validate(v, mod, f, i), Handle(c, f, i), mod, L)
  <1> DEFINE w == Validate(v, mod, f, i)
             sig == wasmOpcodeSignature(mod, f, i)
             p == tryPop(v)
             top == TopType(v)
             nn == AsNonNullable(TopType(v))
  <1>0. Above(v) /\ Known(v) /\ v.cs # <<>> /\ i.op \in StraightOps
    BY MatchLive, Zenon DEF Joint, StraightOps
  <1>1. w = validateRef(v, i)
    BY <1>0 DEF Validate, RefOps
  <1>2. w.status = "ok" /\ wasmOpcodeSignature(mod, f, i) = sig
    OBVIOUS
  <1>3. "tref" \in ValueTypes /\ "t" \in ValueTypes /\ "i32" \in ValueTypes /\ isReferenceValueType("t")
    BY DEF ValueTypes, Nullable, NonNullable, isReferenceValueType
  <1>4. /\ i.op = "ref.null" => w = push(v, i.t)
        /\ i.op = "ref.func" => w = push(v, "t")
        /\ i.op = "ref.as_non_null" => w = IF IsRefOperand(v) THEN push(p, nn) ELSE fail(v)
        /\ i.op = "ref.is_null" => w = IF IsRefOperand(v) THEN push(p, "i32") ELSE fail(v)
    BY <1>1 DEF validateRef
  <1>5. /\ i.op \in {"ref.null", "ref.func"} => sig.in = <<>> /\ sig.out = <<"tref">>
        /\ i.op = "ref.as_non_null" => sig.in = <<"tref">> /\ sig.out = <<"tref">>
        /\ i.op = "ref.is_null" => sig.in = <<"tref">> /\ sig.out = <<"i32">>
    BY Zenon DEF wasmOpcodeSignature, RefOps, NumericOps, MemoryOps, GlobalOps, TableOps, BulkOps, AtomicOps, AtomicRMWOps,
              VectorOps, VectorMemoryOps, VectorLaneOps, VectorLogicOps, VectorArithmeticOps
  <1> HIDE DEF w, sig
  <1>6. StoredAlike(<<>>, <<>>) /\ StoredAlike(<<"i32">>, <<"i32">>) /\ StoredAlike(<<"tref">>, <<"tref">>)
    <2>1. <<>> \in Seq(ValueTypes) /\ <<"i32">> \in Seq(ValueTypes) /\ <<"tref">> \in Seq(ValueTypes)
      BY <1>3
    <2> QED
      BY <2>1, AlikeTypes, Zenon
  <1>7. ASSUME NEW t, isReferenceValueType(t) PROVE t \in ValueTypes /\ StoredAlike(<<"tref">>, <<t>>)
    <2>1. U("tref") = U(t) /\ t \in ValueTypes
      BY <1>7, ReferencesAreWords, ReferencesAreTypes
    <2> QED
      BY <1>3, <2>1 DEF StoredAlike
  <1>8. ASSUME NEW t \in ValueTypes, w = push(v, t), sig.in = <<>>, StoredAlike(sig.out, <<t>>)
        PROVE  Joint(w, Handle(c, f, i), mod, L)
    <2>1. Took(v, v, <<>>, <<>>) /\ <<>> \in Seq(ValueTypes)
      BY <1>0, TookNone
    <2>2. Took(v, w, <<>>, <<t>>) /\ Known(w) /\ Above(w)
      BY <1>0, <1>8, <2>1, TookPush, Zenon
    <2> QED
      BY <1>0, <1>2, <1>6, <1>8, <2>2, StraightStep
  <1>9. ASSUME NEW t \in ValueTypes, w = push(p, t), IsRefOperand(v), sig.in = <<"tref">>, StoredAlike(sig.out, <<t>>)
        PROVE  Joint(w, Handle(c, f, i), mod, L)
    <2>1. ~ Empty(v) /\ isReferenceValueType(TopType(v))
      BY <1>0, <1>9, TopKnown DEF IsRefOperand
    <2>2. U("tref") = U(TopType(v))
      BY <2>1, ReferencesAreWords
    <2>3. Above(p) /\ t \in StackTypes
      BY <1>0, KeepsTryPop, KeepsAbove DEF StackTypes
    <2>4. p.status = "ok"
      <3> HIDE DEF p
      <3>1. push(p, t).status = p.status
        BY <2>3, KeepsPush
      <3> QED
        BY <1>2, <1>9, <3>1
    <2>5. Took(v, p, <<"tref">>, <<>>) /\ Known(p)
      BY <1>0, <2>2, <2>4, TookTryPop
    <2> HIDE DEF p
    <2>6. <<"tref">> \in Seq(ValueTypes)
      BY <1>3
    <2>7. Took(v, w, <<"tref">>, <<t>>) /\ Known(w) /\ Above(w)
      BY <1>0, <1>9, <2>3, <2>5, <2>6, TookPush, Zenon
    <2> QED
      BY <1>0, <1>2, <1>6, <1>9, <2>7, StraightStep
  <1>10. fail(v).status # "ok"
    BY <1>0, KeepsFail
  <1>11. CASE i.op = "ref.null"
    <2>1. isReferenceValueType(i.t)
      BY <1>11 DEF Decoded
    <2> QED
      BY <1>4, <1>5, <1>7, <1>8, <1>11, <2>1, Zenon DEF w
  <1>12. CASE i.op = "ref.func"
    BY <1>3, <1>4, <1>5, <1>7, <1>8, <1>12, Zenon DEF w
  <1>13. CASE i.op = "ref.as_non_null"
    <2>1. IsRefOperand(v) /\ w = push(p, nn)
      BY <1>2, <1>4, <1>10, <1>13
    <2>2. ~ Empty(v) /\ isReferenceValueType(TopType(v))
      BY <1>0, <2>1, TopKnown DEF IsRefOperand
    <2>3. isReferenceValueType(nn)
      BY <2>2 DEF AsNonNullable, isReferenceValueType, NonNullable, Nullable
    <2>4. nn \in ValueTypes /\ StoredAlike(sig.out, <<nn>>) /\ sig.in = <<"tref">>
      BY <1>5, <1>7, <1>13, <2>3
    <2> HIDE DEF nn
    <2> QED
      BY <1>9, <2>1, <2>4 DEF w
  <1>14. CASE i.op = "ref.is_null"
    <2>1. IsRefOperand(v) /\ w = push(p, "i32")
      BY <1>2, <1>4, <1>10, <1>14
    <2> QED
      BY <1>3, <1>5, <1>6, <1>9, <1>14, <2>1 DEF w
  <1> QED
    BY <1>11, <1>12, <1>13, <1>14 DEF RefOps

(* drop and select find the type on the stack. *)
LEMMA JointReplaced ==
    ASSUME NEW v, NEW c, NEW mod, NEW L \in Nat, Joint(v, c, mod, L), ~ c.on,
           NEW w, Above(w), Known(w), w.status = "ok", NEW in \in Seq(ValueTypes), NEW out \in Seq(ValueTypes), Took(v, w, in, out),
           NEW e, SameFrames(c, e), e.ops = c.ops, Replaces(c, e, in, out)
    PROVE  Joint(w, e, mod, L)
  <1>0. /\ Agrees(v, c, L) /\ Above(v) /\ CompilerState(c) /\ c.mod = mod /\ c.err = FALSE /\ Matched(v, c, mod, L)
    BY MatchLive, Zenon DEF Joint
  <1>1. Agrees(w, e, L)
    BY <1>0, AgreesTook
  <1>2. Matched(w, e, mod, L)
    <2>1. w.cs = v.cs /\ w.limits = v.limits
      BY DEF Took
    <2>2. CompilerState(e) /\ e.err = FALSE /\ e.mod = mod /\ e.depth = c.depth /\ ~ e.on /\ e.frames = c.frames
      BY <1>0 DEF SameFrames
    <2>3. Alike(c.frames, e.frames)
      BY <1>0, <2>2, AlikeSelf
    <2> QED
      BY <1>0, <1>1, <2>1, <2>2, <2>3, MatchNext, Zenon
  <1>3. More(c, e)
    BY MoreSame DEF SameFrames
  <1>4. LabelsFound(e)
    BY <1>3, LabelsMore DEF Joint, SameFrames
  <1> QED
    BY <1>2, <1>4 DEF Joint

(* The signatures of the operators whose operand types the validator finds on its stack. *)
LEMMA OtherSignatures ==
    ASSUME NEW mod, NEW f, NEW i
    PROVE  LET sig == wasmOpcodeSignature(mod, f, i)
           IN  /\ i.op = "drop" => sig.in = <<"unknown">> /\ sig.out = <<>>
               /\ i.op \in {"select", "typed_select"} => sig.in = <<"unknown", "unknown", "i32">> /\ sig.out = <<"unknown">>
               /\ i.op \in {"if", "br_if", "br_table"} => sig.in = <<"i32">> /\ sig.out = <<>>
               /\ i.op \in {"br_on_null", "br_on_non_null"} => sig.in = <<"tref">> /\ sig.out = <<>>
               /\ i.op \in {"unreachable", "br", "return", "throw", "throw_ref", "block", "loop", "else", "end", "try_table"} =>
                    sig.in = <<>> /\ sig.out = <<>>
  BY Zenon DEF wasmOpcodeSignature, NumericOps, MemoryOps, GlobalOps, TableOps, BulkOps, AtomicOps, AtomicRMWOps,
         VectorOps, VectorMemoryOps, VectorLaneOps, VectorLogicOps, VectorArithmeticOps

Pushed(c, d, ts) ==
    /\ SameFrames(c, d) /\ d.ops = c.ops
    /\ Len(d.stack) = Len(c.stack) + Len(ts)
    /\ \A k \in 1 .. Len(c.stack) : d.stack[k] = c.stack[k]
    /\ \A k \in 1 .. Len(ts) : d.stack[Len(c.stack) + k] = U(ts[k])

(* stackPush, as the relation Pushed. *)
LEMMA PushIs ==
    ASSUME NEW c, CompilerState(c), NEW ts, IsSeq(ts)
    PROVE  Pushed(c, stackPush(c, ts), ts)
  BY PushFacts DEF Pushed

(* applyToStack on a signature with unknown operands, when the stack holds the types the validator found. *)
LEMMA ApplyUnknown ==
    ASSUME NEW c, CompilerState(c), ~ c.on, NEW f, NEW i, NEW sig,
           wasmOpcodeSignature(c.mod, f, i) = sig, IsSeq(sig.in), IsSeq(sig.out),
           NEW in \in Seq(ValueTypes), NEW out \in Seq(ValueTypes),
           Len(sig.in) = Len(in), Len(sig.out) = Len(out), Len(in) <= Len(c.stack), 1 <= Len(in),
           \A k \in 1 .. Len(in) : U(in[k]) = c.stack[Len(c.stack) - Len(in) + k],
           \A k \in 1 .. Len(in) : sig.in[k] # "unknown" => U(sig.in[k]) = U(in[k]),
           \A j, k \in 1 .. Len(in) : sig.in[j] = "unknown" /\ sig.in[k] = "unknown" => U(in[j]) = U(in[k]),
           \A k \in 1 .. Len(out) : U(IF sig.out[k] = "unknown" THEN U(in[1]) ELSE sig.out[k]) = U(out[k])
    PROVE  LET d == applyToStack(c, f, i)
           IN  SameFrames(c, d) /\ d.ops = c.ops /\ Replaces(c, d, in, out)
  <1> DEFINE n == Len(sig.in)
             s == c.stack
             L == Len(s)
             taken == LastOf(s, n)
             fits == /\ n <= Len(c.stack)
                     /\ \A k \in 1..n : sig.in[k] # "unknown" => Unsigned(sig.in)[k] = taken[k]
                     /\ \A j, k \in 1..n :
                          sig.in[j] = "unknown" /\ sig.in[k] = "unknown" => taken[j] = taken[k]
             found(t) == IF t = "unknown" THEN taken[1] ELSE t
             os == [k \in DOMAIN sig.out |-> found(sig.out[k])]
             b == [c EXCEPT !.stack = ButLast(s, n)]
             d == stackPush(b, os)
  <1>0. /\ n \in Nat /\ L \in Nat /\ IsSeq(s) /\ n <= L /\ DOMAIN sig.in = 1 .. n /\ n = Len(in) /\ 1 \in 1 .. n
        /\ DOMAIN sig.out = 1 .. Len(out) /\ Len(out) \in Nat
    BY SeqHas DEF CompilerState
  <1>3. \A k \in 1 .. n : Unsigned(sig.in)[k] = U(sig.in[k])
    BY <1>0 DEF Unsigned, U
  <1>4. \A k \in 1 .. n : taken[k] = U(in[k])
    <2> SUFFICES ASSUME NEW k \in 1 .. n PROVE LastOf(s, n)[k] = U(in[k])
      OBVIOUS
    <2>0. U(in[k]) = s[L - n + k]
      BY <1>0
    <2>1. PICK S : s \in Seq(S)
      BY <1>0 DEF IsSeq
    <2>2. k \in 1 .. (L + 1 - (L - n + 1)) /\ L - n + 1 \in Nat /\ (L - n + 1) + k - 1 = L - n + k
      BY <1>0
    <2> HIDE DEF s, n
    <2>3. SubSeq(s, L - n + 1, L)[k] = s[(L - n + 1) + k - 1]
      BY <1>0, <2>1, <2>2
    <2> QED
      BY <2>0, <2>2, <2>3 DEF LastOf
  <1> HIDE DEF taken
  <1>5. fits
    <2>1. ASSUME NEW k \in 1 .. n, sig.in[k] # "unknown" PROVE Unsigned(sig.in)[k] = taken[k]
      BY <1>0, <1>3, <1>4, <2>1
    <2>2. ASSUME NEW j \in 1 .. n, NEW k \in 1 .. n, sig.in[j] = "unknown" /\ sig.in[k] = "unknown" PROVE taken[j] = taken[k]
      BY <1>0, <1>4, <2>2
    <2> QED
      BY <2>1, <2>2
  <1>6. applyToStack(c, f, i) = d
    BY <1>5 DEF applyToStack, taken
  <1>7. IsSeq(os) /\ Len(os) = Len(out) /\ \A k \in 1 .. Len(out) : U(os[k]) = U(out[k])
    <2>1. os \in [1 .. Len(out) -> {found(sig.out[k]) : k \in 1 .. Len(out)}]
      BY <1>0
    <2>2. \A k \in 1 .. Len(out) : U(os[k]) = U(out[k])
      BY <1>0, <1>4
    <2> HIDE DEF os
    <2> QED
      BY <1>0, <2>1, <2>2, FunIs, Zenon
  <1>8. IsSeq(ButLast(s, n)) /\ Len(ButLast(s, n)) = L - n /\ \A k \in 1 .. L - n : ButLast(s, n)[k] = s[k]
    <2> HIDE DEF s, n
    <2>1. L - n \in Nat /\ L - n <= Len(s)
      BY <1>0
    <2> QED
      BY <1>0, <2>1, PrefixIs DEF ButLast
  <1> HIDE DEF fits
  <1>9. SameFrames(c, b) /\ b.stack = ButLast(s, n) /\ b.ops = c.ops
    BY <1>8, StackFacts
  <1> HIDE DEF b, os
  <1>11. /\ SameFrames(b, d) /\ d.ops = b.ops
         /\ Len(d.stack) = Len(b.stack) + Len(os)
         /\ \A k \in 1 .. Len(b.stack) : d.stack[k] = b.stack[k]
         /\ \A k \in 1 .. Len(os) : d.stack[Len(b.stack) + k] = U(os[k])
    <2>1. CompilerState(b) /\ d = stackPush(b, os)
      BY <1>9 DEF SameFrames
    <2>2. IsSeq(os)
      BY <1>7
    <2> HIDE DEF d
    <2>3. Pushed(b, d, os)
      BY <2>1, <2>2, PushIs
    <2> QED
      BY <2>3 DEF Pushed
  <1> HIDE DEF d
  <1>12. SameFrames(c, d)
    BY <1>9, <1>11 DEF SameFrames
  <1>13. Replaces(c, d, in, out)
    <2>1. Len(b.stack) = Len(c.stack) - Len(in) /\ \A k \in 1 .. Len(b.stack) : b.stack[k] = c.stack[k]
      BY <1>0, <1>8, <1>9
    <2> DEFINE m == Len(b.stack)
    <2> HIDE DEF m
    <2>2. /\ m = Len(c.stack) - Len(in) /\ Len(d.stack) = m + Len(out)
          /\ \A k \in 1 .. m : d.stack[k] = c.stack[k]
          /\ \A k \in 1 .. Len(out) : d.stack[m + k] = U(out[k])
      BY <1>7, <1>11, <2>1 DEF m
    <2> QED
      BY <2>2 DEF Replaces
  <1> QED
    BY <1>6, <1>9, <1>11, <1>12, <1>13

(* drop: validator and compiler stay joined. *)
LEMMA DropStep ==
    ASSUME NEW v, NEW c, NEW mod, NEW L \in Nat, Joint(v, c, mod, L), ~ c.on,
           NEW f, NEW i, i.op = "drop", Validate(v, mod, f, i).status = "ok"
    PROVE  Joint(Validate(v, mod, f, i), Handle(c, f, i), mod, L)
  <1> DEFINE w == tryPop(v)
             t == TopType(v)
             in == <<t>>
             sig == wasmOpcodeSignature(mod, f, i)
             e == applyToStack(c, f, i)
  <1>0. Above(v) /\ Known(v) /\ v.cs # <<>> /\ Agrees(v, c, L) /\ CompilerState(c) /\ c.mod = mod
    BY MatchLive, Zenon DEF Joint
  <1>1. Validate(v, mod, f, i) = w
    BY <1>0 DEF Validate
  <1>2. Took(v, w, in, <<>>) /\ Known(w) /\ Above(w) /\ ~ Empty(v) /\ w.status = "ok"
    BY <1>0, <1>1, TookTryPop
  <1>3. t \in ValueTypes /\ in \in Seq(ValueTypes) /\ <<>> \in Seq(ValueTypes)
    BY <1>0, <1>2, TopKnown
  <1>4. sig.in = <<"unknown">> /\ sig.out = <<>>
    BY OtherSignatures
  <1> HIDE DEF w, t
  <1>5. /\ Len(in) <= Len(c.stack)
        /\ \A k \in 1 .. Len(in) : U(in[k]) = c.stack[Len(c.stack) - Len(in) + k]
    <2> DEFINE out == <<>>
    <2>1. Took(v, w, in, out)
      BY <1>2
    <2> HIDE DEF in, out
    <2>2. /\ Len(in) \in Nat /\ Len(in) <= Len(c.stack)
          /\ \A k \in 1 .. Len(in) : U(in[k]) = c.stack[Len(c.stack) - Len(in) + k]
      BY <1>0, <1>3, <2>1, AgreesIn
    <2> QED
      BY <2>2
  <1>6. SameFrames(c, e) /\ e.ops = c.ops /\ Replaces(c, e, in, <<>>)
    <2>1. /\ IsSeq(sig.in) /\ IsSeq(sig.out) /\ Len(sig.in) = Len(in) /\ Len(sig.out) = Len(<<>>) /\ 1 <= Len(in)
          /\ \A k \in 1 .. Len(in) : sig.in[k] = "unknown"
          /\ \A j, k \in 1 .. Len(in) : U(in[j]) = U(in[k])
          /\ \A k \in 1 .. Len(<<>>) : FALSE
      <3>1. <<"unknown">> \in Seq({"unknown"}) /\ <<>> \in Seq({"unknown"})
        OBVIOUS
      <3>2. IsSeq(sig.in) /\ IsSeq(sig.out)
        BY <1>4, <3>1, SeqIs, Zenon
      <3> QED
        BY <1>4, <3>2
    <2> HIDE DEF sig, in
    <2>2. wasmOpcodeSignature(mod, f, i) = sig
      BY DEF sig
    <2> QED
      BY <1>0, <1>3, <1>5, <2>1, <2>2, ApplyUnknown, Zenon
  <1> HIDE DEF e, in
  <1>7. Joint(w, e, mod, L)
    BY <1>2, <1>3, <1>6, JointReplaced, Zenon
  <1>8. CompilerState(e) /\ e.err = FALSE /\ i.op \in StraightOps
    BY <1>7 DEF Joint, Matched, StraightOps
  <1>9. SameStack(e, Handle(c, f, i)) /\ More(e, Handle(c, f, i))
    BY <1>8, HandleStraight, Zenon DEF e
  <1> QED
    BY <1>1, <1>7, <1>9, JointSame

(* Short sequences written as tuples. *)
LEMMA AppendFew ==
    ASSUME NEW a, NEW b, NEW e
    PROVE  Append(<<a>>, b) = <<a, b>> /\ Append(<<a, b>>, e) = <<a, b, e>>
  <1> DEFINE S == {a, b, e}
             s == Append(<<a>>, b)
             t == Append(<<a, b>>, e)
  <1>1. <<a>> \in Seq(S) /\ <<a, b>> \in Seq(S) /\ <<a, b, e>> \in Seq(S)
    OBVIOUS
  <1>2. IsSeq(<<a>>) /\ IsSeq(<<a, b>>) /\ IsSeq(<<a, b, e>>)
    BY <1>1, SeqIs, Zenon
  <1>3. IsSeq(s) /\ Len(s) = 2 /\ s[1] = a /\ s[2] = b
    <2> DEFINE r == <<a>>
    <2>0. IsSeq(r) /\ s = Append(r, b)
      BY <1>2
    <2>1. Len(r) = 1 /\ r[1] = a
      OBVIOUS
    <2> HIDE DEF r, s
    <2>2. 1 \in 1 .. Len(r) /\ Len(r) + 1 = 2
      BY <2>1
    <2>3. /\ IsSeq(s) /\ Len(s) = Len(r) + 1
          /\ \A k \in 1 .. Len(r) : s[k] = r[k]
          /\ s[Len(r) + 1] = b
      BY <2>0, AppendIs
    <2> QED
      BY <2>1, <2>2, <2>3
  <1>4. IsSeq(t) /\ Len(t) = 3 /\ t[1] = a /\ t[2] = b /\ t[3] = e
    <2> DEFINE r == <<a, b>>
    <2>0. IsSeq(r) /\ t = Append(r, e)
      BY <1>2
    <2>1. Len(r) = 2 /\ r[1] = a /\ r[2] = b
      OBVIOUS
    <2> HIDE DEF r, t
    <2>2. 1 \in 1 .. Len(r) /\ 2 \in 1 .. Len(r) /\ Len(r) + 1 = 3
      BY <2>1
    <2>3. /\ IsSeq(t) /\ Len(t) = Len(r) + 1
          /\ \A k \in 1 .. Len(r) : t[k] = r[k]
          /\ t[Len(r) + 1] = e
      BY <2>0, AppendIs
    <2> QED
      BY <2>1, <2>2, <2>3
  <1> HIDE DEF s, t
  <1>5. s = <<a, b>>
    <2>1. Len(<<a, b>>) = 2 /\ \A k \in 1 .. 2 : k = 1 \/ k = 2
      OBVIOUS
    <2>2. \A k \in 1 .. Len(s) : s[k] = <<a, b>>[k]
      BY <1>3, <2>1
    <2> QED
      BY <1>2, <1>3, <2>1, <2>2, IsSeqEqual, Zenon
  <1>6. t = <<a, b, e>>
    <2>1. Len(<<a, b, e>>) = 3 /\ \A k \in 1 .. 3 : k = 1 \/ k = 2 \/ k = 3
      OBVIOUS
    <2>2. \A k \in 1 .. Len(t) : t[k] = <<a, b, e>>[k]
      BY <1>4, <2>1
    <2> QED
      BY <1>2, <1>4, <2>1, <2>2, IsSeqEqual
  <1> QED
    BY <1>5, <1>6 DEF s, t

(* The two operands of a select are stored alike. *)
LEMMA SelectTook ==
    ASSUME NEW v, Above(v), Known(v), NEW i, validateSelect(v, i).status = "ok"
    PROVE  \E a \in ValueTypes, b \in ValueTypes, t \in ValueTypes :
             LET w == validateSelect(v, i)
             IN  /\ Took(v, w, <<a, b, "i32">>, <<t>>) /\ Known(w) /\ Above(w)
                 /\ U(a) = U(b) /\ U(t) = U(a)
  <1> DEFINE w == popAndVerifyType(v, "i32")
             b == TopType(w)
             x == tryPop(w)
             a == TopType(x)
             y == tryPop(x)
             t == IF b = "unknown" \/ (a # "unknown" /\ isRefSubtypeOf(b, a)) THEN a ELSE b
             z == push(y, t)
  <1>0. fail(v).status # "ok" /\ "i32" \in ValueTypes
    BY KeepsFail DEF ValueTypes
  <1>1. /\ w.status = "ok" /\ ~ Empty(w) /\ ~ Empty(x)
        /\ b # "unknown" /\ a # "unknown" => areRefTypesCompatible(b, a)
        /\ validateSelect(v, i) = z
    BY <1>0 DEF validateSelect
  <1>2. Took(v, w, <<"i32">>, <<>>) /\ Known(w) /\ Above(w)
    BY <1>0, <1>1, TookPopVerify
  <1>z. z.status = "ok"
    BY <1>1
  <1> HIDE DEF w
  <1>3. b \in ValueTypes /\ b # "unknown"
    BY <1>1, <1>2, TopKnown
  <1>4. Above(x)
    BY <1>2, KeepsTryPop, KeepsAbove
  <1> HIDE DEF x
  <1>5. Above(y)
    BY <1>4, KeepsTryPop, KeepsAbove
  <1>6. a \in StackTypes
    BY <1>1, <1>4, TopTypeType
  <1>7. t \in StackTypes
    BY <1>3, <1>6 DEF StackTypes
  <1> HIDE DEF y, t, z
  <1>8. y.status = "ok"
    <2>1. z.status = y.status
      BY <1>5, <1>7, KeepsPush DEF z
    <2> QED
      BY <1>z, <2>1
  <1>9. x.status = "ok"
    <2>1. Keeps(x, y)
      BY <1>4, KeepsTryPop DEF y
    <2> QED
      BY <1>8, <2>1 DEF Keeps
  <1>10. Took(w, x, <<b>>, <<>>) /\ Known(x)
    BY <1>2, <1>9, TookTryPop DEF x
  <1>11. a \in ValueTypes /\ a # "unknown"
    BY <1>1, <1>4, <1>10, TopKnown
  <1>12. Took(x, y, <<a>>, <<>>) /\ Known(y)
    BY <1>4, <1>8, <1>10, TookTryPop DEF y
  <1> HIDE DEF a, b
  <1>13. U(a) = U(b) /\ t \in {a, b}
    <2>1. areRefTypesCompatible(b, a)
      BY <1>1, <1>3, <1>11
    <2> QED
      BY <2>1, SubtypesAreStoredAlike DEF areRefTypesCompatible, t
  <1>14. t \in ValueTypes /\ U(t) = U(a)
    BY <1>3, <1>11, <1>13
  <1>15. Took(x, z, <<a>>, <<t>>) /\ Known(z) /\ Above(z)
    <2>1. <<a>> \in Seq(ValueTypes)
      BY <1>11
    <2> QED
      BY <1>4, <1>5, <1>12, <1>14, <2>1, TookPush, Zenon DEF z
  <1>16. Took(w, z, <<a, b>>, <<t>>)
    <2>1. <<a>> \in Seq(ValueTypes) /\ <<t>> \in Seq(ValueTypes)
      BY <1>11, <1>14
    <2>2. Took(w, z, Append(<<a>>, b), <<t>>)
      BY <1>2, <1>10, <1>15, <2>1, TookThen, Zenon
    <2>3. Append(<<a>>, b) = <<a, b>>
      BY AppendFew, Zenon
    <2> QED
      BY <2>2, <2>3, Zenon
  <1>17. Took(v, z, <<a, b, "i32">>, <<t>>)
    <2>1. <<a, b>> \in Seq(ValueTypes) /\ <<t>> \in Seq(ValueTypes)
      BY <1>3, <1>11, <1>14
    <2>2. Took(v, z, Append(<<a, b>>, "i32"), <<t>>)
      BY <1>2, <1>16, <2>1, TookThen, Zenon
    <2>3. Append(<<a, b>>, "i32") = <<a, b, "i32">>
      BY AppendFew, Zenon
    <2> QED
      BY <2>2, <2>3, Zenon
  <1> QED
    BY <1>1, <1>3, <1>11, <1>13, <1>14, <1>15, <1>17

(* The unsigned type of an unsigned type is itself. *)
LEMMA StoredTwice ==
    ASSUME NEW t \in ValueTypes
    PROVE  U(U(t)) = U(t)
  BY DEF U, wasmValueTypeTounsignedType, isReferenceValueType, ValueTypes, NonNullable, Nullable

(* select: validator and compiler stay joined. *)
LEMMA SelectStep ==
    ASSUME NEW v, NEW c, NEW mod, NEW L \in Nat, Joint(v, c, mod, L), ~ c.on,
           NEW f, NEW i, i.op \in {"select", "typed_select"}, Validate(v, mod, f, i).status = "ok"
    PROVE  Joint(Validate(v, mod, f, i), Handle(c, f, i), mod, L)
  <1> DEFINE w == validateSelect(v, i)
             sig == wasmOpcodeSignature(mod, f, i)
             e == applyToStack(c, f, i)
  <1>0. Above(v) /\ Known(v) /\ v.cs # <<>> /\ Agrees(v, c, L) /\ CompilerState(c) /\ c.mod = mod
    BY MatchLive, Zenon DEF Joint
  <1>1. Validate(v, mod, f, i) = w
    BY <1>0, Zenon DEF Validate
  <1>2. w.status = "ok"
    BY <1>1
  <1>3. PICK a \in ValueTypes, b \in ValueTypes, t \in ValueTypes :
               /\ Took(v, w, <<a, b, "i32">>, <<t>>) /\ Known(w) /\ Above(w)
               /\ U(a) = U(b) /\ U(t) = U(a)
    BY <1>0, <1>2, SelectTook, Zenon
  <1> DEFINE in == <<a, b, "i32">>
             out == <<t>>
  <1>4. sig.in = <<"unknown", "unknown", "i32">> /\ sig.out = <<"unknown">>
    BY OtherSignatures
  <1>5. in \in Seq(ValueTypes) /\ out \in Seq(ValueTypes)
    <2>1. "i32" \in ValueTypes
      BY DEF ValueTypes
    <2> QED
      BY <2>1
  <1> HIDE DEF w
  <1>6. /\ Len(in) <= Len(c.stack)
        /\ \A k \in 1 .. Len(in) : U(in[k]) = c.stack[Len(c.stack) - Len(in) + k]
    <2>1. Took(v, w, in, out)
      BY <1>3
    <2> HIDE DEF in, out
    <2>2. /\ Len(in) \in Nat /\ Len(in) <= Len(c.stack)
          /\ \A k \in 1 .. Len(in) : U(in[k]) = c.stack[Len(c.stack) - Len(in) + k]
      BY <1>0, <1>5, <2>1, AgreesIn
    <2> QED
      BY <2>2
  <1>7. SameFrames(c, e) /\ e.ops = c.ops /\ Replaces(c, e, in, out)
    <2>1. IsSeq(sig.in) /\ IsSeq(sig.out)
      <3>1. <<"unknown", "unknown", "i32">> \in Seq({"unknown", "i32"}) /\ <<"unknown">> \in Seq({"unknown"})
        OBVIOUS
      <3> QED
        BY <1>4, <3>1, SeqIs, Zenon
    <2>2. /\ Len(sig.in) = Len(in) /\ Len(sig.out) = Len(out) /\ 1 <= Len(in)
          /\ \A k \in 1 .. Len(in) : sig.in[k] # "unknown" => U(sig.in[k]) = U(in[k])
          /\ \A j, k \in 1 .. Len(in) : sig.in[j] = "unknown" /\ sig.in[k] = "unknown" => U(in[j]) = U(in[k])
      <3>1. Len(in) = 3 /\ in[1] = a /\ in[2] = b /\ in[3] = "i32" /\ Len(sig.in) = 3 /\ Len(sig.out) = 1 /\ Len(out) = 1
            /\ sig.in[1] = "unknown" /\ sig.in[2] = "unknown" /\ sig.in[3] = "i32"
        BY <1>4
      <3>2. \A k \in 1 .. 3 : k = 1 \/ k = 2 \/ k = 3
        OBVIOUS
      <3> HIDE DEF in, sig, out
      <3> QED
        BY <1>3, <3>1, <3>2
    <2>3. \A k \in 1 .. Len(out) : U(IF sig.out[k] = "unknown" THEN U(in[1]) ELSE sig.out[k]) = U(out[k])
      <3>1. Len(out) = 1 /\ out[1] = t /\ sig.out[1] = "unknown" /\ in[1] = a
        BY <1>4
      <3>2. U(U(a)) = U(t)
        BY <1>3, StoredTwice
      <3>3. \A k \in 1 .. 1 : k = 1
        OBVIOUS
      <3> HIDE DEF in, sig, out
      <3> QED
        BY <3>1, <3>2, <3>3
    <2> HIDE DEF sig, in, out
    <2>4. wasmOpcodeSignature(mod, f, i) = sig
      BY DEF sig
    <2> QED
      BY <1>0, <1>5, <1>6, <2>1, <2>2, <2>3, <2>4, ApplyUnknown, Zenon
  <1>8. Took(v, w, in, out)
    BY <1>3
  <1> HIDE DEF e, in, out
  <1>9. Joint(w, e, mod, L)
    BY <1>2, <1>3, <1>5, <1>7, <1>8, JointReplaced
  <1>10. CompilerState(e) /\ e.err = FALSE /\ i.op \in StraightOps
    BY <1>9 DEF Joint, Matched, StraightOps
  <1>11. SameStack(e, Handle(c, f, i)) /\ More(e, Handle(c, f, i))
    BY <1>10, HandleStraight, Zenon DEF e
  <1> QED
    BY <1>1, <1>9, <1>11, JointSame

-----------------------------------------------------------------------------
(* In code that cannot be reached only blocks count. *)
LEMMA HandleOff ==
    ASSUME NEW c, c.on, c.err = FALSE, NEW f, NEW i, Decoded(i), i.op \notin BlockOps
    PROVE  Handle(c, f, i) \in {c, [c EXCEPT !.on = TRUE]}
  <1> DEFINE d == Handle(c, f, i)
             e == [c EXCEPT !.on = TRUE]
  <1>1. \A op : emit(c, op) = c
    BY DEF emit
  <1>2. applyToStack(c, f, i) = c
    BY DEF applyToStack
  <1>3. HandledAs(c, f, i, c, d)
    BY <1>2, HandleForm, Zenon
  <1>4. ReturnFrom(c) = c /\ \A x : emitOperation(c, x) = c
    BY <1>1 DEF ReturnFrom, emitBr, emitDrop, emitOperation
  <1>5. markUnreachable(c) = e
    BY DEF markUnreachable
  <1> HIDE DEF d, e
  <1>6. ASSUME i.op \in {"nop", "unreachable", "const", "drop", "select", "typed_select"} PROVE d \in {c, e}
    BY <1>1, <1>3, <1>5, <1>6 DEF HandledAs, emitDrop
  <1>7. ASSUME i.op \in LocalOps PROVE d \in {c, e}
    <2>1. d = compileLocal(c, f, i)
      BY <1>3, <1>7 DEF HandledAs
    <2> QED
      BY <1>1, <1>7, <2>1 DEF compileLocal, LocalOps
  <1>8. ASSUME i.op \in {"br", "br_table", "return", "throw", "throw_ref"} \cup BrIfOps PROVE d \in {c, e}
    <2>1. compileBr(c, i) = c /\ compileBrIf(c, i) = c /\ compileBrTable(c, i) = c /\ compileThrow(c, i) = c /\ compileReturn(c) = e
      BY <1>4, <1>5 DEF compileBr, compileBrIf, compileBrTable, compileThrow, compileReturn
    <2> QED
      BY <1>3, <1>8, <2>1 DEF HandledAs
  <1>9. ASSUME i.op \in CallOps \cup TailCallOps PROVE d \in {c, e}
    <2>1. d = compileCall(c, i)
      BY <1>3, <1>9 DEF HandledAs
    <2> QED
      BY <1>1, <1>4, <1>5, <1>9, <2>1 DEF compileCall, CallOps, TailCallOps
  <1>10. ASSUME i.op \in RefOps PROVE d \in {c, e}
    BY <1>1, <1>3, <1>4, <1>10 DEF HandledAs, RefOps, compileRefIsNull
  <1>11. ASSUME i.op \in PlainOps \ {"nop", "const"} PROVE d \in {c, e}
    BY <1>3, <1>4, <1>11 DEF HandledAs
  <1>12. \/ i.op \in {"nop", "unreachable", "const", "drop", "select", "typed_select"} \/ i.op \in LocalOps
         \/ i.op \in {"br", "br_table", "return", "throw", "throw_ref"} \cup BrIfOps
         \/ i.op \in CallOps \cup TailCallOps \/ i.op \in RefOps \/ i.op \in PlainOps \ {"nop", "const"}
    BY DEF Decoded, Opcodes, PlainOps
  <1> QED
    BY <1>6, <1>7, <1>8, <1>9, <1>10, <1>11, <1>12 DEF d, e

(* In unreachable code the compiler ignores what the validator accepts. *)
LEMMA OffStep ==
    ASSUME NEW v, NEW c, NEW mod, DecodedModule(mod), NEW L \in Nat, Joint(v, c, mod, L), c.on,
           NEW f, DecodedFunction(f), NEW i, Decoded(i), i.op \notin BlockOps, Validate(v, mod, f, i).status = "ok"
    PROVE  Joint(Validate(v, mod, f, i), Handle(c, f, i), mod, L)
  <1> DEFINE w == Validate(v, mod, f, i)
             d == Handle(c, f, i)
             e == [c EXCEPT !.on = TRUE]
  <1>0. /\ Nested(v) /\ CompilerState(c) /\ c.err = FALSE /\ c.mod = mod /\ c.on = TRUE /\ SameOperands(v, c, L)
        /\ Above(v) /\ v.cs # <<>> /\ LabelsFound(c) /\ Matched(v, c, mod, L)
    BY DEF Joint, Matched, Nested, CompilerState
  <1>1. Keeps(v, w) /\ w.status = "ok"
    BY <1>0, KeepsValidate
  <1>2. d \in {c, e}
    BY <1>0, HandleOff, Zenon
  <1>3. /\ CompilerState(e) /\ e.on = TRUE
        /\ e.stack = c.stack /\ e.ops = c.ops /\ e.frames = c.frames /\ e.depth = c.depth
        /\ e.table = c.table /\ e.err = c.err /\ e.mod = c.mod
    BY <1>0, MarkFacts, Zenon
  <1> HIDE DEF w, d, e
  <1>4. /\ CompilerState(d) /\ d.on = TRUE
        /\ d.stack = c.stack /\ d.ops = c.ops /\ d.frames = c.frames /\ d.depth = c.depth
        /\ d.table = c.table /\ d.err = c.err /\ d.mod = c.mod
    BY <1>0, <1>2, <1>3
  <1>5. L + LimitOf(v, Len(c.frames)) <= Len(d.stack)
    BY <1>0, <1>4 DEF SameOperands, Reach
  <1>6. Alike(c.frames, d.frames)
    BY <1>0, <1>4, AlikeSelf
  <1>7. Matched(w, d, mod, L)
    BY <1>0, <1>1, <1>4, <1>5, <1>6, MatchKept, Zenon
  <1>8. LabelsFound(d)
    BY <1>0, <1>4, MoreSame, LabelsMore
  <1> QED
    BY <1>7, <1>8 DEF Joint, w, d

-----------------------------------------------------------------------------
(* Branches.  The label a branch goes to is given, or due. *)
LEMMA LabelsAlike ==
    ASSUME NEW c, NEW d, LabelsFound(c), Alike(c.frames, d.frames), d.ops = c.ops, d.table = c.table
    PROVE  LabelsFound(d)
  <1>1. More(c, d) /\ More(d, c)
    BY MoreSame
  <1>2. Len(d.frames) = Len(c.frames)
    BY DEF Alike
  <1>3. ASSUME NEW t, Due(c, t) PROVE Due(d, t)
    <2>1. PICK k \in 1 .. Len(c.frames) : Emits(c.frames[k], t)
      BY <1>3 DEF Due
    <2>2. /\ d.frames[k].id = c.frames[k].id
          /\ d.frames[k].kind = c.frames[k].kind \/ (c.frames[k].kind = "block" /\ d.frames[k].kind = "continued")
      BY DEF Alike
    <2>3. Emits(d.frames[k], t)
      BY <2>1, <2>2 DEF Emits
    <2> QED
      BY <1>2, <2>3 DEF Due
  <1>4. ASSUME NEW t, Wanted(d, t) PROVE Given(d, t) \/ Due(d, t)
    BY <1>1, <1>3, <1>4 DEF LabelsFound, More
  <1>5. ASSUME NEW k \in 1 .. Len(d.frames), d.frames[k].kind = "loop" PROVE Given(d, <<"header", d.frames[k].id>>)
    <2>1. d.frames[k].id = c.frames[k].id /\ c.frames[k].kind = "loop" /\ k \in 1 .. Len(c.frames)
      BY <1>2, <1>5 DEF Alike
    <2>2. Given(c, <<"header", c.frames[k].id>>)
      BY <2>1 DEF LabelsFound
    <2> QED
      BY <1>1, <2>1, <2>2 DEF More
  <1> QED
    BY <1>4, <1>5 DEF LabelsFound

(* The label of a frame other than a plain block is given or due. *)
LEMMA LabelKnown ==
    ASSUME NEW c, LabelsFound(c), NEW k \in 1 .. Len(c.frames), c.frames[k].kind # "block"
    PROVE  LET t == asLabel(c.frames[k]) IN Given(c, t) \/ Due(c, t)
  <1> DEFINE fr == c.frames[k]
             t == asLabel(fr)
  <1>1. CASE fr.kind = "func"
    <2>1. t = <<"return", 0>>
      BY <1>1 DEF asLabel
    <2>2. t[1] = "return"
      BY <2>1
    <2> HIDE DEF t
    <2> QED
      BY <2>2 DEF Given, t
  <1>2. CASE fr.kind = "loop"
    <2>1. t = <<"header", fr.id>>
      BY <1>2 DEF asLabel
    <2> QED
      BY <1>2, <2>1 DEF LabelsFound
  <1>3. CASE fr.kind \notin {"func", "loop"}
    <2>1. t = <<"continuation", fr.id>>
      BY <1>3 DEF asLabel
    <2>2. Emits(fr, t)
      BY <1>3, <2>1 DEF Emits
    <2> HIDE DEF t
    <2> QED
      BY <2>2 DEF Due, t
  <1> QED
    BY <1>1, <1>2, <1>3

(* After ensureContinuation the labels of the named frames are given or due. *)
LEMMA ContinuationLabels ==
    ASSUME NEW c, CompilerState(c), LabelsFound(c), NEW ns, NEW d, d = ensureContinuation(c, ns)
    PROVE  /\ Similar(c, d) /\ d.ops = c.ops /\ d.table = c.table /\ d.id = c.id /\ LabelsFound(d)
           /\ Len(d.frames) = Len(c.frames) /\ Len(d.frames) \in Nat
           /\ d.self = c.self /\ d.ensureTermination = c.ensureTermination
           /\ \A l \in ns \cap (0 .. Len(d.frames) - 1) : Given(d, asLabel(Get(d, l))) \/ Due(d, asLabel(Get(d, l)))
  <1>1. /\ CompilerState(d) /\ Alike(c.frames, d.frames)
        /\ d.stack = c.stack /\ d.ops = c.ops /\ d.on = c.on /\ d.depth = c.depth /\ d.id = c.id /\ d.table = c.table
        /\ d.err = c.err /\ d.mod = c.mod /\ d.self = c.self /\ d.ensureTermination = c.ensureTermination
        /\ \A k \in 1 .. Len(c.frames) : Len(c.frames) - k \in ns => d.frames[k].kind # "block"
    BY ContinuationFacts
  <1>2. LabelsFound(d) /\ Similar(c, d)
    BY <1>1, LabelsAlike DEF Similar
  <1>3. Len(d.frames) = Len(c.frames) /\ Len(d.frames) \in Nat
    BY <1>1, SeqHas DEF CompilerState, Alike
  <1>4. ASSUME NEW l \in ns \cap (0 .. Len(d.frames) - 1)
        PROVE  Given(d, asLabel(Get(d, l))) \/ Due(d, asLabel(Get(d, l)))
    <2> DEFINE k == Len(d.frames) - l
    <2>1. k \in 1 .. Len(d.frames) /\ Len(c.frames) - k = l
      BY <1>3
    <2>2. Get(d, l) = d.frames[k]
      BY DEF Get
    <2> HIDE DEF k
    <2>3. d.frames[k].kind # "block"
      BY <1>1, <1>3, <2>1
    <2> QED
      BY <1>2, <2>1, <2>2, <2>3, LabelKnown
  <1> QED
    BY <1>1, <1>2, <1>3, <1>4

(* The instructions after which the code cannot be reached. *)
LEMMA JointStop ==
    ASSUME NEW v, NEW c, NEW mod, NEW L \in Nat, Joint(v, c, mod, L), ~ c.on, NEW w, Keeps(v, w), w.status = "ok",
           NEW e, CompilerState(e), e.err = FALSE, e.mod = mod, Alike(c.frames, e.frames), e.depth = c.depth, LabelsFound(e),
           L + Limit(v) <= Len(e.stack), \A k \in 1 .. Limit(v) : e.stack[L + k] = c.stack[L + k]
    PROVE  Joint(w, markUnreachable(e), mod, L)
  <1> DEFINE d == [e EXCEPT !.on = TRUE]
  <1>0. Matched(v, c, mod, L) /\ LimitOf(v, Len(c.frames)) = Limit(v)
    BY MatchLive, Zenon DEF Joint
  <1>1. markUnreachable(e) = d
    BY DEF markUnreachable
  <1>2. /\ CompilerState(d) /\ d.on = TRUE
        /\ d.stack = e.stack /\ d.ops = e.ops /\ d.frames = e.frames /\ d.depth = e.depth
        /\ d.table = e.table /\ d.err = e.err /\ d.mod = e.mod
    BY MarkFacts, Zenon
  <1> HIDE DEF d
  <1>3. Matched(w, d, mod, L)
    BY <1>0, <1>2, MatchKept, Zenon
  <1>4. LabelsFound(d)
    BY <1>2, MoreSame, LabelsMore
  <1> QED
    BY <1>1, <1>3, <1>4 DEF Joint

(* In particular when the stack is what it was. *)
LEMMA JointStopHere ==
    ASSUME NEW v, NEW c, NEW mod, NEW L \in Nat, Joint(v, c, mod, L), ~ c.on, NEW w, Keeps(v, w), w.status = "ok",
           NEW e, Similar(c, e), LabelsFound(e)
    PROVE  Joint(w, markUnreachable(e), mod, L)
  <1>0. /\ Agrees(v, c, L) /\ Len(v.stack) \in Nat /\ Limit(v) \in Nat /\ Limit(v) <= Len(v.stack) /\ c.mod = mod /\ c.err = FALSE
    BY MatchLive, Zenon DEF Joint
  <1>1. CompilerState(e) /\ e.err = FALSE /\ e.mod = mod /\ Alike(c.frames, e.frames) /\ e.depth = c.depth /\ e.stack = c.stack
    BY <1>0 DEF Similar
  <1>2. L + Limit(v) <= Len(e.stack)
    BY <1>0, <1>1 DEF Agrees
  <1> QED
    BY <1>1, <1>2, JointStop, Zenon

(* From a joint state, Handle goes on from the result of applyToStack. *)
LEMMA HandledJoint ==
    ASSUME NEW v, NEW c, NEW mod, NEW L, NEW f, NEW i, Joint(v, applyToStack(c, f, i), mod, L)
    PROVE  HandledAs(c, f, i, applyToStack(c, f, i), Handle(c, f, i))
  <1>1. applyToStack(c, f, i).err = FALSE
    BY DEF Joint, Matched
  <1> QED
    BY <1>1, HandleForm, Zenon

(* An opcode without operands in its signature. *)
NoOperands == {"unreachable", "br", "return", "throw", "throw_ref", "block", "loop", "else", "end", "try_table"}

(* applyToStack of an operator with no operands keeps the joint relation. *)
LEMMA ApplyNone ==
    ASSUME NEW v, NEW c, NEW mod, NEW L \in Nat, Joint(v, c, mod, L), ~ c.on, NEW f, NEW i, i.op \in NoOperands
    PROVE  LET e == applyToStack(c, f, i)
           IN  Joint(v, e, mod, L) /\ ~ e.on /\ HandledAs(c, f, i, e, Handle(c, f, i))
  <1> DEFINE e == applyToStack(c, f, i)
             sig == wasmOpcodeSignature(mod, f, i)
  <1>0. Above(v) /\ Known(v) /\ v.status = "ok"
    BY MatchLive, Zenon DEF Joint
  <1>1. Took(v, v, <<>>, <<>>)
    BY <1>0, TookNone
  <1>2. sig.in = <<>> /\ sig.out = <<>>
    BY OtherSignatures DEF NoOperands
  <1>3. StoredAlike(<<>>, <<>>)
    BY DEF StoredAlike
  <1> HIDE DEF sig
  <1>4. Joint(v, e, mod, L) /\ SameFrames(c, e)
    <2>1. wasmOpcodeSignature(mod, f, i) = sig
      BY DEF sig
    <2> QED
      BY <1>0, <1>1, <1>2, <1>3, <2>1, JointApply
  <1>5. HandledAs(c, f, i, e, Handle(c, f, i))
    BY <1>4, HandledJoint
  <1> QED
    BY <1>4, <1>5 DEF SameFrames

(* applyToStack of an operator with one operand keeps the joint relation. *)
LEMMA ApplyOne ==
    ASSUME NEW v, NEW c, NEW mod, NEW L \in Nat, Joint(v, c, mod, L), ~ c.on, NEW f, NEW i,
           NEW t \in ValueTypes, wasmOpcodeSignature(mod, f, i).in = <<t>>, wasmOpcodeSignature(mod, f, i).out = <<>>,
           NEW u \in ValueTypes, U(u) = U(t), NEW w, Took(v, w, <<u>>, <<>>), Known(w), Above(w), w.status = "ok"
    PROVE  LET e == applyToStack(c, f, i)
           IN  Joint(w, e, mod, L) /\ ~ e.on /\ HandledAs(c, f, i, e, Handle(c, f, i))
  <1> DEFINE e == applyToStack(c, f, i)
             sig == wasmOpcodeSignature(mod, f, i)
  <1>2. sig.in = <<t>> /\ sig.out = <<>>
    OBVIOUS
  <1>3. StoredAlike(<<t>>, <<u>>) /\ StoredAlike(<<>>, <<>>)
    BY DEF StoredAlike
  <1> HIDE DEF sig
  <1>4. Joint(w, e, mod, L) /\ SameFrames(c, e)
    <2>1. wasmOpcodeSignature(mod, f, i) = sig
      BY DEF sig
    <2> QED
      BY <1>2, <1>3, <2>1, JointApply
  <1>5. HandledAs(c, f, i, e, Handle(c, f, i))
    BY <1>4, HandledJoint
  <1> QED
    BY <1>4, <1>5 DEF SameFrames

(* unreachable: validator and compiler stay joined. *)
LEMMA UnreachableStep ==
    ASSUME NEW v, NEW c, NEW mod, NEW L \in Nat, Joint(v, c, mod, L), ~ c.on,
           NEW f, NEW i, i.op = "unreachable", Validate(v, mod, f, i).status = "ok"
    PROVE  Joint(Validate(v, mod, f, i), Handle(c, f, i), mod, L)
  <1> DEFINE w == unreachable(v)
             e == applyToStack(c, f, i)
             op == [k |-> "unreachable"]
             d == emit(e, op)
  <1>0. Above(v) /\ v.cs # <<>>
    BY MatchLive, Zenon DEF Joint
  <1>1. Validate(v, mod, f, i) = w /\ w.status = "ok"
    BY <1>0 DEF Validate
  <1>2. Keeps(v, w)
    BY <1>0, KeepsUnreachable
  <1>3. Joint(v, e, mod, L) /\ ~ e.on /\ HandledAs(c, f, i, e, Handle(c, f, i))
    BY ApplyNone DEF NoOperands
  <1>4. Handle(c, f, i) = markUnreachable(d)
    BY <1>3 DEF HandledAs
  <1> HIDE DEF w, e
  <1>5. op.k \notin Jumps
    BY DEF Jumps
  <1> HIDE DEF op
  <1>6. CompilerState(e) /\ LabelsFound(e)
    BY <1>3 DEF Joint, Matched
  <1>7. SameStack(e, d) /\ More(e, d)
    BY <1>5, <1>6, EmitMore
  <1> HIDE DEF d
  <1>8. Similar(e, d) /\ LabelsFound(d)
    BY <1>6, <1>7, SimilarSame, LabelsMore DEF SameStack, SameFrames
  <1>9. Joint(w, markUnreachable(d), mod, L)
    BY <1>1, <1>2, <1>3, <1>8, JointStopHere
  <1> QED
    BY <1>1, <1>4, <1>9

(* Dropping values and going to a label. *)
LEMMA BranchTo ==
    ASSUME NEW c, CompilerState(c), LabelsFound(c), NEW r, NEW t, Given(c, t) \/ Due(c, t)
    PROVE  LET d == emitBr(emitDrop(c, r), t)
           IN  SameStack(c, d) /\ LabelsFound(d) /\ \A u : Given(c, u) => Given(d, u)
  <1> DEFINE drop == [k |-> "drop", range |-> r]
             br == [k |-> "br", target |-> t]
             e == emit(c, drop)
             d == emit(e, br)
  <1>0. emitBr(emitDrop(c, r), t) = d
    BY DEF emitBr, emitDrop
  <1>1. drop.k \notin Jumps
    BY DEF Jumps
  <1>2. Targets(br) = {t}
    BY DEF Targets
  <1> HIDE DEF drop, br
  <1>3. SameStack(c, e) /\ More(c, e)
    BY <1>1, EmitMore
  <1> HIDE DEF e
  <1>4. CompilerState(e) /\ e.frames = c.frames
    BY <1>3 DEF SameStack, SameFrames
  <1>5. LabelsFound(e)
    BY <1>3, <1>4, LabelsMore
  <1>6. \A u \in Targets(br) : Given(e, u) \/ Due(e, u)
    BY <1>2, <1>3, <1>4 DEF More, Due
  <1>7. LabelsFound(d) /\ \A u : Given(e, u) => Given(d, u)
    BY <1>4, <1>5, <1>6, LabelsEmit
  <1>8. SameStack(e, d)
    BY <1>4, EmitFacts
  <1> HIDE DEF d
  <1>9. SameStack(c, d)
    BY <1>3, <1>8 DEF SameStack, SameFrames
  <1>10. \A u : Given(c, u) => Given(d, u)
    BY <1>3, <1>7 DEF More
  <1> QED
    BY <1>0, <1>7, <1>9, <1>10

(* A return jumps to the label of the function itself, which needs no place in the code. *)
LEMMA ReturnTo ==
    ASSUME NEW c, CompilerState(c), LabelsFound(c), NEW k, k = 1, k \in 1 .. Len(c.frames), c.frames[k].kind = "func"
    PROVE  Similar(c, ReturnFrom(c)) /\ LabelsFound(ReturnFrom(c))
  <1> DEFINE t == asLabel(functionFrame(c))
             d == ReturnFrom(c)
  <1>1. t = asLabel(c.frames[k])
    BY DEF functionFrame
  <1>2. Given(c, t) \/ Due(c, t)
    BY <1>1, LabelKnown
  <1> HIDE DEF t
  <1>3. d = emitBr(emitDrop(c, getFrameDropRange(c, functionFrame(c), FALSE)), t)
    BY DEF ReturnFrom, t
  <1> HIDE DEF d
  <1>4. SameStack(c, d) /\ LabelsFound(d)
    BY <1>2, <1>3, BranchTo, Zenon
  <1> QED
    BY <1>4, SimilarSame DEF d

(* The frame of the function is there until its end. *)
LEMMA FunctionFrame ==
    ASSUME NEW v, NEW c, NEW mod, NEW L, Joint(v, c, mod, L)
    PROVE  1 \in 1 .. Len(c.frames) /\ c.frames[1].kind = "func" /\ CompilerState(c) /\ LabelsFound(c)
  <1>1. CompilerState(c) /\ LabelsFound(c) /\ SameBlocks(v, c.frames, L)
    BY DEF Joint, Matched
  <1>2. Len(c.frames) \in Nat /\ Len(c.frames) \in 1 .. Len(v.cs)
    BY <1>1, SeqHas DEF CompilerState, SameBlocks
  <1>3. 1 \in 1 .. Len(c.frames)
    BY <1>2
  <1> QED
    BY <1>1, <1>3 DEF SameBlocks

(* return: validator and compiler stay joined. *)
LEMMA ReturnStep ==
    ASSUME NEW v, NEW c, NEW mod, NEW L \in Nat, Joint(v, c, mod, L), ~ c.on,
           NEW f, DecodedFunction(f), NEW i, Decoded(i), i.op = "return", Validate(v, mod, f, i).status = "ok"
    PROVE  Joint(Validate(v, mod, f, i), Handle(c, f, i), mod, L)
  <1> DEFINE w == unreachable(requireStackValues(v, f.results, FALSE))
             e == applyToStack(c, f, i)
             d == ReturnFrom(e)
  <1>0. Above(v) /\ v.cs # <<>>
    BY MatchLive, Zenon DEF Joint
  <1>1. Validate(v, mod, f, i) = w /\ w.status = "ok"
    BY <1>0, Zenon DEF Validate
  <1>2. Keeps(v, w)
    BY <1>0, KeepsBranch, Zenon
  <1>3. Joint(v, e, mod, L) /\ ~ e.on /\ HandledAs(c, f, i, e, Handle(c, f, i))
    BY ApplyNone DEF NoOperands
  <1>4. Handle(c, f, i) = markUnreachable(d)
    BY <1>3 DEF HandledAs, compileReturn
  <1> HIDE DEF w, e
  <1>5. Similar(e, d) /\ LabelsFound(d)
    BY <1>3, FunctionFrame, ReturnTo
  <1> HIDE DEF d
  <1>9. Joint(w, markUnreachable(d), mod, L)
    BY <1>1, <1>2, <1>3, <1>5, JointStopHere
  <1> QED
    BY <1>1, <1>4, <1>9

(* br: validator and compiler stay joined. *)
LEMMA BrStep ==
    ASSUME NEW v, NEW c, NEW mod, NEW L \in Nat, Joint(v, c, mod, L), ~ c.on,
           NEW f, DecodedFunction(f), NEW i, Decoded(i), i.op = "br", Validate(v, mod, f, i).status = "ok"
    PROVE  Joint(Validate(v, mod, f, i), Handle(c, f, i), mod, L)
  <1> DEFINE w == validateBr(v, i)
             e == applyToStack(c, f, i)
             d == ensureContinuation(e, {i.l})
             t == asLabel(Get(d, i.l))
             b == emitBr(emitDrop(d, DropFor(d, i.l)), t)
  <1>0. Above(v) /\ v.cs # <<>> /\ i.l \in Nat
    BY MatchLive, Zenon DEF Joint, Decoded
  <1>1. Validate(v, mod, f, i) = w /\ w.status = "ok"
    BY <1>0 DEF Validate
  <1>2. Keeps(v, w) /\ HasLabel(v, i.l)
    <2>1. Keeps(v, w)
      BY <1>0, KeepsBranch, Zenon
    <2>2. HasLabel(v, i.l)
      BY <1>0, <1>1, KeepsFail, Zenon DEF validateBr
    <2> QED
      BY <2>1, <2>2
  <1>3. Joint(v, e, mod, L) /\ ~ e.on /\ HandledAs(c, f, i, e, Handle(c, f, i))
    BY ApplyNone DEF NoOperands
  <1>4. Handle(c, f, i) = markUnreachable(b)
    BY <1>3 DEF HandledAs, compileBr
  <1> HIDE DEF w, e
  <1>5. CompilerState(e) /\ LabelsFound(e) /\ Len(e.frames) = Len(v.cs)
    BY <1>3, MatchLive, Zenon DEF Joint
  <1>6. /\ Similar(e, d) /\ LabelsFound(d) /\ Len(d.frames) = Len(e.frames) /\ Len(d.frames) \in Nat
        /\ \A l \in {i.l} \cap (0 .. Len(d.frames) - 1) : Given(d, asLabel(Get(d, l))) \/ Due(d, asLabel(Get(d, l)))
    BY <1>5, ContinuationLabels
  <1> HIDE DEF d
  <1>7. i.l \in {i.l} \cap (0 .. Len(d.frames) - 1)
    BY <1>0, <1>2, <1>5, <1>6 DEF HasLabel
  <1>8. Given(d, t) \/ Due(d, t)
    BY <1>6, <1>7
  <1>9. CompilerState(d)
    BY <1>6 DEF Similar
  <1> HIDE DEF t
  <1>10. SameStack(d, b) /\ LabelsFound(b)
    BY <1>6, <1>8, <1>9, BranchTo
  <1> HIDE DEF b
  <1>11. Similar(e, b)
    BY <1>6, <1>9, <1>10, SimilarSame, SimilarTrans
  <1>12. Joint(w, markUnreachable(b), mod, L)
    BY <1>1, <1>2, <1>3, <1>10, <1>11, JointStopHere
  <1> QED
    BY <1>1, <1>4, <1>12

TableLabels(d, ls) == [n \in DOMAIN ls |-> asLabel(Get(d, ls[n]))]

(* The targets of br_table are labels of the frames its depths name. *)
LEMMA BrTableTargets ==
    ASSUME NEW d, NEW ls, NEW op, op.k = "br_table", op.targets = TableLabels(d, ls)
    PROVE  \A t \in Targets(op) : \E l \in Range(ls) : t = asLabel(Get(d, l))
  <1> DEFINE ts == [n \in DOMAIN ls |-> asLabel(Get(d, ls[n]))]
  <1>1. op.k = "br_table" /\ op.targets = ts
    BY DEF TableLabels
  <1>2. Targets(op) = {op.targets[n] : n \in DOMAIN op.targets}
    BY <1>1 DEF Targets
  <1>3. ASSUME NEW t \in Targets(op) PROVE \E l \in Range(ls) : t = asLabel(Get(d, l))
    <2>1. PICK n \in DOMAIN ts : t = ts[n]
      BY <1>1, <1>2
    <2>2. n \in DOMAIN ls /\ t = asLabel(Get(d, ls[n]))
      BY <2>1
    <2>3. ls[n] \in Range(ls)
      BY <2>2 DEF Range
    <2> QED
      BY <2>2, <2>3
  <1> QED
    BY <1>3

(* br_table: validator and compiler stay joined. *)
LEMMA BrTableStep ==
    ASSUME NEW v, NEW c, NEW mod, NEW L \in Nat, Joint(v, c, mod, L), ~ c.on,
           NEW f, DecodedFunction(f), NEW i, Decoded(i), i.op = "br_table", Validate(v, mod, f, i).status = "ok"
    PROVE  Joint(Validate(v, mod, f, i), Handle(c, f, i), mod, L)
  <1> DEFINE p == popAndVerifyType(v, "i32")
             w == unreachable(p)
             e == applyToStack(c, f, i)
             ls == Append(i.ls, i.default)
             d == ensureContinuation(e, Range(ls))
             op == [k |-> "br_table",
                    targets |-> [n \in DOMAIN ls |-> asLabel(Get(d, ls[n]))],
                    ranges  |-> [n \in DOMAIN ls |-> DropFor(d, ls[n])]]
             b == emit(d, op)
  <1>0. Above(v) /\ Known(v) /\ v.cs # <<>> /\ i.ls \in Seq(Nat) /\ i.default \in Nat /\ fail(v).status # "ok" /\ "i32" \in ValueTypes
    BY MatchLive, KeepsFail, Zenon DEF Joint, Decoded, ValueTypes
  <1>1. Validate(v, mod, f, i) = validateBrTable(v, i)
    BY <1>0 DEF Validate
  <1>2. /\ validateBrTable(v, i) = w /\ w.status = "ok" /\ HasLabel(v, i.default)
        /\ \A k \in DOMAIN i.ls : HasLabel(v, i.ls[k])
    BY <1>0, <1>1 DEF validateBrTable
  <1>3. Above(p)
    BY <1>0, KeepsPopVerify, KeepsAbove
  <1>4. Keeps(p, w) /\ p.status = "ok"
    BY <1>2, <1>3, KeepsUnreachable
  <1>5. Took(v, p, <<"i32">>, <<>>) /\ Known(p)
    BY <1>0, <1>4, TookPopVerify
  <1>6. wasmOpcodeSignature(mod, f, i).in = <<"i32">> /\ wasmOpcodeSignature(mod, f, i).out = <<>>
    BY OtherSignatures
  <1>c. p.cs = v.cs
    BY <1>5 DEF Took
  <1> HIDE DEF p
  <1>7. Joint(p, e, mod, L) /\ ~ e.on /\ HandledAs(c, f, i, e, Handle(c, f, i))
    BY <1>0, <1>3, <1>4, <1>5, <1>6, ApplyOne
  <1>8. Handle(c, f, i) = markUnreachable(b)
    BY <1>7, Zenon DEF HandledAs, compileBrTable
  <1> HIDE DEF w, e
  <1>9. CompilerState(e) /\ LabelsFound(e) /\ Len(e.frames) = Len(v.cs)
    BY <1>7, <1>c, MatchLive, Zenon DEF Joint
  <1>10. Range(ls) \subseteq 0 .. Len(e.frames) - 1
    <2>1. Len(e.frames) \in Nat
      BY <1>9, SeqHas DEF CompilerState
    <2>2. \A l \in Nat : HasLabel(v, l) => l \in 0 .. Len(e.frames) - 1
      BY <1>9, <2>1 DEF HasLabel
    <2>3. \A n \in DOMAIN ls : ls[n] = i.default \/ \E k \in DOMAIN i.ls : ls[n] = i.ls[k]
      BY <1>0
    <2>4. \A k \in DOMAIN i.ls : i.ls[k] \in Nat
      BY <1>0
    <2> HIDE DEF ls
    <2> QED
      BY <1>0, <1>2, <2>2, <2>3, <2>4, Zenon DEF Range
  <1> HIDE DEF ls
  <1>11. /\ Similar(e, d) /\ LabelsFound(d) /\ Len(d.frames) = Len(e.frames)
         /\ \A l \in Range(ls) \cap (0 .. Len(d.frames) - 1) : Given(d, asLabel(Get(d, l))) \/ Due(d, asLabel(Get(d, l)))
    BY <1>9, ContinuationLabels
  <1> HIDE DEF d
  <1>12. \A t \in Targets(op) : \E l \in Range(ls) : t = asLabel(Get(d, l))
    <2>1. op.k = "br_table" /\ op.targets = TableLabels(d, ls)
      BY DEF TableLabels
    <2> HIDE DEF op
    <2> QED
      BY <2>1, BrTableTargets
  <1> HIDE DEF op
  <1>13. \A t \in Targets(op) : Given(d, t) \/ Due(d, t)
    BY <1>10, <1>11, <1>12
  <1>14. CompilerState(d)
    BY <1>11 DEF Similar
  <1>15. SameStack(d, b) /\ LabelsFound(b)
    BY <1>11, <1>13, <1>14, LabelsEmit, EmitFacts
  <1> HIDE DEF b
  <1>16. Similar(e, b)
    BY <1>11, <1>14, <1>15, SimilarSame, SimilarTrans
  <1>17. Joint(w, markUnreachable(b), mod, L)
    BY <1>2, <1>4, <1>7, <1>15, <1>16, JointStopHere
  <1> QED
    BY <1>1, <1>2, <1>8, <1>17

(* The values of an exception are popped. *)
LEMMA ThrowTo ==
    ASSUME NEW v, NEW c, NEW mod, NEW L \in Nat, Joint(v, c, mod, L), ~ c.on, NEW w, Keeps(v, w), w.status = "ok",
           NEW taken \in Nat, Limit(v) + taken <= Len(v.stack), NEW op, op.k \notin Jumps
    PROVE  /\ ~ (taken > Len(c.stack))
           /\ Joint(w, markUnreachable(emit([c EXCEPT !.stack = ButLast(c.stack, taken)], op)), mod, L)
  <1> DEFINE s == ButLast(c.stack, taken)
             e == [c EXCEPT !.stack = s]
             d == emit(e, op)
             r == c.stack
             n == Len(c.stack) - taken
  <1>0. /\ Agrees(v, c, L) /\ Len(v.stack) \in Nat /\ Limit(v) \in Nat /\ CompilerState(c) /\ c.mod = mod /\ c.err = FALSE
        /\ LabelsFound(c)
    BY MatchLive, Zenon DEF Joint
  <1>1. Len(r) = L + Len(v.stack) /\ n = Len(r) - taken /\ IsSeq(r)
    BY <1>0 DEF Agrees, CompilerState
  <1> HIDE DEF r
  <1>2. n \in Nat /\ n <= Len(r) /\ L + Limit(v) <= n /\ ~ (taken > Len(r))
    BY <1>0, <1>1
  <1> HIDE DEF n
  <1>3. IsSeq(s) /\ Len(s) = n /\ \A k \in 1 .. n : s[k] = r[k]
    <2>1. s = SubSeq(r, 1, n)
      BY <1>1 DEF ButLast, r
    <2> HIDE DEF s
    <2> QED
      BY <1>1, <1>2, <2>1, PrefixIs
  <1>r. r = c.stack
    BY DEF r
  <1> HIDE DEF s
  <1>4. SameFrames(c, e) /\ e.stack = s /\ e.ops = c.ops
    BY <1>0, <1>3, StackFacts
  <1> HIDE DEF e
  <1>5. CompilerState(e) /\ e.frames = c.frames /\ e.table = c.table
    BY <1>4 DEF SameFrames
  <1>6. LabelsFound(e)
    BY <1>0, <1>4, <1>5, MoreSame, LabelsMore
  <1>7. SameStack(e, d) /\ More(e, d)
    BY <1>5, EmitMore
  <1> HIDE DEF d
  <1>8. /\ LabelsFound(d) /\ CompilerState(d) /\ d.frames = c.frames /\ d.err = FALSE /\ d.mod = mod /\ d.depth = c.depth /\ d.stack = s
    BY <1>0, <1>4, <1>5, <1>6, <1>7, LabelsMore DEF SameStack, SameFrames
  <1>9. Alike(c.frames, d.frames)
    BY <1>0, <1>8, AlikeSelf
  <1>10. L + Limit(v) <= Len(d.stack)
    BY <1>2, <1>3, <1>8
  <1>11. \A k \in 1 .. Limit(v) : d.stack[L + k] = c.stack[L + k]
    <2> SUFFICES ASSUME NEW k \in 1 .. Limit(v) PROVE d.stack[L + k] = c.stack[L + k]
      OBVIOUS
    <2>1. L + k \in 1 .. n
      BY <1>0, <1>2
    <2> QED
      BY <1>3, <1>8, <1>r, <2>1
  <1>12. Joint(w, markUnreachable(d), mod, L)
    BY <1>8, <1>9, <1>10, <1>11, JointStop, Zenon
  <1> QED
    BY <1>2, <1>12, <1>r DEF d, e, s

(* throw and throw_ref: validator and compiler stay joined. *)
LEMMA ThrowStep ==
    ASSUME NEW v, NEW c, NEW mod, NEW L \in Nat, Joint(v, c, mod, L), ~ c.on,
           NEW f, DecodedFunction(f), NEW i, Decoded(i), i.op \in {"throw", "throw_ref"}, Validate(v, mod, f, i).status = "ok"
    PROVE  Joint(Validate(v, mod, f, i), Handle(c, f, i), mod, L)
  <1> DEFINE w == Validate(v, mod, f, i)
             e == applyToStack(c, f, i)
             taken == IF i.op = "throw" THEN Len(i.tag.params) ELSE 1
             op == IF i.op = "throw" THEN [k |-> "throw", tag |-> i.tag] ELSE [k |-> "throw_ref"]
  <1>0. Above(v) /\ Known(v) /\ v.cs # <<>> /\ w.status = "ok"
    BY MatchLive, Zenon DEF Joint
  <1>1. /\ i.op = "throw" => w = unreachable(popAll(v, i.tag.params))
        /\ i.op = "throw_ref" => w = unreachable(popAndVerifyType(v, "exnref"))
    BY <1>0, Zenon DEF Validate
  <1>2. Keeps(v, w)
    BY <1>0, <1>1, KeepsBranch, Zenon
  <1>3. taken \in Nat /\ Limit(v) + taken <= Len(v.stack)
    <2>1. CASE i.op = "throw"
      <3> DEFINE ts == i.tag.params
                 p == popAll(v, ts)
      <3>1. ts \in Seq(ValueTypes) /\ taken = Len(ts)
        BY <2>1 DEF Decoded
      <3> HIDE DEF ts
      <3>2. Above(p)
        BY <1>0, <3>1, KeepsPopAll, KeepsAbove
      <3>3. w = unreachable(p)
        BY <1>1, <2>1 DEF ts
      <3>4. p.status = "ok"
        BY <1>0, <3>2, <3>3, KeepsUnreachable
      <3>5. Took(v, p, ts, <<>>)
        BY <1>0, <3>1, <3>4, TookPopAll
      <3>6. Len(ts) \in Nat
        BY <3>1
      <3> HIDE DEF p
      <3> QED
        BY <3>1, <3>5, <3>6, Zenon DEF Took
    <2>2. CASE i.op = "throw_ref"
      <3> DEFINE p == popAndVerifyType(v, "exnref")
      <3>1. "exnref" \in ValueTypes /\ taken = 1
        BY <2>2 DEF ValueTypes, Nullable
      <3>2. Above(p)
        BY <1>0, KeepsPopVerify, KeepsAbove
      <3>3. w = unreachable(p)
        BY <1>1, <2>2
      <3>4. p.status = "ok"
        BY <1>0, <3>2, <3>3, KeepsUnreachable
      <3>5. Took(v, p, <<"exnref">>, <<>>)
        BY <1>0, <3>1, <3>4, TookPopVerify
      <3> DEFINE ts == <<"exnref">>
      <3>6. Took(v, p, ts, <<>>) /\ Len(ts) = 1
        BY <3>5
      <3> HIDE DEF p, ts, taken
      <3>7. Limit(v) + Len(ts) <= Len(v.stack)
        BY <3>6 DEF Took
      <3> QED
        BY <3>1, <3>6, <3>7
    <2> QED
      BY <2>1, <2>2
  <1>4. op.k \notin Jumps
    BY DEF Jumps
  <1>5. Joint(v, e, mod, L) /\ ~ e.on /\ HandledAs(c, f, i, e, Handle(c, f, i))
    BY ApplyNone DEF NoOperands
  <1>6. Handle(c, f, i) = compileThrow(e, i)
    BY <1>5 DEF HandledAs
  <1>7. Handle(c, f, i) = IF taken > Len(e.stack) THEN [e EXCEPT !.err = TRUE]
                          ELSE markUnreachable(emit([e EXCEPT !.stack = ButLast(e.stack, taken)], op))
    BY <1>5, <1>6 DEF compileThrow
  <1> HIDE DEF w, e, taken, op
  <1>8. /\ ~ (taken > Len(e.stack))
        /\ Joint(w, markUnreachable(emit([e EXCEPT !.stack = ButLast(e.stack, taken)], op)), mod, L)
    BY <1>0, <1>2, <1>3, <1>4, <1>5, ThrowTo
  <1> QED
    BY <1>7, <1>8 DEF w

(* Tail calls: validator and compiler stay joined. *)
LEMMA TailCallStep ==
    ASSUME NEW v, NEW c, NEW mod, NEW L \in Nat, Joint(v, c, mod, L), ~ c.on,
           NEW f, DecodedFunction(f), NEW i, Decoded(i), i.op \in TailCallOps, Validate(v, mod, f, i).status = "ok"
    PROVE  Joint(Validate(v, mod, f, i), Handle(c, f, i), mod, L)
  <1> DEFINE w == Validate(v, mod, f, i)
             sig == wasmOpcodeSignature(mod, f, i)
             p == CASE i.op \in {"call", "return_call"} -> v
                    [] i.op \in {"call_indirect", "return_call_indirect"} -> popAndVerifyType(v, "i32")
                    [] i.op \in {"call_ref", "return_call_ref"} -> popAndVerifyType(v, "tref")
             q == validateCallSignature(p, i.type)
             e == applyToStack(c, f, i)
             d == Handle(c, f, i)
  <1>0. Above(v) /\ Known(v) /\ v.cs # <<>> /\ i.type \in FuncTypes /\ f.results \in Seq(ValueTypes)
    BY MatchLive, Zenon DEF Joint, Decoded, DecodedFunction
  <1>1. w = validateCall(v, f, i)
    BY <1>0, Zenon DEF Validate, TailCallOps
  <1>2. w = validateReturnCall(q, i.type, f)
    BY <1>1 DEF validateCall, TailCallOps
  <1>3. w.status = "ok"
    OBVIOUS
  <1>4. Above(p)
    BY <1>0, KeepsPopVerify, KeepsAbove DEF TailCallOps
  <1> HIDE DEF w, p
  <1>5. Above(q)
    <2>1. i.type.params \in Seq(ValueTypes) /\ i.type.results \in Seq(ValueTypes)
      BY <1>0 DEF FuncTypes
    <2>2. q = takes(p, i.type.params, i.type.results)
      BY DEF validateCallSignature, takes
    <2> QED
      BY <1>4, <2>1, <2>2, KeepsTakes, ValueSeqs, KeepsAbove
  <1> HIDE DEF q
  <1>6. Keeps(q, w)
    <2>1. Keeps(q, fail(q)) /\ Keeps(q, unreachable(requireStackValues(q, f.results, FALSE)))
      BY <1>5, KeepsFail, KeepsBranch, Zenon
    <2> QED
      BY <1>2, <2>1, Zenon DEF validateReturnCall
  <1>7. q.status = "ok"
    BY <1>3, <1>6 DEF Keeps
  <1>8. /\ Took(v, q, sig.in, sig.out) /\ Known(q)
        /\ sig.in \in Seq(ValueTypes) /\ sig.out \in Seq(ValueTypes)
    <2>1. i.op \in CallOps \cup TailCallOps
      OBVIOUS
    <2>2. validateCallSignature(p, i.type).status = "ok"
      BY <1>7 DEF q
    <2> QED
      BY <1>0, <2>1, <2>2, CallTook, Zenon DEF p, q
  <1>9. StoredAlike(sig.in, sig.in) /\ StoredAlike(sig.out, sig.out) /\ wasmOpcodeSignature(mod, f, i) = sig
    BY <1>8, AlikeTypes
  <1> HIDE DEF sig
  <1>10. Joint(q, e, mod, L) /\ SameFrames(c, e)
    BY <1>5, <1>7, <1>8, <1>9, JointApply
  <1>11. HandledAs(c, f, i, e, d)
    BY <1>10, HandledJoint
  <1>12. ~ e.on
    BY <1>10 DEF SameFrames
  <1> HIDE DEF e, d
  <1>13. d = compileCall(e, i)
    BY <1>11 DEF HandledAs
  <1> DEFINE op == [k |-> i.op, type |-> i.type, func |-> i.func,
                    range |-> getFrameDropRange(e, functionFrame(e), FALSE)]
             call == [op EXCEPT !.k = "call"]
             check == [k |-> "check_exit"]
  <1>14. d \in {markUnreachable(emit(e, op)), markUnreachable(emit(emit(e, check), op)), markUnreachable(ReturnFrom(emit(e, call)))}
    BY <1>13 DEF compileCall, TailCallOps
  <1>15. op.k \notin Jumps /\ call.k \notin Jumps /\ check.k \notin Jumps
    BY DEF Jumps, TailCallOps
  <1> HIDE DEF op, call, check
  <1>16. 1 \in 1 .. Len(e.frames) /\ e.frames[1].kind = "func" /\ CompilerState(e) /\ LabelsFound(e)
    BY <1>10, FunctionFrame
  <1>17. ASSUME NEW x, CompilerState(x), LabelsFound(x), NEW o, o.k \notin Jumps
         PROVE  Similar(x, emit(x, o)) /\ LabelsFound(emit(x, o)) /\ CompilerState(emit(x, o)) /\ emit(x, o).frames = x.frames
    <2> DEFINE y == emit(x, o)
    <2>1. SameStack(x, y) /\ More(x, y)
      BY <1>17, EmitMore
    <2> HIDE DEF y
    <2>2. Similar(x, y) /\ LabelsFound(y) /\ CompilerState(y) /\ y.frames = x.frames
      BY <1>17, <2>1, SimilarSame, LabelsMore DEF SameStack, SameFrames
    <2> QED
      BY <2>2 DEF y
  <1> DEFINE a == emit(e, op)
             g == emit(e, check)
             h == emit(e, call)
             b == emit(g, op)
             r == ReturnFrom(h)
  <1>18. Similar(e, a) /\ LabelsFound(a)
    BY <1>15, <1>16, <1>17
  <1>19. Similar(e, g) /\ LabelsFound(g) /\ CompilerState(g)
    BY <1>15, <1>16, <1>17
  <1>20. Similar(e, h) /\ LabelsFound(h) /\ CompilerState(h) /\ h.frames = e.frames
    BY <1>15, <1>16, <1>17
  <1> HIDE DEF a, g, h
  <1>21. Similar(e, b) /\ LabelsFound(b)
    BY <1>15, <1>17, <1>19, SimilarTrans
  <1>22. Similar(e, r) /\ LabelsFound(r)
    BY <1>16, <1>20, ReturnTo, SimilarTrans
  <1> HIDE DEF b, r
  <1>23. d \in {markUnreachable(a), markUnreachable(b), markUnreachable(r)}
    BY <1>14 DEF a, b, g, h, r
  <1>24. Joint(w, markUnreachable(a), mod, L) /\ Joint(w, markUnreachable(b), mod, L) /\ Joint(w, markUnreachable(r), mod, L)
    BY <1>3, <1>6, <1>10, <1>12, <1>18, <1>21, <1>22, JointStopHere
  <1> QED
    BY <1>23, <1>24 DEF w, d

-----------------------------------------------------------------------------
(* All labels but those of X, which the instruction is about to emit. *)
LabelsBut(c, X) ==
    /\ \A t : Wanted(c, t) => Given(c, t) \/ Due(c, t) \/ t \in X
    /\ \A k \in 1 .. Len(c.frames) :
         c.frames[k].kind = "loop" =>
           Given(c, <<"header", c.frames[k].id>>) \/ <<"header", c.frames[k].id>> \in X

(* Every label found is every label found but none. *)
LEMMA ButNone ==
    ASSUME NEW c
    PROVE  LabelsFound(c) <=> LabelsBut(c, {})
  BY DEF LabelsFound, LabelsBut

(* More labels may be excepted. *)
LEMMA ButWider ==
    ASSUME NEW c, NEW X, NEW Y, LabelsBut(c, X), X \subseteq Y
    PROVE  LabelsBut(c, Y)
  BY DEF LabelsBut

(* The excepted form of LabelsMore. *)
LEMMA ButMore ==
    ASSUME NEW c, NEW d, NEW X, LabelsBut(c, X), More(c, d), d.frames = c.frames
    PROVE  LabelsBut(d, X)
  <1>1. ASSUME NEW t, Wanted(d, t) PROVE Given(d, t) \/ Due(d, t) \/ t \in X
    <2>1. Given(c, t) \/ Due(c, t) \/ t \in X
      BY <1>1 DEF More, LabelsBut
    <2> QED
      BY <2>1 DEF More, Due
  <1>2. ASSUME NEW k \in 1 .. Len(d.frames), d.frames[k].kind = "loop"
        PROVE  Given(d, <<"header", d.frames[k].id>>) \/ <<"header", d.frames[k].id>> \in X
    <2>1. Given(c, <<"header", c.frames[k].id>>) \/ <<"header", c.frames[k].id>> \in X
      BY <1>2 DEF LabelsBut
    <2> QED
      BY <2>1 DEF More
  <1> QED
    BY <1>1, <1>2 DEF LabelsBut

(* The excepted form of LabelsEmit. *)
LEMMA ButEmit ==
    ASSUME NEW c, CompilerState(c), NEW X, LabelsBut(c, X), NEW op,
           \A t \in Targets(op) : Given(c, t) \/ Due(c, t) \/ t \in X
    PROVE  /\ LabelsBut(emit(c, op), X) /\ SameStack(c, emit(c, op))
           /\ \A t : Given(c, t) => Given(emit(c, op), t)
           /\ \A t : Due(emit(c, op), t) <=> Due(c, t)
  <1> DEFINE d == emit(c, op)
  <1>1. SameStack(c, d) /\ d.ops \in {c.ops, Append(c.ops, op)}
    BY EmitFacts
  <1> HIDE DEF d
  <1>2. IsSeq(c.ops) /\ d.table = c.table /\ d.frames = c.frames
    BY <1>1 DEF CompilerState, SameStack, SameFrames
  <1>d. \A t : Due(d, t) <=> Due(c, t)
    BY <1>2 DEF Due
  <1>3. CASE d.ops = c.ops
    <2>1. More(c, d)
      BY <1>2, <1>3, MoreSame
    <2> QED
      BY <1>1, <1>2, <1>d, <2>1, ButMore DEF More, d
  <1>4. CASE d.ops = Append(c.ops, op)
    <2>1. /\ \A t : Given(c, t) => Given(d, t)
          /\ \A t : Wanted(d, t) <=> Wanted(c, t) \/ t \in Targets(op)
      BY <1>2, <1>4, AppendedOp, Zenon
    <2>2. ASSUME NEW t, Wanted(d, t) PROVE Given(d, t) \/ Due(d, t) \/ t \in X
      <3>1. Given(c, t) \/ Due(c, t) \/ t \in X
        BY <2>1, <2>2 DEF LabelsBut
      <3> QED
        BY <1>d, <2>1, <3>1
    <2>3. ASSUME NEW k \in 1 .. Len(d.frames), d.frames[k].kind = "loop"
          PROVE  Given(d, <<"header", d.frames[k].id>>) \/ <<"header", d.frames[k].id>> \in X
      <3>1. Given(c, <<"header", c.frames[k].id>>) \/ <<"header", c.frames[k].id>> \in X
        BY <1>2, <2>3 DEF LabelsBut
      <3> QED
        BY <1>2, <2>1, <3>1
    <2>4. LabelsBut(d, X)
      BY <2>2, <2>3 DEF LabelsBut
    <2> QED
      BY <1>1, <1>d, <2>1, <2>4 DEF d
  <1> QED
    BY <1>1, <1>3, <1>4

(* A branch to a label given, due or excepted. *)
LEMMA ButBr ==
    ASSUME NEW c, CompilerState(c), NEW X, LabelsBut(c, X), NEW t, Given(c, t) \/ Due(c, t) \/ t \in X
    PROVE  /\ LabelsBut(emitBr(c, t), X) /\ SameStack(c, emitBr(c, t))
           /\ \A u : Given(c, u) => Given(emitBr(c, t), u)
           /\ \A u : Due(emitBr(c, t), u) <=> Due(c, u)
  <1> DEFINE op == [k |-> "br", target |-> t]
  <1>1. Targets(op) = {t}
    BY DEF Targets
  <1> HIDE DEF op
  <1>2. emitBr(c, t) = emit(c, op)
    BY DEF emitBr, op
  <1> QED
    BY <1>1, <1>2, ButEmit

(* A drop refers to no label. *)
LEMMA ButDrop ==
    ASSUME NEW c, CompilerState(c), NEW X, LabelsBut(c, X), NEW r
    PROVE  LabelsBut(emitDrop(c, r), X) /\ SameStack(c, emitDrop(c, r))
  <1> DEFINE op == [k |-> "drop", range |-> r]
  <1>1. Targets(op) = {}
    BY DEF Targets
  <1> HIDE DEF op
  <1>2. emitDrop(c, r) = emit(c, op)
    BY DEF emitDrop, op
  <1> QED
    BY <1>1, <1>2, ButEmit

(* Emitting a label. *)
LEMMA ButLabel ==
    ASSUME NEW c, CompilerState(c), ~ c.on, NEW X, LabelsBut(c, X), NEW x
    PROVE  LabelsBut(emitLabel(c, x), X \ {x}) /\ SameStack(c, emitLabel(c, x))
  <1> DEFINE op == [k |-> "label", label |-> x, height |-> stackLenInUint64(c)]
             d == emit(c, op)
  <1>0. Targets(op) = {} /\ op.k = "label" /\ op.label = x
    BY DEF Targets
  <1> HIDE DEF op
  <1>1. emitLabel(c, x) = d
    BY DEF emitLabel, op
  <1>2. LabelsBut(d, X) /\ SameStack(c, d)
    BY <1>0, ButEmit
  <1>3. d.ops = Append(c.ops, op)
    BY <1>0, EmitFacts
  <1> HIDE DEF d
  <1>4. Given(d, x)
    <2>1. IsSeq(c.ops) /\ d.table = c.table
      BY <1>2 DEF CompilerState, SameStack, SameFrames
    <2> QED
      BY <1>0, <1>3, <2>1, AppendedOp
  <1>5. LabelsBut(d, X \ {x})
    BY <1>2, <1>4 DEF LabelsBut
  <1> QED
    BY <1>1, <1>2, <1>5

(* br_if, br_on_null and br_on_non_null. *)
LEMMA CompileBrIf ==
    ASSUME NEW c, CompilerState(c), ~ c.on, LabelsFound(c), NEW i, i.l \in 0 .. Len(c.frames) - 1, i.op \in BrIfOps
    PROVE  LET h == compileBrIf(c, i)
           IN  /\ CompilerState(h) /\ Alike(c.frames, h.frames) /\ h.depth = c.depth /\ ~ h.on /\ h.err = c.err /\ h.mod = c.mod
               /\ LabelsFound(h)
               /\ i.op # "br_on_null" => h.stack = c.stack
               /\ i.op = "br_on_null" => /\ Len(h.stack) = Len(c.stack) + 1
                                         /\ \A k \in 1 .. Len(c.stack) : h.stack[k] = c.stack[k]
                                         /\ h.stack[Len(c.stack) + 1] = U("tref")
  <1> DEFINE a == ensureContinuation(c, {i.l})
             d == nextFrameID(a)
             next == <<"header", d.id>>
             t == asLabel(Get(d, i.l))
             op == [k |-> i.op, target |-> t, other |-> next, range |-> DropFor(d, i.l)]
             b == emit(d, op)
             g == IF i.op = "br_on_null" THEN stackPush(b, <<"tref">>) ELSE b
             h == emitLabel(g, next)
             X == {next}
  <1>0. compileBrIf(c, i) = h
    BY DEF compileBrIf
  <1>1. /\ Similar(c, a) /\ LabelsFound(a) /\ Len(a.frames) = Len(c.frames) /\ Len(a.frames) \in Nat
        /\ \A l \in {i.l} \cap (0 .. Len(a.frames) - 1) : Given(a, asLabel(Get(a, l))) \/ Due(a, asLabel(Get(a, l)))
    BY ContinuationLabels
  <1> HIDE DEF a
  <1>2. /\ CompilerState(d) /\ d.stack = a.stack /\ d.ops = a.ops /\ d.frames = a.frames /\ d.depth = a.depth /\ d.on = a.on
        /\ d.table = a.table /\ d.err = a.err /\ d.mod = a.mod
    BY <1>1, IDFacts DEF Similar
  <1> HIDE DEF d
  <1>3. Get(d, i.l) = Get(a, i.l)
    BY <1>2 DEF Get
  <1>4. More(a, d) /\ LabelsBut(d, {}) /\ LabelsBut(d, X)
    BY <1>1, <1>2, MoreSame, LabelsMore, ButNone, ButWider
  <1>5. Given(d, t) \/ Due(d, t)
    <2>1. i.l \in {i.l} \cap (0 .. Len(a.frames) - 1)
      BY <1>1
    <2>2. Given(a, t) \/ Due(a, t)
      BY <1>1, <1>3, <2>1
    <2> HIDE DEF t
    <2> QED
      BY <1>2, <1>4, <2>2 DEF More, Due
  <1>6. Targets(op) = {t, next}
    BY DEF Targets, BrIfOps
  <1> HIDE DEF op, t
  <1>7. next \in X
    OBVIOUS
  <1> HIDE DEF next
  <1>8. LabelsBut(b, X) /\ SameStack(d, b)
    BY <1>2, <1>4, <1>5, <1>6, <1>7, ButEmit
  <1> HIDE DEF b
  <1>9. CompilerState(b) /\ b.stack = c.stack /\ ~ b.on /\ b.depth = c.depth /\ b.err = c.err /\ b.mod = c.mod /\ b.frames = a.frames
    BY <1>1, <1>2, <1>8 DEF SameStack, SameFrames, Similar
  <1>10. /\ CompilerState(g) /\ ~ g.on /\ g.depth = c.depth /\ g.err = c.err /\ g.mod = c.mod /\ g.frames = b.frames
         /\ g.ops = b.ops /\ g.table = b.table
         /\ i.op # "br_on_null" => g.stack = c.stack
         /\ i.op = "br_on_null" => /\ Len(g.stack) = Len(c.stack) + 1
                                   /\ \A k \in 1 .. Len(c.stack) : g.stack[k] = c.stack[k]
                                   /\ g.stack[Len(c.stack) + 1] = U("tref")
    <2>1. CASE i.op = "br_on_null"
      <3> DEFINE ts == <<"tref">>
      <3>1. IsSeq(ts) /\ Len(ts) = 1 /\ ts[1] = "tref" /\ 1 \in 1 .. 1
        <4>1. ts \in Seq({"tref"})
          OBVIOUS
        <4>2. Len(ts) = 1 /\ ts[1] = "tref" /\ 1 \in 1 .. 1
          OBVIOUS
        <4> HIDE DEF ts
        <4> QED
          BY <4>1, <4>2, SeqIs
      <3>2. g = stackPush(b, ts)
        BY <2>1
      <3> HIDE DEF ts, g
      <3>3. Pushed(b, g, ts)
        BY <1>9, <3>1, <3>2, PushIs
      <3>4. /\ Len(g.stack) = Len(c.stack) + 1
            /\ \A k \in 1 .. Len(c.stack) : g.stack[k] = c.stack[k]
            /\ g.stack[Len(c.stack) + 1] = U("tref")
        BY <1>9, <3>1, <3>3 DEF Pushed
      <3> QED
        BY <1>9, <2>1, <3>3, <3>4 DEF Pushed, SameFrames
    <2>2. CASE i.op # "br_on_null"
      BY <1>9, <2>2
    <2> QED
      BY <2>1, <2>2
  <1> HIDE DEF g
  <1>11. LabelsBut(g, X)
    BY <1>8, <1>10, MoreSame, ButMore
  <1>12. LabelsBut(h, X \ {next}) /\ SameStack(g, h)
    BY <1>10, <1>11, ButLabel, Zenon
  <1>13. LabelsFound(h)
    BY <1>12, ButNone, Zenon
  <1> HIDE DEF h
  <1>14. /\ CompilerState(h) /\ ~ h.on /\ h.depth = c.depth /\ h.err = c.err /\ h.mod = c.mod /\ h.frames = a.frames /\ h.stack = g.stack
    BY <1>9, <1>10, <1>12 DEF SameStack, SameFrames
  <1>15. Alike(c.frames, h.frames)
    BY <1>1, <1>14 DEF Similar
  <1> QED
    BY <1>0, <1>10, <1>13, <1>14, <1>15

(* The operand of a conditional branch is popped, the values of the label  *)
(* are checked and stay.                                                   *)
LEMMA BrIfTo ==
    ASSUME NEW p, NEW e, NEW mod, NEW L \in Nat, Joint(p, e, mod, L), ~ e.on, NEW i, i.op \in BrIfOps, i.l \in Nat, HasLabel(p, i.l),
           NEW ts \in Seq(ValueTypes), NEW x, x = takes(p, ts, ts), x.status = "ok",
           NEW w, i.op # "br_on_null" => w = x,
           i.op = "br_on_null" => \E t \in ValueTypes : U(t) = U("tref") /\ w = push(x, t)
    PROVE  Joint(w, compileBrIf(e, i), mod, L)
  <1> DEFINE h == compileBrIf(e, i)
  <1>0. /\ Matched(p, e, mod, L) /\ Above(p) /\ Known(p) /\ Agrees(p, e, L) /\ CompilerState(e) /\ e.err = FALSE /\ e.mod = mod
        /\ LabelsFound(e) /\ Len(e.frames) = Len(p.cs)
    BY MatchLive, Zenon DEF Joint
  <1>1. i.l \in 0 .. Len(e.frames) - 1
    BY <1>0, SeqHas DEF HasLabel, CompilerState
  <1>2. /\ CompilerState(h) /\ Alike(e.frames, h.frames) /\ h.depth = e.depth /\ ~ h.on /\ h.err = e.err /\ h.mod = e.mod
        /\ LabelsFound(h)
        /\ i.op # "br_on_null" => h.stack = e.stack
        /\ i.op = "br_on_null" => /\ Len(h.stack) = Len(e.stack) + 1
                                  /\ \A k \in 1 .. Len(e.stack) : h.stack[k] = e.stack[k]
                                  /\ h.stack[Len(e.stack) + 1] = U("tref")
    BY <1>0, <1>1, CompileBrIf, Zenon
  <1> HIDE DEF h
  <1>3. Took(p, x, ts, ts) /\ Known(x) /\ Above(x)
    BY <1>0, TookTakes
  <1>4. Agrees(x, e, L)
    BY <1>0, <1>3, AgreesSame
  <1>5. x.cs = p.cs /\ x.limits = p.limits
    BY <1>3 DEF Took
  <1>6. Above(w) /\ w.cs = p.cs /\ w.limits = p.limits /\ w.status = "ok" /\ Agrees(w, h, L)
    <2>1. CASE i.op # "br_on_null"
      <3>1. Agrees(x, h, L)
        BY <1>2, <1>4, <2>1, Zenon DEF Agrees
      <3> QED
        BY <1>3, <1>5, <2>1, <3>1
    <2>2. CASE i.op = "br_on_null"
      <3>1. PICK t \in ValueTypes : U(t) = U("tref") /\ w = push(x, t)
        BY <2>2
      <3> DEFINE none == <<>>
                 out == <<t>>
      <3>2. none \in Seq(ValueTypes) /\ Len(none) = 0 /\ out \in Seq(ValueTypes) /\ Len(out) = 1 /\ out[1] = t
        OBVIOUS
      <3>3. Took(x, x, none, none)
        BY <1>3, TookNone
      <3>4. Took(x, w, none, out) /\ Known(w) /\ Above(w) /\ w.status = x.status
        BY <1>3, <3>1, <3>2, <3>3, TookPush, Zenon
      <3> HIDE DEF none, out
      <3>5. Replaces(e, h, none, out)
        <4>1. Len(e.stack) \in Nat
          BY <1>0, SeqHas DEF CompilerState
        <4>2. Len(e.stack) - Len(none) = Len(e.stack) /\ \A k \in 1 .. 1 : k = 1
          BY <3>2, <4>1
        <4> QED
          BY <1>2, <2>2, <3>1, <3>2, <4>2 DEF Replaces
      <3>6. Agrees(w, h, L)
        BY <1>3, <1>4, <3>2, <3>4, <3>5, AgreesTook, Zenon
      <3>7. w.cs = x.cs /\ w.limits = x.limits
        BY <3>4 DEF Took
      <3> QED
        BY <1>5, <3>4, <3>6, <3>7
    <2> QED
      BY <2>1, <2>2
  <1>7. Matched(w, h, mod, L)
    BY <1>0, <1>2, <1>6, MatchNext, Zenon
  <1> QED
    BY <1>2, <1>7 DEF Joint, h

(* Requiring types and pushing them back is an operator from those types to themselves. *)
LEMMA RequireIsTakes ==
    ASSUME NEW v, NEW ts
    PROVE  pushAll(requireStackValues(v, ts, FALSE), ts) = takes(v, ts, ts)
  BY DEF requireStackValues, takes

(* Pushing one type more. *)
LEMMA PushOneMore ==
    ASSUME NEW v, Above(v), NEW ts \in Seq(StackTypes), NEW t \in StackTypes
    PROVE  pushAll(v, Append(ts, t)) = push(pushAll(v, ts), t)
  <1> DEFINE s == v.stack
             a == s \o Append(ts, t)
             b == Append(s \o ts, t)
  <1>0. s \in Seq(StackTypes) /\ v \in ValidatorStates
    BY DEF Above, ValidatorStates
  <1> HIDE DEF s
  <1>1. a = b
    <2>0. IsSeq(s) /\ IsSeq(ts) /\ Len(s) \in Nat /\ Len(ts) \in Nat
      BY <1>0, SeqIs
    <2> DEFINE q == Append(ts, t)
               r == s \o ts
    <2>1. IsSeq(q) /\ Len(q) = Len(ts) + 1 /\ (\A k \in 1 .. Len(ts) : q[k] = ts[k]) /\ q[Len(ts) + 1] = t
      BY <2>0, AppendIs
    <2>2. IsSeq(r) /\ Len(r) = Len(s) + Len(ts) /\ (\A k \in 1 .. Len(s) : r[k] = s[k]) /\ \A k \in 1 .. Len(ts) : r[Len(s) + k] = ts[k]
      BY <2>0, ConcatIs
    <2> HIDE DEF q, r
    <2>3. IsSeq(b) /\ Len(b) = Len(r) + 1 /\ (\A k \in 1 .. Len(r) : b[k] = r[k]) /\ b[Len(r) + 1] = t
      <3>1. b = Append(r, t) /\ IsSeq(r)
        BY <2>2 DEF r
      <3> HIDE DEF b
      <3> QED
        BY <3>1, AppendIs
    <2>4. IsSeq(a) /\ Len(a) = Len(s) + Len(q) /\ (\A k \in 1 .. Len(s) : a[k] = s[k]) /\ \A k \in 1 .. Len(q) : a[Len(s) + k] = q[k]
      <3>1. a = s \o q /\ IsSeq(s) /\ IsSeq(q)
        BY <2>0, <2>1 DEF q
      <3> HIDE DEF a
      <3> QED
        BY <3>1, ConcatIs
    <2> HIDE DEF a, b
    <2>5. Len(a) = Len(b)
      BY <2>0, <2>1, <2>2, <2>3, <2>4
    <2>6. ASSUME NEW k \in 1 .. Len(a) PROVE a[k] = b[k]
      <3>1. CASE k <= Len(s)
        <4>1. k \in 1 .. Len(s) /\ k \in 1 .. Len(r)
          BY <2>0, <2>2, <3>1
        <4> QED
          BY <2>2, <2>3, <2>4, <4>1
      <3>2. CASE k > Len(s)
        <4> DEFINE j == k - Len(s)
        <4>1. j \in 1 .. Len(q) /\ k = Len(s) + j
          BY <2>0, <2>1, <2>4, <3>2
        <4> HIDE DEF j
        <4>2. a[k] = q[j]
          BY <2>4, <4>1
        <4>3. CASE j <= Len(ts)
          <5>1. j \in 1 .. Len(ts) /\ k \in 1 .. Len(r)
            BY <2>0, <2>1, <2>2, <4>1, <4>3
          <5> QED
            BY <2>1, <2>2, <2>3, <4>1, <4>2, <5>1
        <4>4. CASE ~ (j <= Len(ts))
          <5>1. j = Len(ts) + 1 /\ k = Len(r) + 1
            BY <2>0, <2>1, <2>2, <4>1, <4>4
          <5> QED
            BY <2>1, <2>3, <4>2, <5>1
        <4> QED
          BY <4>3, <4>4
      <3> QED
        BY <2>0, <3>1, <3>2
    <2> QED
      BY <2>3, <2>4, <2>5, <2>6, IsSeqEqual
  <1> HIDE DEF a, b
  <1>2. pushAll(v, Append(ts, t)) = [v EXCEPT !.stack = a]
    BY DEF pushAll, a, s
  <1>3. push(pushAll(v, ts), t) = [v EXCEPT !.stack = b]
    <2> DEFINE x == [v EXCEPT !.stack = s \o ts]
    <2>1. pushAll(v, ts) = x /\ x.stack = s \o ts
      BY <1>0 DEF pushAll, s, ValidatorStates
    <2>2. push(x, t) = [x EXCEPT !.stack = b]
      BY <2>1 DEF push, b
    <2>3. [x EXCEPT !.stack = b] = [v EXCEPT !.stack = b]
      BY <1>0, Zenon DEF ValidatorStates
    <2> QED
      BY <2>1, <2>2, <2>3
  <1> QED
    BY <1>1, <1>2, <1>3

(* br_if, br_on_null and br_on_non_null: validator and compiler stay joined. *)
LEMMA BrIfStep ==
    ASSUME NEW v, NEW c, NEW mod, NEW L \in Nat, Joint(v, c, mod, L), ~ c.on,
           NEW f, NEW i, Decoded(i), i.op \in BrIfOps, Validate(v, mod, f, i).status = "ok"
    PROVE  Joint(Validate(v, mod, f, i), Handle(c, f, i), mod, L)
  <1> DEFINE w == Validate(v, mod, f, i)
             e == applyToStack(c, f, i)
             ts == LabelTypes(Target(v, i.l))
  <1>0. Above(v) /\ Known(v) /\ v.cs # <<>> /\ i.l \in Nat /\ fail(v).status # "ok" /\ v \in ValidatorStates
    BY MatchLive, KeepsFail, Zenon DEF Joint, Decoded, Above
  <1>1. /\ i.op = "br_if" => w = validateBrIf(v, i)
        /\ i.op = "br_on_null" => w = validateBrOnNull(v, i)
        /\ i.op = "br_on_non_null" => w = validateBrOnNonNull(v, i)
    BY <1>0, Zenon DEF Validate
  <1>w. w.status = "ok"
    OBVIOUS
  <1> HIDE DEF w
  <1>2. HasLabel(v, i.l)
    BY <1>0, <1>1, <1>w, Zenon DEF BrIfOps, validateBrIf, validateBrOnNull, validateBrOnNonNull
  <1>3. ts \in Seq(ValueTypes)
    BY <1>0, <1>2, LabelTypesType
  <1> DEFINE P(p, us, x) == p.status = "ok" /\ us \in Seq(ValueTypes) /\ x = takes(p, us, us) /\ x.status = "ok"
  <1>5. ASSUME NEW p, Known(p), Above(p), NEW us, NEW x, P(p, us, x),
               NEW t \in ValueTypes, Took(v, p, <<t>>, <<>>), i.op = "br_if" => t = "i32", i.op # "br_if" => isReferenceValueType(t),
               i.op # "br_on_null" => w = x,
               i.op = "br_on_null" => \E r \in ValueTypes : U(r) = U("tref") /\ w = push(x, r)
        PROVE  Joint(w, Handle(c, f, i), mod, L)
    <2> DEFINE u == IF i.op = "br_if" THEN "i32" ELSE "tref"
    <2>1. wasmOpcodeSignature(mod, f, i).in = <<u>> /\ wasmOpcodeSignature(mod, f, i).out = <<>>
      BY OtherSignatures DEF BrIfOps
    <2>2. u \in ValueTypes /\ U(t) = U(u)
      <3>1. CASE i.op = "br_if"
        BY <1>5, <3>1 DEF ValueTypes
      <3>2. CASE i.op # "br_if"
        BY <1>5, <3>2, ReferencesAreWords DEF ValueTypes, Nullable
      <3> QED
        BY <3>1, <3>2
    <2> HIDE DEF u
    <2>3. Joint(p, e, mod, L) /\ ~ e.on /\ HandledAs(c, f, i, e, Handle(c, f, i))
      BY <1>5, <2>1, <2>2, ApplyOne
    <2>4. Handle(c, f, i) = compileBrIf(e, i)
      BY <2>3 DEF HandledAs
    <2> HIDE DEF e
    <2>5. HasLabel(p, i.l)
      BY <1>2, <1>5 DEF Took, HasLabel
    <2>6. Joint(w, compileBrIf(e, i), mod, L)
      BY <1>0, <1>5, <2>3, <2>5, BrIfTo
    <2> QED
      BY <2>4, <2>6
  <1>6. ASSUME NEW p, Above(p), NEW us \in Seq(ValueTypes), takes(p, us, us).status = "ok"
        PROVE  p.status = "ok"
    <2>1. Keeps(p, takes(p, us, us))
      BY <1>6, KeepsTakes, ValueSeqs
    <2> QED
      BY <1>6, <2>1 DEF Keeps
  <1> HIDE DEF ts
  <1>7. CASE i.op = "br_if"
    <2> DEFINE p == popAndVerifyType(v, "i32")
    <2>1. w = takes(p, ts, ts)
      BY <1>1, <1>2, <1>7, RequireIsTakes, Zenon DEF validateBrIf, ts
    <2>2. Above(p) /\ "i32" \in ValueTypes
      BY <1>0, KeepsPopVerify, KeepsAbove DEF ValueTypes
    <2>3. p.status = "ok"
      BY <1>3, <1>6, <1>w, <2>1, <2>2
    <2>4. Took(v, p, <<"i32">>, <<>>) /\ Known(p)
      BY <1>0, <2>2, <2>3, TookPopVerify
    <2> HIDE DEF p
    <2> QED
      BY <1>3, <1>5, <1>7, <1>w, <2>1, <2>2, <2>3, <2>4 DEF w
  <1>8. CASE i.op \in {"br_on_null", "br_on_non_null"}
    <2> DEFINE p == tryPop(v)
               t == TopType(v)
               nn == AsNonNullable(t)
    <2>1. IsRefOperand(v)
      BY <1>0, <1>1, <1>8, <1>w, Zenon DEF validateBrOnNull, validateBrOnNonNull
    <2>2. t \in ValueTypes /\ isReferenceValueType(t)
      BY <1>0, <2>1, TopKnown DEF IsRefOperand
    <2>3. nn \in ValueTypes /\ U(nn) = U("tref")
      <3>1. isReferenceValueType(nn)
        BY <2>2 DEF AsNonNullable, isReferenceValueType, NonNullable, Nullable
      <3> QED
        BY <3>1, ReferencesAreWords, ReferencesAreTypes
    <2>4. Above(p)
      BY <1>0, KeepsTryPop, KeepsAbove
    <2>5. ASSUME p.status = "ok" PROVE Took(v, p, <<t>>, <<>>) /\ Known(p)
      BY <1>0, <2>5, TookTryPop
    <2>6. CASE i.op = "br_on_null"
      <3> DEFINE x == takes(p, ts, ts)
      <3>1. w = pushAll(requireStackValues(p, ts, FALSE), Append(ts, nn))
        BY <1>1, <1>2, <2>1, <2>6 DEF validateBrOnNull, ts
      <3> DEFINE q == popAll(p, ts)
      <3>2. w = pushAll(q, Append(ts, nn)) /\ x = pushAll(q, ts)
        BY <3>1 DEF requireStackValues, takes
      <3>3. Above(q)
        BY <1>3, <2>4, KeepsPopAll, KeepsAbove
      <3> HIDE DEF q, p, nn, t
      <3>4. w = push(x, nn) /\ Above(x)
        BY <1>3, <2>3, <3>2, <3>3, PushOneMore, ValueSeqs, KeepsPushAll, KeepsAbove DEF StackTypes
      <3> HIDE DEF x
      <3>5. x.status = "ok"
        BY <1>w, <2>3, <3>4, KeepsPush DEF StackTypes
      <3>6. p.status = "ok"
        BY <1>3, <1>6, <2>4, <3>5 DEF x
      <3>7. P(p, ts, x)
        BY <1>3, <3>5, <3>6 DEF x
      <3> HIDE DEF P
      <3> QED
        BY <1>5, <2>2, <2>3, <2>4, <2>5, <2>6, <3>4, <3>6, <3>7 DEF w
    <2>7. CASE i.op = "br_on_non_null"
      <3> DEFINE us == Front(ts)
                 x == takes(p, us, us)
      <3>1. ts # <<>> /\ w = x
        <4>1. ts # <<>> /\ w = pushAll(requireStackValues(p, us, FALSE), us)
          BY <1>0, <1>1, <1>2, <1>w, <2>1, <2>7, Zenon DEF validateBrOnNonNull, ts
        <4> QED
          BY <4>1, RequireIsTakes, Zenon
      <3>2. us \in Seq(ValueTypes)
        BY <1>3, <3>1, FrontIsPrefix
      <3> HIDE DEF us, p, t
      <3>3. x.status = "ok"
        BY <1>w, <3>1
      <3>4. p.status = "ok"
        BY <1>6, <2>4, <3>2, <3>3
      <3>5. P(p, us, x)
        BY <3>2, <3>3, <3>4
      <3> HIDE DEF P, x
      <3> QED
        BY <1>5, <2>2, <2>4, <2>5, <2>7, <3>1, <3>4, <3>5 DEF w
    <2> QED
      BY <1>8, <2>6, <2>7
  <1> QED
    BY <1>7, <1>8 DEF BrIfOps

-----------------------------------------------------------------------------
(* Blocks. *)
Entered(v, w, bt) ==
    LET n == Len(v.cs)
    IN  /\ Nested(w) /\ Len(w.cs) = n + 1 /\ w.cs[n + 1].bt = bt
        /\ \A k \in 1 .. n : w.cs[k] = v.cs[k]
        /\ \A k \in 1 .. n : LimitOf(w, k) = LimitOf(v, k)
        /\ LimitOf(w, n + 1) = Len(w.stack) - Len(bt.params)
        /\ w.stack = takes(v, bt.params, bt.params).stack /\ takes(v, bt.params, bt.params).status = "ok"
        /\ \A k \in 1 .. Limit(v) : w.stack[k] = v.stack[k]

(* What the validator's stack, limits and blocks are after a block is entered. *)
LEMMA EnterFacts ==
    ASSUME NEW v, Nested(v), NEW i, i.op \in BlockNames, i.bt \in FuncTypes, NEW saved \in SUBSET Nat, enter(v, i, saved).status = "ok"
    PROVE  Entered(v, enter(v, i, saved), i.bt)
  <1> DEFINE ps == i.bt.params
             q == popAll(v, ps)
             x == pushAll(q, ps)
             b == [op |-> i.op, bt |-> i.bt, saved |-> saved]
             m == Len(x.stack) - Len(ps)
             cs == Append(v.cs, b)
             ls == Append(v.limits, m)
             w == [x EXCEPT !.cs = cs, !.limits = ls]
             n == Len(v.cs)
  <1>0. Above(v) /\ v \in ValidatorStates /\ v.cs \in Seq(ControlBlocks) /\ v.limits \in Seq(Nat) /\ v.cs # <<>> /\ v.cs[1].op = "func"
        /\ Len(v.limits) = n - 1 /\ n \in Nat \ {0} /\ Limit(v) \in Nat
    BY NestedFacts, Zenon DEF Nested, Above, ValidatorStates
  <1>1. ps \in Seq(ValueTypes) /\ ps \in Seq(StackTypes) /\ Len(ps) \in Nat
    BY ValueSeqs DEF FuncTypes
  <1> HIDE DEF ps
  <1>2. Keeps(v, q) /\ Above(q)
    BY <1>0, <1>1, KeepsPopAll, KeepsAbove
  <1>3. Keeps(q, x) /\ x.status = q.status /\ Keeps(v, x)
    BY <1>0, <1>1, <1>2, KeepsPushAll, KeepsTrans
  <1>4. x = takes(v, ps, ps) /\ requireStackValues(v, ps, FALSE) = q
    BY DEF takes, requireStackValues
  <1>5. /\ x \in ValidatorStates /\ x.cs = v.cs /\ x.limits = v.limits /\ \A k \in 1 .. Limit(v) : x.stack[k] = v.stack[k]
        /\ q \in ValidatorStates /\ Limit(v) <= Len(q.stack) /\ Len(q.stack) \in Nat
    BY <1>2, <1>3, LimitType DEF Keeps
  <1>6. enter(v, i, saved) = w
    BY <1>4, <1>5, Zenon DEF enter, ps
  <1>7. x.stack = q.stack \o ps
    BY <1>5, Zenon DEF pushAll, ValidatorStates
  <1>8. Len(x.stack) = Len(q.stack) + Len(ps)
    <2>1. q.stack \in Seq(StackTypes)
      BY <1>5 DEF ValidatorStates
    <2> HIDE DEF x, q
    <2> QED
      BY <1>1, <1>7, <2>1
  <1>s. x.stack \in Seq(StackTypes)
    BY <1>5 DEF ValidatorStates
  <1> HIDE DEF q, x
  <1>9. m \in Nat /\ Limit(v) <= m /\ m <= Len(x.stack)
    BY <1>1, <1>5, <1>8
  <1>b. b \in ControlBlocks /\ b.bt = i.bt
    BY DEF ControlBlocks
  <1> HIDE DEF b, m
  <1>10. /\ cs \in Seq(ControlBlocks) /\ Len(cs) = n + 1 /\ cs[n + 1] = b /\ (\A k \in 1 .. n : cs[k] = v.cs[k]) /\ cs # <<>>
    <2>1. IsSeq(v.cs)
      BY <1>0, SeqIs
    <2> DEFINE r == v.cs
    <2>2. r \in Seq(ControlBlocks)
      BY <1>0
    <2> HIDE DEF r
    <2>3. Append(r, b) \in Seq(ControlBlocks)
      BY <1>b, <2>2
    <2> QED
      BY <2>1, <2>3, AppendIs DEF r
  <1>11. /\ ls \in Seq(Nat) /\ Len(ls) = n /\ ls[n] = m /\ (\A k \in 1 .. n - 1 : ls[k] = v.limits[k]) /\ ls # <<>>
    <2>1. IsSeq(v.limits)
      BY <1>0, SeqIs
    <2> DEFINE r == v.limits
    <2>2. r \in Seq(Nat) /\ IsSeq(r) /\ Len(r) = n - 1
      BY <1>0, <2>1
    <2> HIDE DEF r
    <2>3. Append(r, m) \in Seq(Nat)
      BY <1>9, <2>2
    <2>4. /\ Len(Append(r, m)) = Len(r) + 1 /\ (\A k \in 1 .. Len(r) : Append(r, m)[k] = r[k])
          /\ Append(r, m)[Len(r) + 1] = m /\ Append(r, m) # <<>>
      BY <2>2, AppendIs
    <2>5. Len(r) + 1 = n
      BY <1>0, <2>2
    <2> QED
      BY <2>2, <2>3, <2>4, <2>5, Zenon DEF r
  <1> HIDE DEF cs, ls
  <1>12. w \in ValidatorStates /\ w.cs = cs /\ w.limits = ls /\ w.stack = x.stack /\ w.status = x.status
    BY <1>5, <1>10, <1>11, Zenon DEF ValidatorStates
  <1>st. w.status = "ok"
    BY <1>6
  <1> HIDE DEF w
  <1>13. Limit(w) = m
    BY <1>11, <1>12, FrontIsPrefix DEF Limit
  <1>lo. \A j \in 1 .. n - 1 : v.limits[j] \in Nat /\ v.limits[j] <= Limit(v)
    <2> SUFFICES ASSUME NEW j \in 1 .. n - 1 PROVE v.limits[j] \in Nat /\ v.limits[j] <= Limit(v)
      OBVIOUS
    <2>1. j + 1 \in 1 .. n /\ j + 1 # 1 /\ j + 1 - 1 = j
      BY <1>0
    <2>2. LimitOf(v, j + 1) = v.limits[j]
      BY <2>1 DEF LimitOf
    <2> QED
      BY <2>1, <2>2, NestedFacts
  <1>mo. \A j, k \in 1 .. n - 1 : j <= k => v.limits[j] <= v.limits[k]
    BY <1>0 DEF Nested
  <1>n. n \in Nat \ {0}
    BY <1>0
  <1>lim. Limit(v) \in Nat
    BY <1>0
  <1>14. \A j, k \in 1 .. Len(ls) : j <= k => ls[j] <= ls[k]
    <2> HIDE DEF n
    <2> DEFINE lv == Limit(v)
    <2> HIDE DEF lv
    <2>0. lv \in Nat /\ lv <= m /\ m \in Nat /\ (\A j \in 1 .. n - 1 : v.limits[j] \in Nat /\ v.limits[j] <= lv)
      BY <1>9, <1>lo, <1>lim DEF lv
    <2> SUFFICES ASSUME NEW j \in 1 .. n, NEW k \in 1 .. n, j <= k PROVE ls[j] <= ls[k]
      BY <1>11
    <2>1. CASE k <= n - 1
      <3>1. j \in 1 .. n - 1 /\ k \in 1 .. n - 1
        BY <1>n, <2>1
      <3> QED
        BY <1>11, <1>mo, <3>1, Zenon
    <2>2. CASE k = n
      <3>1. CASE j = n
        BY <1>9, <1>11, <2>2, <3>1
      <3>2. CASE j # n
        <4>1. j \in 1 .. n - 1
          BY <1>n, <3>2
        <4>2. ls[j] = v.limits[j] /\ ls[k] = m
          BY <1>11, <2>2, <4>1
        <4>3. v.limits[j] \in Nat /\ v.limits[j] <= lv
          BY <2>0, <4>1
        <4> QED
          BY <2>0, <4>2, <4>3
      <3> QED
        BY <3>1, <3>2
    <2>3. k <= n - 1 \/ k = n
      BY <1>n
    <2> QED
      BY <2>1, <2>2, <2>3
  <1>15. Nested(w)
    <2>1. Above(w)
      BY <1>9, <1>12, <1>13 DEF Above
    <2>2. w.cs[1] = v.cs[1]
      <3>1. 1 \in 1 .. n
        BY <1>0
      <3> QED
        BY <1>10, <1>12, <3>1
    <2>3. Len(w.limits) = Len(w.cs) - 1
      BY <1>0, <1>10, <1>11, <1>12
    <2> QED
      BY <1>0, <1>10, <1>12, <1>14, <1>st, <2>1, <2>2, <2>3 DEF Nested
  <1>16. ASSUME NEW k \in 1 .. n PROVE LimitOf(w, k) = LimitOf(v, k)
    <2>1. CASE k = 1
      BY <2>1 DEF LimitOf
    <2>2. CASE k # 1
      <3>1. k - 1 \in 1 .. n - 1
        BY <1>0, <2>2
      <3> QED
        BY <1>11, <1>12, <2>2, <3>1 DEF LimitOf
    <2> QED
      BY <2>1, <2>2
  <1>17. LimitOf(w, n + 1) = m
    BY <1>0, <1>11, <1>12 DEF LimitOf
  <1>18. x.status = "ok" /\ m = Len(w.stack) - Len(ps)
    BY <1>12, <1>st DEF m
  <1> QED
    BY <1>4, <1>5, <1>6, <1>10, <1>12, <1>15, <1>16, <1>17, <1>18, <1>b, Zenon DEF ps, Entered

(* In code that cannot be reached. *)
LEMMA EnterOff ==
    ASSUME NEW v, NEW c, NEW mod, NEW L \in Nat, Joint(v, c, mod, L), c.on,
           NEW i, i.op \in BlockNames, i.bt \in FuncTypes, NEW saved \in SUBSET Nat, enter(v, i, saved).status = "ok"
    PROVE  Joint(enter(v, i, saved), [c EXCEPT !.depth = @ + 1], mod, L)
  <1> DEFINE w == enter(v, i, saved)
             m == c.depth + 1
             d == [c EXCEPT !.depth = m]
             n == Len(v.cs)
             k0 == Len(c.frames)
  <1>0. /\ Nested(v) /\ CompilerState(c) /\ c.err = FALSE /\ c.mod = mod /\ SameBlocks(v, c.frames, L)
        /\ Len(c.frames) + c.depth = Len(v.cs) /\ SameOperands(v, c, L) /\ LabelsFound(c) /\ c.depth \in Nat
    BY DEF Joint, Matched, CompilerState
  <1>1. /\ Nested(w) /\ Len(w.cs) = n + 1
        /\ \A k \in 1 .. n : w.cs[k] = v.cs[k]
        /\ \A k \in 1 .. n : LimitOf(w, k) = LimitOf(v, k)
        /\ \A k \in 1 .. Limit(v) : w.stack[k] = v.stack[k]
    <2>1. Nested(v)
      BY <1>0
    <2>2. Entered(v, w, i.bt)
      BY <2>1, EnterFacts
    <2> QED
      BY <2>2 DEF Entered
  <1>2. /\ CompilerState(d) /\ d.depth = m
        /\ d.stack = c.stack /\ d.ops = c.ops /\ d.frames = c.frames /\ d.on = c.on
        /\ d.table = c.table /\ d.err = c.err /\ d.mod = c.mod
    <2>1. CompilerState(c) /\ m \in Nat
      BY <1>0
    <2> HIDE DEF m
    <2> QED
      BY <2>1, DepthFacts, Zenon
  <1> HIDE DEF w, d
  <1>3. n \in Nat \ {0} /\ k0 \in 1 .. n /\ k0 \in Nat /\ (\A k \in 1 .. n : LimitOf(v, k) \in Nat /\ LimitOf(v, k) <= Limit(v)) /\ Limit(v) \in Nat
    BY <1>0, NestedFacts DEF SameBlocks
  <1>4. SameBlocks(w, d.frames, L)
    <2>1. Len(d.frames) \in 1 .. Len(w.cs)
      BY <1>1, <1>2, <1>3
    <2>2. ASSUME NEW k \in 1 .. Len(d.frames)
          PROVE  /\ d.frames[k].bt = w.cs[k].bt
                 /\ d.frames[k].len = IF k = 1 THEN 0 ELSE L + w.limits[k - 1]
                 /\ d.frames[k].kind = "func" <=> k = 1
      <3>1. k \in 1 .. n
        BY <1>2, <1>3
      <3>2. w.cs[k] = v.cs[k] /\ LimitOf(w, k) = LimitOf(v, k)
        BY <1>1, <3>1
      <3>3. k # 1 => w.limits[k - 1] = v.limits[k - 1]
        BY <3>2 DEF LimitOf
      <3> QED
        BY <1>0, <1>2, <3>2, <3>3 DEF SameBlocks
    <2> QED
      BY <2>1, <2>2 DEF SameBlocks
  <1>5. Reach(w, d) = Reach(v, c) /\ Reach(v, c) \in Nat /\ Reach(v, c) <= Limit(v)
    BY <1>1, <1>2, <1>3 DEF Reach
  <1>6. SameOperands(w, d, L)
    <2>1. ASSUME NEW k \in 1 .. Reach(w, d) PROVE w.stack[k] \in ValueTypes /\ d.stack[L + k] = U(w.stack[k])
      <3>1. k \in 1 .. Reach(v, c) /\ k \in 1 .. Limit(v)
        BY <1>3, <1>5
      <3> QED
        BY <1>0, <1>1, <1>2, <3>1, Zenon DEF SameOperands
    <2> QED
      BY <1>0, <1>2, <1>5, <2>1, Zenon DEF SameOperands
  <1>7. Matched(w, d, mod, L)
    <2>1. Len(d.frames) + d.depth = Len(w.cs)
      <3>1. k0 \in Nat /\ n \in Nat /\ c.depth \in Nat /\ k0 + c.depth = n /\ Len(w.cs) = n + 1 /\ Len(d.frames) = k0 /\ d.depth = c.depth + 1
        BY <1>0, <1>1, <1>2, <1>3
      <3> HIDE DEF n, k0
      <3> QED
        BY <3>1
    <2> QED
      BY <1>0, <1>1, <1>2, <1>4, <1>6, <2>1 DEF Matched
  <1>8. LabelsFound(d)
    BY <1>0, <1>2, MoreSame, LabelsMore
  <1> QED
    BY <1>7, <1>8 DEF Joint, w, d

(* The parts of the relation in code that can be reached. *)
LEMMA MatchBuilt ==
    ASSUME NEW w, Nested(w), NEW d, CompilerState(d), d.err = FALSE, NEW L \in Nat, SameBlocks(w, d.frames, L),
           Len(d.frames) = Len(w.cs), d.depth = 0, ~ d.on, Agrees(w, d, L)
    PROVE  Matched(w, d, d.mod, L)
  <1>1. Len(w.stack) \in Nat /\ Len(w.cs) \in Nat
    BY NestedFacts
  <1>2. SameOperands(w, d, L)
    BY <1>1 DEF SameOperands, Agrees, Reach
  <1>3. Len(d.frames) + d.depth = Len(w.cs)
    BY <1>1
  <1> QED
    BY <1>2, <1>3 DEF Matched

(* One frame more. *)
LabelsOpened(c, d, x) ==
    /\ LabelsBut(d, {x}) /\ \A t : Given(c, t) \/ Due(c, t) => Given(d, t) \/ Due(d, t)
    /\ d.frames[Len(d.frames)].kind # "loop" => LabelsFound(d)
    /\ \A t : Emits(d.frames[Len(d.frames)], t) => Due(d, t)

(* A frame just pushed leaves only its header label to be given. *)
LEMMA ButPush ==
    ASSUME NEW c, NEW d, NEW kind, NEW bt, LabelsFound(c), FramePushed(c, d, kind, bt),
           NEW x, x = <<"header", d.frames[Len(d.frames)].id>>
    PROVE  LabelsOpened(c, d, x)
  <1> DEFINE n == Len(c.frames)
  <1>0. d.ops = c.ops /\ d.table = c.table /\ n \in Nat /\ Len(d.frames) = n + 1 /\ \A k \in 1 .. n : d.frames[k] = c.frames[k]
    BY DEF FramePushed
  <1>1. More(c, d)
    BY <1>0, MoreSame
  <1>2. \A k \in 1 .. n : k \in 1 .. Len(d.frames) /\ d.frames[k] = c.frames[k]
    BY <1>0
  <1>3. Len(d.frames) \in 1 .. Len(d.frames) /\ \A k \in 1 .. Len(d.frames) : k \in 1 .. n \/ k = Len(d.frames)
    BY <1>0
  <1>4. \A t : Due(c, t) => Due(d, t)
    BY <1>2 DEF Due
  <1>5. \A t : Given(c, t) \/ Due(c, t) => Given(d, t) \/ Due(d, t)
    BY <1>1, <1>4 DEF More
  <1>6. \A t : Wanted(d, t) => Given(d, t) \/ Due(d, t)
    BY <1>1, <1>5 DEF More, LabelsFound
  <1>7. ASSUME NEW k \in 1 .. Len(d.frames), d.frames[k].kind = "loop", k # Len(d.frames) PROVE Given(d, <<"header", d.frames[k].id>>)
    <2>1. k \in 1 .. n /\ d.frames[k] = c.frames[k]
      BY <1>2, <1>3, <1>7
    <2>2. Given(c, <<"header", c.frames[k].id>>)
      BY <1>7, <2>1 DEF LabelsFound
    <2> QED
      BY <1>1, <2>1, <2>2 DEF More
  <1>8. LabelsBut(d, {x})
    <2>1. ASSUME NEW k \in 1 .. Len(d.frames), d.frames[k].kind = "loop"
          PROVE  Given(d, <<"header", d.frames[k].id>>) \/ <<"header", d.frames[k].id>> \in {x}
      BY <1>7, <2>1
    <2> QED
      BY <1>6, <2>1 DEF LabelsBut
  <1>9. d.frames[Len(d.frames)].kind # "loop" => LabelsFound(d)
    BY <1>6, <1>7 DEF LabelsFound
  <1>10. \A t : Emits(d.frames[Len(d.frames)], t) => Due(d, t)
    BY <1>3 DEF Due
  <1> QED
    BY <1>5, <1>8, <1>9, <1>10 DEF LabelsOpened

(* A frame for a block that the validator entered. *)
Opened(w, e, g, kind, mod, L) ==
    /\ Matched(w, g, mod, L) /\ CompilerState(g) /\ ~ g.on
    /\ LabelsBut(g, {<<"header", g.id>>})
    /\ kind # "loop" => LabelsFound(g)
    /\ \A t : Given(e, t) \/ Due(e, t) => Given(g, t) \/ Due(g, t)
    /\ kind \notin {"func", "loop", "block"} => Due(g, <<"continuation", g.id>>)
    /\ kind = "if" => Due(g, <<"else", g.id>>)
    /\ g.table = e.table /\ g.ops = e.ops

(* Entering a block in reachable code opens a frame that stands for it. *)
LEMMA EnterLive ==
    ASSUME NEW v, NEW e, NEW mod, NEW L \in Nat, Joint(v, e, mod, L), ~ e.on,
           NEW i, i.op \in BlockNames, i.bt \in FuncTypes, NEW saved \in SUBSET Nat, enter(v, i, saved).status = "ok",
           NEW kind \in Kinds, kind # "func"
    PROVE  Opened(enter(v, i, saved), e, pushFrame(e, kind, i.bt), kind, mod, L)
  <1> DEFINE w == enter(v, i, saved)
             g == pushFrame(e, kind, i.bt)
             ps == i.bt.params
             x == takes(v, ps, ps)
             n == Len(v.cs)
  <1>0. /\ Matched(v, e, mod, L) /\ Above(v) /\ Known(v) /\ Agrees(v, e, L) /\ CompilerState(e) /\ e.err = FALSE /\ e.mod = mod
        /\ LabelsFound(e) /\ Len(e.frames) = Len(v.cs) /\ e.depth = 0
    BY MatchLive, Zenon DEF Joint
  <1>1. Nested(v) /\ SameBlocks(v, e.frames, L)
    BY <1>0 DEF Matched
  <1>2. Entered(v, w, i.bt)
    BY <1>1, EnterFacts
  <1>3. ps \in Seq(ValueTypes) /\ Len(ps) \in Nat
    BY DEF FuncTypes
  <1>4. x.status = "ok" /\ w.stack = x.stack /\ Nested(w) /\ Len(w.cs) = n + 1 /\ w.cs[n + 1].bt = i.bt
        /\ LimitOf(w, n + 1) = Len(w.stack) - Len(ps)
    BY <1>2, Zenon DEF Entered
  <1>e. \A k \in 1 .. n : w.cs[k] = v.cs[k] /\ LimitOf(w, k) = LimitOf(v, k)
    BY <1>2 DEF Entered
  <1> HIDE DEF ps
  <1>5. Took(v, x, ps, ps) /\ Known(x)
    BY <1>0, <1>3, <1>4, TookTakes
  <1>6. Agrees(x, e, L)
    BY <1>0, <1>3, <1>5, AgreesSame
  <1>7. Len(ps) <= Len(e.stack)
    BY <1>0, <1>3, <1>5, AgreesIn
  <1>f. FramePushed(e, g, kind, i.bt)
    <2> DEFINE bt == i.bt
    <2>1. CompilerState(e) /\ bt \in FuncTypes /\ Len(bt.params) <= Len(e.stack)
      BY <1>0, <1>7 DEF ps
    <2> HIDE DEF bt
    <2>2. FramePushed(e, pushFrame(e, kind, bt), kind, bt)
      BY <2>1, PushFrameFacts
    <2> QED
      BY <2>2 DEF bt
  <1>8. /\ CompilerState(g) /\ n \in Nat /\ Len(g.frames) = n + 1
        /\ (\A k \in 1 .. n : g.frames[k] = e.frames[k])
        /\ g.frames[n + 1].id = g.id /\ g.frames[n + 1].kind = kind /\ g.frames[n + 1].bt = i.bt
        /\ g.frames[n + 1].len = Len(e.stack) - Len(ps)
        /\ g.stack = e.stack /\ g.ops = e.ops /\ g.depth = e.depth /\ g.on = e.on
        /\ g.table = e.table /\ g.err = e.err /\ g.mod = e.mod
    BY <1>0, <1>f DEF ps, FramePushed
  <1> HIDE DEF w, g, x
  <1>9. Agrees(w, g, L)
    BY <1>4, <1>6, <1>8 DEF Agrees
  <1>n. n \in Nat \ {0} /\ Len(w.stack) \in Nat /\ Len(e.stack) = L + Len(w.stack)
    BY <1>1, <1>4, <1>6, NestedFacts DEF Agrees
  <1>10. SameBlocks(w, g.frames, L)
    <2> HIDE DEF n
    <2>1. Len(g.frames) \in 1 .. Len(w.cs)
      BY <1>4, <1>8, <1>n
    <2>2. ASSUME NEW k \in 1 .. n
          PROVE  /\ g.frames[k].bt = w.cs[k].bt
                 /\ g.frames[k].len = IF k = 1 THEN 0 ELSE L + w.limits[k - 1]
                 /\ g.frames[k].kind = "func" <=> k = 1
      <3>1. w.cs[k] = v.cs[k] /\ LimitOf(w, k) = LimitOf(v, k) /\ g.frames[k] = e.frames[k]
        BY <1>e, <1>8
      <3>2. k # 1 => w.limits[k - 1] = v.limits[k - 1]
        BY <3>1 DEF LimitOf
      <3>3. k \in 1 .. Len(e.frames)
        BY <1>0 DEF n
      <3> QED
        BY <1>1, <3>1, <3>2, <3>3 DEF SameBlocks
    <2>3. /\ g.frames[n + 1].bt = w.cs[n + 1].bt
          /\ g.frames[n + 1].len = IF n + 1 = 1 THEN 0 ELSE L + w.limits[n + 1 - 1]
          /\ g.frames[n + 1].kind = "func" <=> n + 1 = 1
      <3>1. n + 1 # 1
        BY <1>n
      <3>2. w.limits[n + 1 - 1] = Len(w.stack) - Len(ps)
        BY <1>4, <1>n, <3>1 DEF LimitOf
      <3>3. g.frames[n + 1].len = L + (Len(w.stack) - Len(ps))
        BY <1>3, <1>8, <1>n
      <3> QED
        BY <1>4, <1>8, <3>1, <3>2, <3>3, Zenon
    <2>4. \A k \in 1 .. Len(g.frames) : k \in 1 .. n \/ k = n + 1
      BY <1>8, <1>n
    <2> SUFFICES ASSUME NEW k \in 1 .. Len(g.frames)
                 PROVE  /\ g.frames[k].bt = w.cs[k].bt
                        /\ g.frames[k].len = IF k = 1 THEN 0 ELSE L + w.limits[k - 1]
                        /\ g.frames[k].kind = "func" <=> k = 1
      BY <2>1 DEF SameBlocks
    <2>5. CASE k \in 1 .. n
      BY <2>2, <2>5
    <2>6. CASE k = n + 1
      <3>1. k - 1 = n + 1 - 1 /\ (k = 1 <=> n + 1 = 1)
        BY <1>n, <2>6
      <3>2. g.frames[k].bt = w.cs[k].bt
        BY <2>3, <2>6
      <3>3. g.frames[k].len = IF k = 1 THEN 0 ELSE L + w.limits[k - 1]
        BY <2>3, <2>6, <3>1
      <3>4. g.frames[k].kind = "func" <=> k = 1
        BY <2>3, <2>6, <3>1
      <3> QED
        BY <3>2, <3>3, <3>4
    <2> QED
      BY <2>4, <2>5, <2>6
  <1>11. Matched(w, g, mod, L)
    <2>1. Len(g.frames) = Len(w.cs)
      BY <1>4, <1>8
    <2> QED
      BY <1>0, <1>4, <1>8, <1>9, <1>10, <2>1, MatchBuilt, Zenon
  <1>12. /\ LabelsBut(g, {<<"header", g.id>>}) /\ (\A t : Given(e, t) \/ Due(e, t) => Given(g, t) \/ Due(g, t))
         /\ (kind # "loop" => LabelsFound(g))
         /\ \A t : Emits(g.frames[Len(g.frames)], t) => Due(g, t)
    <2> DEFINE h == <<"header", g.id>>
    <2>1. h = <<"header", g.frames[Len(g.frames)].id>>
      BY <1>8
    <2>2. g.frames[Len(g.frames)].kind = kind /\ Len(e.frames) = n
      BY <1>0, <1>8
    <2> HIDE DEF h
    <2>3. LabelsOpened(e, g, h)
      BY <1>0, <1>f, <2>1, ButPush
    <2> QED
      BY <2>2, <2>3 DEF h, LabelsOpened
  <1>13. /\ kind \notin {"func", "loop", "block"} => Due(g, <<"continuation", g.id>>)
         /\ kind = "if" => Due(g, <<"else", g.id>>)
    BY <1>8, <1>12 DEF Emits
  <1> QED
    BY <1>8, <1>11, <1>12, <1>13 DEF Opened, w, g

(* What a joint state says of the validator and the compiler, without the match. *)
LEMMA InitType ==
    ASSUME NEW v, NEW c, NEW mod, NEW L, Joint(v, c, mod, L)
    PROVE  v.init \in SUBSET Nat /\ v.cs # <<>> /\ Nested(v) /\ Above(v) /\ CompilerState(c) /\ c.err = FALSE
  BY DEF Joint, Matched, Nested, Above, ValidatorStates

(* In code that cannot be reached the operands of an instruction are not   *)
(* applied.                                                                *)
LEMMA ApplyOff ==
    ASSUME NEW c, c.on, c.err = FALSE, NEW f, NEW i
    PROVE  HandledAs(c, f, i, c, Handle(c, f, i))
  <1>1. applyToStack(c, f, i) = c
    BY DEF applyToStack
  <1> QED
    BY <1>1, HandleForm, Zenon

(* block: validator and compiler stay joined. *)
LEMMA BlockStep ==
    ASSUME NEW v, NEW c, NEW mod, NEW L \in Nat, Joint(v, c, mod, L),
           NEW f, NEW i, Decoded(i), i.op = "block", Validate(v, mod, f, i).status = "ok"
    PROVE  Joint(Validate(v, mod, f, i), Handle(c, f, i), mod, L)
  <1>1. v.init \in SUBSET Nat /\ v.cs # <<>> /\ CompilerState(c) /\ c.err = FALSE
    BY InitType, Zenon
  <1>2. Validate(v, mod, f, i) = enter(v, i, v.init) /\ i.bt \in FuncTypes /\ i.op \in BlockNames /\ i.op \in NoOperands
    <2>1. Validate(v, mod, f, i) = enter(v, i, v.init)
      BY <1>1 DEF Validate
    <2> QED
      BY <2>1 DEF Decoded, NoOperands, BlockNames
  <1>3. CASE c.on
    <2>1. HandledAs(c, f, i, c, Handle(c, f, i))
      BY <1>1, <1>3, ApplyOff, Zenon
    <2>2. Handle(c, f, i) = compileBlock(c, i)
      BY <2>1 DEF HandledAs
    <2>3. compileBlock(c, i) = [c EXCEPT !.depth = @ + 1]
      BY <1>3 DEF compileBlock
    <2>4. enter(v, i, v.init).status = "ok"
      BY <1>2
    <2> QED
      BY <1>1, <1>2, <1>3, <2>2, <2>3, <2>4, EnterOff
  <1>4. CASE ~ c.on
    <2> DEFINE e == applyToStack(c, f, i)
    <2>1. Joint(v, e, mod, L) /\ ~ e.on /\ HandledAs(c, f, i, e, Handle(c, f, i))
      BY <1>2, <1>4, ApplyNone
    <2> HIDE DEF e
    <2>2. Handle(c, f, i) = pushFrame(e, "block", i.bt)
      BY <2>1 DEF HandledAs, compileBlock
    <2>3. "block" \in Kinds /\ "block" # "func" /\ enter(v, i, v.init).status = "ok"
      BY <1>2 DEF Kinds
    <2>4. Opened(enter(v, i, v.init), e, pushFrame(e, "block", i.bt), "block", mod, L)
      BY <1>1, <1>2, <2>1, <2>3, EnterLive
    <2> QED
      BY <1>2, <2>2, <2>4 DEF Opened, Joint
  <1> QED
    BY <1>3, <1>4

(* loop: validator and compiler stay joined. *)
LEMMA LoopStep ==
    ASSUME NEW v, NEW c, NEW mod, NEW L \in Nat, Joint(v, c, mod, L),
           NEW f, NEW i, Decoded(i), i.op = "loop", Validate(v, mod, f, i).status = "ok"
    PROVE  Joint(Validate(v, mod, f, i), Handle(c, f, i), mod, L)
  <1>1. v.init \in SUBSET Nat /\ v.cs # <<>> /\ CompilerState(c) /\ c.err = FALSE
    BY InitType, Zenon
  <1>2. Validate(v, mod, f, i) = enter(v, i, v.init) /\ i.bt \in FuncTypes /\ i.op \in BlockNames /\ i.op \in NoOperands
    <2>1. Validate(v, mod, f, i) = enter(v, i, v.init)
      BY <1>1 DEF Validate
    <2> QED
      BY <2>1 DEF Decoded, NoOperands, BlockNames
  <1>3. CASE c.on
    <2>1. HandledAs(c, f, i, c, Handle(c, f, i))
      BY <1>1, <1>3, ApplyOff, Zenon
    <2>2. Handle(c, f, i) = compileLoop(c, i)
      BY <2>1 DEF HandledAs
    <2>3. compileLoop(c, i) = [c EXCEPT !.depth = @ + 1]
      BY <1>3 DEF compileLoop
    <2>4. enter(v, i, v.init).status = "ok"
      BY <1>2
    <2> QED
      BY <1>1, <1>2, <1>3, <2>2, <2>3, <2>4, EnterOff
  <1>4. CASE ~ c.on
    <2> DEFINE e == applyToStack(c, f, i)
               w == enter(v, i, v.init)
               g == pushFrame(e, "loop", i.bt)
               h == <<"header", g.id>>
               b == emitBr(g, h)
               l == emitLabel(b, h)
               exit == [k |-> "check_exit"]
               d == Handle(c, f, i)
    <2>1. Joint(v, e, mod, L) /\ ~ e.on /\ HandledAs(c, f, i, e, d)
      BY <1>2, <1>4, ApplyNone
    <2> HIDE DEF e
    <2>2. d = IF e.ensureTermination THEN emit(l, exit) ELSE l
      BY <2>1 DEF HandledAs, compileLoop
    <2>3. "loop" \in Kinds /\ "loop" # "func" /\ w.status = "ok"
      BY <1>2 DEF Kinds
    <2>4. Opened(w, e, g, "loop", mod, L)
      BY <1>1, <1>2, <2>1, <2>3, EnterLive
    <2> HIDE DEF d, g, w
    <2>5. Matched(w, g, mod, L) /\ CompilerState(g) /\ ~ g.on /\ LabelsBut(g, {h})
      BY <2>4 DEF Opened
    <2> HIDE DEF h
    <2>6. LabelsBut(b, {h}) /\ SameStack(g, b)
      <3>1. h \in {h}
        OBVIOUS
      <3> QED
        BY <2>5, <3>1, ButBr
    <2> HIDE DEF b
    <2>7. CompilerState(b) /\ ~ b.on
      BY <2>5, <2>6 DEF SameStack, SameFrames
    <2>8. LabelsBut(l, {h} \ {h}) /\ SameStack(b, l)
      BY <2>6, <2>7, ButLabel
    <2> HIDE DEF l
    <2>9. LabelsFound(l)
      <3>1. {h} \ {h} = {}
        OBVIOUS
      <3> QED
        BY <2>8, <3>1, ButNone
    <2>10. Joint(w, l, mod, L)
      <3>1. Similar(g, b) /\ Similar(b, l)
        BY <2>5, <2>6, <2>7, <2>8, SimilarSame
      <3>2. Matched(w, b, mod, L)
        BY <2>5, <3>1, SimilarMatches
      <3>3. Matched(w, l, mod, L)
        BY <3>1, <3>2, SimilarMatches
      <3> QED
        BY <2>9, <3>3 DEF Joint
    <2>11. Joint(w, emit(l, exit), mod, L)
      <3>1. CompilerState(l) /\ exit.k \notin Jumps
        BY <2>8 DEF SameStack, SameFrames, Jumps
      <3> HIDE DEF exit
      <3>2. SameStack(l, emit(l, exit)) /\ More(l, emit(l, exit))
        BY <3>1, EmitMore
      <3> QED
        BY <2>10, <3>2, JointSame
    <2> QED
      BY <1>2, <2>2, <2>10, <2>11 DEF d, w
  <1> QED
    BY <1>3, <1>4

(* A block is accepted exactly when its parameters are there. *)
LEMMA EnterStatus ==
    ASSUME NEW p, Above(p), NEW i, i.bt \in FuncTypes, NEW saved
    PROVE  enter(p, i, saved).status = takes(p, i.bt.params, i.bt.params).status
  <1> DEFINE ps == i.bt.params
             w == enter(p, i, saved)
             x == takes(p, ps, ps)
  <1>1. x \in ValidatorStates
    <2>1. ps \in Seq(ValueTypes) /\ ps \in Seq(StackTypes)
      BY ValueSeqs DEF FuncTypes
    <2> HIDE DEF ps
    <2>2. Keeps(p, x)
      BY <2>1, KeepsTakes
    <2> QED
      BY <2>2 DEF Keeps
  <1>2. pushAll(requireStackValues(p, ps, FALSE), ps) = x
    BY RequireIsTakes, Zenon
  <1> DEFINE cs == Append(x.cs, [op |-> i.op, bt |-> i.bt, saved |-> saved])
             ls == Append(x.limits, Len(x.stack) - Len(i.bt.params))
  <1>3. w = [x EXCEPT !.cs = cs, !.limits = ls]
    BY <1>2, Zenon DEF enter
  <1> HIDE DEF cs, ls, x, w
  <1> QED
    BY <1>1, <1>3 DEF ValidatorStates, w, x

(* if: validator and compiler stay joined. *)
LEMMA IfStep ==
    ASSUME NEW v, NEW c, NEW mod, NEW L \in Nat, Joint(v, c, mod, L),
           NEW f, NEW i, Decoded(i), i.op = "if", Validate(v, mod, f, i).status = "ok"
    PROVE  Joint(Validate(v, mod, f, i), Handle(c, f, i), mod, L)
  <1> DEFINE p == popAndVerifyType(v, "i32")
             w == enter(p, i, v.init)
  <1>1. v.init \in SUBSET Nat /\ v.cs # <<>> /\ Nested(v) /\ Above(v) /\ CompilerState(c) /\ c.err = FALSE
    BY InitType, Zenon
  <1>2. Validate(v, mod, f, i) = w /\ i.bt \in FuncTypes /\ i.op \in BlockNames
    <2>1. Validate(v, mod, f, i) = w
      BY <1>1 DEF Validate
    <2> QED
      BY <2>1 DEF Decoded, BlockNames
  <1>3. w.status = "ok"
    BY <1>2
  <1>4. Keeps(v, p) /\ Above(p)
    BY <1>1, KeepsPopVerify, KeepsAbove
  <1>5. p.status = "ok"
    <2>1. w.status = takes(p, i.bt.params, i.bt.params).status
      BY <1>2, <1>4, EnterStatus
    <2>2. i.bt.params \in Seq(ValueTypes) /\ i.bt.params \in Seq(StackTypes)
      BY <1>2, ValueSeqs DEF FuncTypes
    <2>3. Keeps(p, takes(p, i.bt.params, i.bt.params))
      BY <1>4, <2>2, KeepsTakes
    <2> QED
      BY <1>3, <2>1, <2>3 DEF Keeps
  <1> HIDE DEF p
  <1>6. CASE c.on
    <2>1. HandledAs(c, f, i, c, Handle(c, f, i))
      BY <1>1, <1>6, ApplyOff, Zenon
    <2>2. Handle(c, f, i) = compileIf(c, i)
      BY <2>1 DEF HandledAs
    <2>3. compileIf(c, i) = [c EXCEPT !.depth = @ + 1]
      BY <1>6 DEF compileIf
    <2>4. Joint(p, c, mod, L)
      <3>1. Matched(v, c, mod, L) /\ LabelsFound(c) /\ c.mod = mod /\ c.on = TRUE /\ Alike(c.frames, c.frames)
        BY <1>1, <1>6, AlikeSelf, Zenon DEF Joint, Matched, CompilerState
      <3>2. L + LimitOf(v, Len(c.frames)) <= Len(c.stack)
        BY <1>6, <3>1 DEF Matched, SameOperands, Reach
      <3>3. Matched(p, c, mod, L)
        BY <1>1, <1>4, <1>5, <3>1, <3>2, MatchKept, Zenon
      <3> QED
        BY <3>1, <3>3 DEF Joint
    <2> QED
      BY <1>1, <1>2, <1>3, <1>6, <2>2, <2>3, <2>4, EnterOff
  <1>7. CASE ~ c.on
    <2> DEFINE e == applyToStack(c, f, i)
               g == pushFrame(e, "if", i.bt)
               h == <<"header", g.id>>
               el == <<"else", g.id>>
               branch == [k |-> "br_if", target |-> h, other |-> el, range |-> NopRange]
               b == emit(g, branch)
               d == Handle(c, f, i)
    <2>1. Joint(p, e, mod, L) /\ ~ e.on /\ HandledAs(c, f, i, e, d)
      <3>1. Known(v)
        BY <1>7, MatchLive, Zenon DEF Joint
      <3>2. Took(v, p, <<"i32">>, <<>>) /\ Known(p)
        <4>1. "i32" \in ValueTypes
          BY DEF ValueTypes
        <4> QED
          BY <1>1, <1>5, <3>1, <4>1, TookPopVerify DEF p
      <3>3. wasmOpcodeSignature(mod, f, i).in = <<"i32">> /\ wasmOpcodeSignature(mod, f, i).out = <<>>
        BY OtherSignatures
      <3> DEFINE t == "i32"
      <3>4. t \in ValueTypes /\ U(t) = U(t)
        BY DEF ValueTypes
      <3> HIDE DEF t, d, e
      <3>5. wasmOpcodeSignature(mod, f, i).in = <<t>> /\ Took(v, p, <<t>>, <<>>)
        BY <3>2, <3>3 DEF t
      <3> QED
        BY <1>4, <1>5, <1>7, <3>2, <3>3, <3>4, <3>5, ApplyOne DEF d, e
    <2> HIDE DEF e
    <2>2. d = emitLabel(b, h)
      BY <2>1 DEF HandledAs, compileIf
    <2>3. "if" \in Kinds /\ "if" # "func"
      BY DEF Kinds
    <2>4. Opened(w, e, g, "if", mod, L)
      BY <1>1, <1>2, <1>3, <2>1, <2>3, EnterLive
    <2> HIDE DEF d, g, w
    <2>5. Matched(w, g, mod, L) /\ CompilerState(g) /\ ~ g.on /\ LabelsBut(g, {h}) /\ Due(g, el)
      BY <2>4 DEF Opened
    <2>6. branch.k = "br_if" /\ \A t \in Targets(branch) : Given(g, t) \/ Due(g, t) \/ t \in {h}
      BY <2>5 DEF Targets
    <2> HIDE DEF h, branch
    <2>7. LabelsBut(b, {h}) /\ SameStack(g, b)
      BY <2>5, <2>6, ButEmit
    <2> HIDE DEF b
    <2>8. CompilerState(b) /\ ~ b.on
      BY <2>5, <2>7 DEF SameStack, SameFrames
    <2>9. LabelsBut(d, {h} \ {h}) /\ SameStack(b, d)
      BY <2>2, <2>7, <2>8, ButLabel
    <2>10. LabelsFound(d)
      <3>1. {h} \ {h} = {}
        OBVIOUS
      <3> QED
        BY <2>9, <3>1, ButNone
    <2>11. Matched(w, d, mod, L)
      <3>1. Similar(g, b) /\ Similar(b, d)
        BY <2>5, <2>7, <2>8, <2>9, SimilarSame
      <3>2. Matched(w, b, mod, L)
        BY <2>5, <3>1, SimilarMatches
      <3> QED
        BY <3>1, <3>2, SimilarMatches
    <2> QED
      BY <1>2, <2>10, <2>11 DEF Joint, d, w
  <1> QED
    BY <1>6, <1>7

(* Exception handlers. *)
LEMMA TableFacts ==
    ASSUME NEW c, CompilerState(c), NEW h, LabelsFound(c), \A t : Handles(h, t) => Given(c, t) \/ Due(c, t)
    PROVE  LET d == [c EXCEPT !.table = Append(@, h)]
           IN  /\ CompilerState(d) /\ LabelsFound(d)
               /\ d.stack = c.stack /\ d.ops = c.ops /\ d.frames = c.frames /\ d.depth = c.depth /\ d.on = c.on
               /\ d.err = c.err /\ d.mod = c.mod
  <1> DEFINE tb == c.table
             ub == Append(tb, h)
             d == [c EXCEPT !.table = ub]
             n == Len(tb)
  <1>1. IsSeq(tb)
    BY DEF CompilerState
  <1> HIDE DEF tb
  <1>2. IsSeq(ub) /\ Len(ub) = n + 1 /\ (\A k \in 1 .. n : ub[k] = tb[k]) /\ ub[n + 1] = h /\ n \in Nat
    BY <1>1, AppendIs, SeqHas
  <1> HIDE DEF ub
  <1>3. /\ CompilerState(d) /\ d.table = ub
        /\ d.stack = c.stack /\ d.ops = c.ops /\ d.frames = c.frames /\ d.depth = c.depth /\ d.on = c.on
        /\ d.err = c.err /\ d.mod = c.mod
    BY <1>2 DEF CompilerState, CompilerFields
  <1> HIDE DEF d
  <1>4. \A t : (Given(d, t) <=> Given(c, t)) /\ (Due(d, t) <=> Due(c, t))
    BY <1>3 DEF Given, Due
  <1>5. ASSUME NEW t, Wanted(d, t) PROVE Given(d, t) \/ Due(d, t)
    <2>1. CASE \E k \in 1 .. Len(d.ops) : t \in Targets(d.ops[k])
      <3>1. Wanted(c, t)
        BY <1>3, <2>1 DEF Wanted
      <3> QED
        BY <1>4, <3>1 DEF LabelsFound
    <2>2. CASE \E k \in 1 .. Len(d.table) : Handles(d.table[k], t)
      <3>1. PICK k \in 1 .. n + 1 : Handles(ub[k], t)
        BY <1>2, <1>3, <2>2
      <3>2. CASE k = n + 1
        BY <1>2, <1>4, <3>1, <3>2
      <3>3. CASE k # n + 1
        <4>1. k \in 1 .. n
          BY <1>2, <3>3
        <4>2. Wanted(c, t)
          BY <1>2, <3>1, <4>1 DEF Wanted, tb, n
        <4> QED
          BY <1>4, <4>2 DEF LabelsFound
      <3> QED
        BY <3>2, <3>3
    <2> QED
      BY <1>5, <2>1, <2>2 DEF Wanted
  <1>6. \A k \in 1 .. Len(d.frames) : d.frames[k].kind = "loop" => Given(d, <<"header", d.frames[k].id>>)
    BY <1>3, <1>4 DEF LabelsFound
  <1>7. LabelsFound(d)
    BY <1>5, <1>6 DEF LabelsFound
  <1> QED
    BY <1>3, <1>7 DEF d, ub, tb

(* try_table: validator and compiler stay joined. *)
LEMMA TryTableStep ==
    ASSUME NEW v, NEW c, NEW mod, NEW L \in Nat, Joint(v, c, mod, L),
           NEW f, NEW i, Decoded(i), i.op = "try_table", Validate(v, mod, f, i).status = "ok"
    PROVE  Joint(Validate(v, mod, f, i), Handle(c, f, i), mod, L)
  <1> DEFINE w == enter(v, i, Nil)
             cl == i.catches
  <1>1. v.cs # <<>> /\ CompilerState(c) /\ c.err = FALSE /\ Above(v)
    BY InitType, Zenon
  <1>2. Validate(v, mod, f, i) = validateTryTable(v, i)
    BY <1>1 DEF Validate
  <1>3. i.bt \in FuncTypes /\ i.op \in BlockNames /\ i.op \in NoOperands /\ (\A n \in DOMAIN cl : cl[n].l \in Nat) /\ Nil \in SUBSET Nat
    BY DEF Decoded, BlockNames, NoOperands, Nil
  <1>4. Validate(v, mod, f, i) = w /\ \A n \in DOMAIN cl : HasLabel(v, cl[n].l)
    <2>1. \A n \in DOMAIN cl : Delivers(v, cl[n])
      BY <1>1, <1>2, KeepsFail DEF validateTryTable
    <2> QED
      BY <1>2, <2>1 DEF validateTryTable, Delivers
  <1>5. w.status = "ok"
    BY <1>4
  <1>6. CASE c.on
    <2>1. HandledAs(c, f, i, c, Handle(c, f, i))
      BY <1>1, <1>6, ApplyOff, Zenon
    <2>2. Handle(c, f, i) = compileTryTable(c, i)
      BY <2>1 DEF HandledAs
    <2>3. compileTryTable(c, i) = [c EXCEPT !.depth = @ + 1]
      BY <1>6 DEF compileTryTable
    <2> QED
      BY <1>1, <1>3, <1>4, <1>5, <1>6, <2>2, <2>3, EnterOff
  <1>7. CASE ~ c.on
    <2> DEFINE e == applyToStack(c, f, i)
               ns == {cl[n].l : n \in DOMAIN cl}
               d == ensureContinuation(e, ns)
               g == pushFrame(d, "try_table", i.bt)
               clauses == [n \in DOMAIN cl |->
                             [clause |-> cl[n], target |-> asLabel(Get(d, cl[n].l)), depth |-> Get(d, cl[n].l).len64]]
               h == [start |-> Len(g.ops) + 1, end |-> <<"continuation", g.id>>, clauses |-> clauses]
               r == [g EXCEPT !.table = Append(@, h)]
    <2>1. Joint(v, e, mod, L) /\ ~ e.on /\ HandledAs(c, f, i, e, Handle(c, f, i))
      BY <1>3, <1>7, ApplyNone
    <2> HIDE DEF e
    <2>2. Handle(c, f, i) = r
      <3>1. Handle(c, f, i) = compileTryTable(e, i)
        BY <2>1 DEF HandledAs
      <3> QED
        BY <2>1, <3>1 DEF compileTryTable
    <2>3. CompilerState(e) /\ LabelsFound(e) /\ Len(e.frames) = Len(v.cs) /\ Matched(v, e, mod, L)
      BY <2>1, MatchLive, Zenon DEF Joint
    <2> HIDE DEF ns
    <2>4. /\ Similar(e, d) /\ LabelsFound(d) /\ Len(d.frames) = Len(e.frames) /\ Len(d.frames) \in Nat
          /\ \A l \in ns \cap (0 .. Len(d.frames) - 1) : Given(d, asLabel(Get(d, l))) \/ Due(d, asLabel(Get(d, l)))
      BY <2>3, ContinuationLabels
    <2> HIDE DEF d
    <2>5. Joint(v, d, mod, L) /\ ~ d.on
      <3>1. Matched(v, d, mod, L)
        BY <2>3, <2>4, SimilarMatches
      <3> QED
        BY <2>1, <2>4, <3>1 DEF Joint, Similar
    <2>6. "try_table" \in Kinds /\ "try_table" # "func"
      BY DEF Kinds
    <2>7. Opened(w, d, g, "try_table", mod, L)
      BY <1>3, <1>5, <2>5, <2>6, EnterLive
    <2> HIDE DEF g, w
    <2>8. /\ Matched(w, g, mod, L) /\ CompilerState(g) /\ LabelsFound(g) /\ Due(g, <<"continuation", g.id>>)
          /\ \A t : Given(d, t) \/ Due(d, t) => Given(g, t) \/ Due(g, t)
      BY <2>7 DEF Opened
    <2>9. ASSUME NEW t, Handles(h, t) PROVE Given(g, t) \/ Due(g, t)
      <3>1. CASE t = h.end
        BY <2>8, <3>1
      <3>2. ASSUME NEW n \in DOMAIN cl, t = asLabel(Get(d, cl[n].l)) PROVE Given(g, t) \/ Due(g, t)
        <4> DEFINE l == cl[n].l
        <4>1. l \in ns /\ l \in Nat /\ l < Len(v.cs)
          BY <1>3, <1>4, <3>2 DEF ns, HasLabel
        <4>2. Len(d.frames) = Len(v.cs)
          BY <2>3, <2>4
        <4> HIDE DEF l
        <4>3. l \in ns \cap (0 .. Len(d.frames) - 1)
          BY <2>4, <4>1, <4>2
        <4>4. Given(d, asLabel(Get(d, l))) \/ Due(d, asLabel(Get(d, l)))
          BY <2>4, <4>3
        <4>5. t = asLabel(Get(d, l))
          BY <3>2 DEF l
        <4> QED
          BY <2>8, <4>4, <4>5
      <3>3. DOMAIN h.clauses = DOMAIN cl /\ \A n \in DOMAIN cl : h.clauses[n].target = asLabel(Get(d, cl[n].l))
        OBVIOUS
      <3> HIDE DEF h
      <3> QED
        BY <2>9, <3>1, <3>2, <3>3 DEF Handles
    <2> HIDE DEF h
    <2>10. /\ CompilerState(r) /\ LabelsFound(r)
           /\ r.stack = g.stack /\ r.ops = g.ops /\ r.frames = g.frames /\ r.depth = g.depth /\ r.on = g.on
           /\ r.err = g.err /\ r.mod = g.mod
      BY <2>8, <2>9, TableFacts, Zenon
    <2> HIDE DEF r
    <2>11. Similar(g, r)
      <3>1. Alike(g.frames, g.frames)
        BY <2>8, AlikeSelf
      <3> QED
        BY <2>10, <3>1 DEF Similar
    <2>12. Matched(w, r, mod, L)
      BY <2>8, <2>11, SimilarMatches
    <2> QED
      BY <1>4, <2>2, <2>10, <2>12 DEF Joint, w
  <1> QED
    BY <1>6, <1>7

-----------------------------------------------------------------------------
(* The end of a block and its else.  What is on the stack of the validator *)
(* below the limit is kept, and the values ts are pushed.                  *)
Reset(v, w, ts) ==
    /\ Len(w.stack) = Limit(v) + Len(ts)
    /\ \A k \in 1 .. Limit(v) : w.stack[k] = v.stack[k]
    /\ \A k \in 1 .. Len(ts) : w.stack[Limit(v) + k] = ts[k]

(* Resetting the stack and pushing types leaves those types above the limit. *)
LEMMA CutPushed ==
    ASSUME NEW v, Above(v), NEW x, Keeps(v, x), NEW ts \in Seq(ValueTypes)
    PROVE  LET y == pushAll(resetAtStackLimit(x), ts)
           IN  Keeps(v, y) /\ y.status = x.status /\ Reset(v, y, ts) /\ y.init = x.init
  <1> DEFINE z == resetAtStackLimit(x)
             y == pushAll(z, ts)
  <1>1. Above(x) /\ Limit(x) = Limit(v) /\ ts \in Seq(StackTypes) /\ Limit(v) \in Nat
    BY KeepsAbove, ValueSeqs, LimitType DEF Above
  <1>2. Keeps(x, z) /\ Len(z.stack) = Limit(x) /\ z.status = x.status /\ z.init = x.init
    BY <1>1, KeepsReset
  <1> HIDE DEF z
  <1>3. Above(z) /\ Keeps(v, z)
    BY <1>1, <1>2, KeepsAbove, KeepsTrans
  <1>4. Keeps(z, y) /\ y.status = z.status
    BY <1>1, <1>3, KeepsPushAll
  <1>5. Keeps(v, y)
    BY <1>3, <1>4, KeepsTrans
  <1>6. y.stack = z.stack \o ts /\ y.init = z.init /\ z.stack \in Seq(StackTypes)
    BY <1>3, Zenon DEF pushAll, Above, ValidatorStates
  <1> HIDE DEF y
  <1>7. Len(z.stack) = Limit(v)
    BY <1>1, <1>2
  <1>8. Reset(v, y, ts)
    <2> DEFINE s == z.stack
               m == Limit(v)
    <2>0. IsSeq(s) /\ IsSeq(ts)
      BY <1>6, SeqIs
    <2>1. Len(s) = m
      BY <1>7
    <2> HIDE DEF s
    <2>2. /\ IsSeq(s \o ts)
          /\ Len(s \o ts) = Len(s) + Len(ts)
          /\ \A k \in 1 .. Len(s) : (s \o ts)[k] = s[k]
          /\ \A k \in 1 .. Len(ts) : (s \o ts)[Len(s) + k] = ts[k]
      BY <2>0, ConcatIs
    <2>3. \A k \in 1 .. Limit(v) : y.stack[k] = v.stack[k]
      BY <1>5 DEF Keeps
    <2> QED
      BY <1>6, <2>1, <2>2, <2>3, Zenon DEF Reset, s
  <1> QED
    BY <1>2, <1>4, <1>5, <1>6, <1>8 DEF z, y

(* The innermost block of nested blocks, with its types. *)
LEMMA LastBlock ==
    ASSUME NEW v, Nested(v)
    PROVE  /\ Last(v.cs) = v.cs[Len(v.cs)] /\ Last(v.cs) \in ControlBlocks
           /\ Last(v.cs).bt \in FuncTypes /\ Last(v.cs).bt.params \in Seq(ValueTypes) /\ Last(v.cs).bt.results \in Seq(ValueTypes)
           /\ Last(v.cs).saved \in SUBSET Nat
           /\ IsSeq(v.cs) /\ v.cs \in Seq(ControlBlocks) /\ v.cs # <<>> /\ IsSeq(v.limits) /\ v.limits \in Seq(Nat)
  <1> DEFINE cs == v.cs
  <1>1. cs \in Seq(ControlBlocks) /\ cs # <<>> /\ v.limits \in Seq(Nat)
    BY DEF Nested, Above, ValidatorStates
  <1> HIDE DEF cs
  <1>2. IsSeq(cs) /\ Last(cs) = cs[Len(cs)] /\ Last(cs) \in ControlBlocks
    BY <1>1, SeqIs, FrontIsPrefix
  <1>3. IsSeq(v.limits)
    BY <1>1, SeqIs
  <1> QED
    BY <1>1, <1>2, <1>3, Zenon DEF cs, ControlBlocks, FuncTypes

(* A block is left. *)
Left(v, w, ts) ==
    LET n == Len(v.cs)
    IN  /\ Nested(w) /\ Len(w.cs) = n - 1
        /\ \A k \in 1 .. n - 1 : w.cs[k] = v.cs[k]
        /\ \A k \in 1 .. n - 1 : LimitOf(w, k) = LimitOf(v, k)
        /\ Reset(v, w, ts)

(* A sequence without its last element has the same type. *)
LEMMA FrontType ==
    ASSUME NEW S, NEW s \in Seq(S), s # <<>>
    PROVE  Front(s) \in Seq(S)
  <1>1. Front(s) = SubSeq(s, 1, Len(s) - 1) /\ Len(s) - 1 \in Nat
    BY FrontIsPrefix
  <1> DEFINE n == Len(s) - 1
  <1>2. \A k \in 1 .. n : s[k] \in S
    OBVIOUS
  <1> QED
    BY <1>1, <1>2

(* What an accepted end leaves: one block fewer and the block's results above its limit. *)
LEMMA EndForm ==
    ASSUME NEW v, Nested(v), validateEnd(v).status = "ok"
    PROVE  LET w == validateEnd(v)
               ts == Last(v.cs).bt.results
           IN  /\ w.cs = Front(v.cs) /\ w.limits = IF v.limits = <<>> THEN v.limits ELSE Front(v.limits)
               /\ w \in ValidatorStates /\ Reset(v, w, ts)
  <1> DEFINE b == Last(v.cs)
             ts == b.bt.results
             q == requireStackValues(v, ts, TRUE)
             x == pushAll(resetAtStackLimit(q), ts)
             cs == Front(v.cs)
             ls == IF v.limits = <<>> THEN v.limits ELSE Front(v.limits)
             it == IF Len(v.cs) > 1 THEN b.saved ELSE x.init
             w == [x EXCEPT !.cs = cs, !.init = it, !.limits = ls]
  <1>1. Above(v) /\ v.status = "ok"
    BY DEF Nested
  <1>2. ts \in Seq(ValueTypes) /\ b.saved \in SUBSET Nat
    BY LastBlock
  <1> HIDE DEF ts
  <1>3. Keeps(v, q)
    BY <1>1, <1>2, KeepsRequire, Zenon
  <1> HIDE DEF q
  <1>4. Keeps(v, x) /\ Reset(v, x, ts)
    BY <1>1, <1>2, <1>3, CutPushed
  <1> HIDE DEF x
  <1>5. x \in ValidatorStates /\ x.cs = v.cs /\ x.limits = v.limits
    BY <1>4 DEF Keeps
  <1>6. validateEnd(v) = w
    <2>1. ~ (b.op = "if" /\ b.bt.results # b.bt.params)
      BY <1>1, KeepsFail, Zenon DEF validateEnd
    <2> QED
      BY <1>5, <2>1, Zenon DEF validateEnd, x, q, ts
  <1>7. it \in SUBSET Nat
    BY <1>2, <1>5 DEF ValidatorStates
  <1>c. cs \in Seq(ControlBlocks)
    <2> DEFINE r == v.cs
    <2>1. r \in Seq(ControlBlocks) /\ r # <<>>
      BY LastBlock
    <2> HIDE DEF r
    <2>2. Front(r) \in Seq(ControlBlocks)
      BY <2>1, FrontType
    <2> QED
      BY <2>2 DEF r
  <1>l. ls \in Seq(Nat)
    <2> DEFINE r == v.limits
    <2>1. r \in Seq(Nat)
      BY LastBlock
    <2> HIDE DEF r
    <2>2. r # <<>> => Front(r) \in Seq(Nat)
      BY <2>1, FrontType
    <2> QED
      BY <2>1, <2>2 DEF r
  <1> HIDE DEF cs, ls, it
  <1>8. w.cs = cs /\ w.limits = ls /\ w.init = it /\ w.stack = x.stack /\ w \in ValidatorStates
    BY <1>5, <1>7, <1>c, <1>l, Zenon DEF ValidatorStates
  <1> HIDE DEF w
  <1>9. Reset(v, w, ts)
    BY <1>4, <1>5, <1>8 DEF Reset
  <1> QED
    BY <1>6, <1>7, <1>8, <1>9 DEF cs, ls, ts

(* Leaving an inner block. *)
LEMMA LeaveFacts ==
    ASSUME NEW v, Nested(v), validateEnd(v).status = "ok", Len(v.cs) > 1
    PROVE  Left(v, validateEnd(v), Last(v.cs).bt.results)
  <1> DEFINE w == validateEnd(v)
             ts == Last(v.cs).bt.results
             n == Len(v.cs)
             cs == v.cs
             ls == v.limits
  <1>0. Above(v) /\ v.status = "ok" /\ cs[1].op = "func" /\ Len(ls) = n - 1
    BY DEF Nested
  <1>1. /\ IsSeq(cs) /\ cs \in Seq(ControlBlocks) /\ cs # <<>> /\ IsSeq(ls) /\ ls \in Seq(Nat) /\ ts \in Seq(ValueTypes) /\ Len(ts) \in Nat
    BY LastBlock
  <1>2. /\ w.cs = Front(cs) /\ (w.limits = IF ls = <<>> THEN ls ELSE Front(ls))
        /\ w \in ValidatorStates /\ Reset(v, w, ts)
    BY EndForm
  <1>3. n \in Nat /\ n > 1 /\ Limit(v) \in Nat /\ Limit(v) = LimitOf(v, n)
    BY NestedFacts
  <1>lo. \A k \in 1 .. n : LimitOf(v, k) \in Nat /\ LimitOf(v, k) <= Limit(v)
    BY NestedFacts
  <1>mo. \A j, k \in 1 .. Len(ls) : j <= k => ls[j] <= ls[k]
    BY Zenon DEF Nested
  <1>st. w.status = "ok"
    OBVIOUS
  <1> HIDE DEF w, ts, n, cs, ls
  <1>4. IsSeq(Front(cs)) /\ Len(Front(cs)) = n - 1 /\ (\A k \in 1 .. n - 1 : Front(cs)[k] = cs[k]) /\ Front(cs) \in Seq(ControlBlocks)
    <2>1. IsSeq(Front(cs)) /\ Len(Front(cs)) = Len(cs) - 1 /\ \A k \in 1 .. Len(cs) - 1 : Front(cs)[k] = cs[k]
      BY <1>1, FrontIs
    <2>2. Front(cs) \in Seq(ControlBlocks)
      BY <1>1, FrontType
    <2> QED
      BY <2>1, <2>2 DEF n, cs
  <1>5. ls # <<>>
    BY <1>0, <1>1, <1>3, SeqHas
  <1>6. IsSeq(Front(ls)) /\ Len(Front(ls)) = n - 2 /\ (\A k \in 1 .. n - 2 : Front(ls)[k] = ls[k]) /\ Front(ls) \in Seq(Nat)
    <2>1. IsSeq(Front(ls)) /\ Len(Front(ls)) = Len(ls) - 1 /\ \A k \in 1 .. Len(ls) - 1 : Front(ls)[k] = ls[k]
      BY <1>1, <1>5, FrontIs
    <2>2. Front(ls) \in Seq(Nat)
      BY <1>1, <1>5, FrontType
    <2>3. Len(ls) - 1 = n - 2
      BY <1>0, <1>3
    <2> QED
      BY <2>1, <2>2, <2>3
  <1> DEFINE ds == Front(cs)
             ms == Front(ls)
  <1>7. w.cs = ds /\ w.limits = ms
    BY <1>2, <1>5
  <1>8. /\ Len(ds) = n - 1 /\ (\A k \in 1 .. n - 1 : ds[k] = cs[k]) /\ ds \in Seq(ControlBlocks)
        /\ Len(ms) = n - 2 /\ (\A k \in 1 .. n - 2 : ms[k] = ls[k]) /\ ms \in Seq(Nat) /\ IsSeq(ms) /\ IsSeq(ds)
    BY <1>4, <1>6
  <1> HIDE DEF ds, ms
  <1>9. w \in ValidatorStates
    BY <1>2
  <1>10. \A k \in 1 .. n - 1 : LimitOf(w, k) = LimitOf(v, k)
    <2> SUFFICES ASSUME NEW k \in 1 .. n - 1 PROVE LimitOf(w, k) = LimitOf(v, k)
      OBVIOUS
    <2>1. CASE k = 1
      BY <2>1 DEF LimitOf
    <2>2. CASE k # 1
      <3>1. k - 1 \in 1 .. n - 2
        BY <1>3, <2>2
      <3>2. w.limits[k - 1] = v.limits[k - 1]
        BY <1>7, <1>8, <3>1 DEF ls
      <3> QED
        BY <2>2, <3>2 DEF LimitOf
    <2> QED
      BY <2>1, <2>2
  <1>11. Limit(w) = LimitOf(w, n - 1)
    <2>1. CASE ms = <<>>
      <3>1. n - 1 = 1
        BY <1>3, <1>8, <2>1
      <3> QED
        BY <1>7, <2>1, <3>1 DEF Limit, LimitOf
    <2>2. CASE ms # <<>>
      <3>1. Last(ms) = ms[Len(ms)] /\ Len(ms) # 0
        BY <1>8, <2>2, FrontIs
      <3>2. n - 1 # 1 /\ Len(ms) = n - 1 - 1
        BY <1>3, <1>8, <3>1
      <3> QED
        BY <1>7, <2>2, <3>1, <3>2 DEF Limit, LimitOf
    <2> QED
      BY <2>1, <2>2
  <1>12. Above(w)
    <2>1. n - 1 \in 1 .. n - 1 /\ n - 1 \in 1 .. n
      BY <1>3
    <2>2. Limit(w) = LimitOf(v, n - 1)
      BY <1>10, <1>11, <2>1
    <2>3. Limit(w) \in Nat /\ Limit(w) <= Limit(v)
      BY <1>lo, <2>1, <2>2
    <2>4. Len(w.stack) = Limit(v) + Len(ts)
      BY <1>2 DEF Reset
    <2>5. Limit(w) <= Len(w.stack)
      BY <1>1, <1>3, <2>3, <2>4
    <2> QED
      BY <1>9, <2>5 DEF Above
  <1>13. \A j, k \in 1 .. Len(w.limits) : j <= k => w.limits[j] <= w.limits[k]
    <2> SUFFICES ASSUME NEW j \in 1 .. n - 2, NEW k \in 1 .. n - 2, j <= k PROVE ms[j] <= ms[k]
      BY <1>7, <1>8
    <2>1. j \in 1 .. Len(ls) /\ k \in 1 .. Len(ls)
      BY <1>0, <1>3
    <2> QED
      BY <1>8, <1>mo, <2>1, Zenon
  <1>14. Nested(w)
    <2>1. 1 \in 1 .. n - 1
      BY <1>3
    <2>2. w.cs[1].op = "func"
      BY <1>0, <1>7, <1>8, <2>1
    <2>3. w.cs # <<>> /\ Len(w.limits) = Len(w.cs) - 1
      BY <1>3, <1>7, <1>8
    <2> QED
      BY <1>12, <1>13, <1>st, <2>2, <2>3 DEF Nested
  <1> QED
    BY <1>2, <1>7, <1>8, <1>10, <1>14 DEF Left, w, n, cs, ts

(* Leaving the function's own block. *)
LEMMA LeaveLast ==
    ASSUME NEW v, Nested(v), validateEnd(v).status = "ok", Len(v.cs) = 1
    PROVE  validateEnd(v).cs = <<>> /\ validateEnd(v) \in ValidatorStates
  <1> DEFINE cs == v.cs
  <1>1. IsSeq(cs) /\ cs # <<>>
    BY LastBlock
  <1>2. validateEnd(v).cs = Front(cs) /\ validateEnd(v) \in ValidatorStates
    BY EndForm
  <1>3. Len(cs) = 1
    OBVIOUS
  <1> HIDE DEF cs
  <1>4. IsSeq(Front(cs)) /\ Len(Front(cs)) = Len(cs) - 1
    BY <1>1, FrontIs
  <1>5. Len(Front(cs)) = 0
    BY <1>3, <1>4
  <1> QED
    BY <1>2, <1>4, <1>5, SeqHas

Turned(v, w) ==
    LET n == Len(v.cs)
    IN  /\ n > 1 /\ Nested(w) /\ Len(w.cs) = n
        /\ \A k \in 1 .. n : w.cs[k].bt = v.cs[k].bt
        /\ w.limits = v.limits
        /\ Reset(v, w, Last(v.cs).bt.params)

(* What an accepted else leaves: the same blocks and the parameters above the limit. *)
LEMMA TurnFacts ==
    ASSUME NEW v, Nested(v), validateElse(v).status = "ok"
    PROVE  Turned(v, validateElse(v))
  <1> DEFINE n == Len(v.cs)
             b == Last(v.cs)
             ps == b.bt.params
             q == requireStackValues(v, b.bt.results, TRUE)
             z == resetAtStackLimit(q)
             y == pushAll(z, ps)
             a == [b EXCEPT !.op = "else"]
             fr == Front(v.cs)
             cs == Append(fr, a)
             it == b.saved
             w == [y EXCEPT !.cs = cs, !.init = it]
  <1>0. Above(v) /\ v.status = "ok" /\ v.cs[1].op = "func" /\ Len(v.limits) = n - 1 /\ n \in Nat \ {0} /\ Limit(v) \in Nat
    BY NestedFacts, Zenon DEF Nested
  <1>1. /\ b = v.cs[n] /\ b \in ControlBlocks /\ ps \in Seq(ValueTypes) /\ b.bt.results \in Seq(ValueTypes) /\ it \in SUBSET Nat
        /\ IsSeq(v.cs) /\ v.cs \in Seq(ControlBlocks) /\ v.cs # <<>>
    BY LastBlock
  <1>2. b.op = "if"
    BY <1>0, KeepsFail DEF validateElse
  <1>3. n > 1
    <2>1. n # 1
      BY <1>0, <1>1, <1>2
    <2>2. n \in Nat \ {0}
      BY <1>0
    <2> HIDE DEF n
    <2> QED
      BY <2>1, <2>2
  <1>4. Keeps(v, q)
    <2> DEFINE rs == b.bt.results
    <2>1. rs \in Seq(ValueTypes)
      BY <1>1
    <2> HIDE DEF rs
    <2>2. Keeps(v, requireStackValues(v, rs, TRUE))
      BY <1>0, <2>1, KeepsRequire, Zenon
    <2> QED
      BY <2>2, Zenon DEF rs
  <1>a. a \in ControlBlocks /\ a.bt = b.bt
    BY <1>1 DEF ControlBlocks, BlockNames
  <1> HIDE DEF ps, q, a
  <1>5. Keeps(v, y) /\ Reset(v, y, ps)
    BY <1>0, <1>1, <1>4, CutPushed
  <1>6. y \in ValidatorStates /\ y.cs = v.cs /\ y.limits = v.limits /\ Limit(v) <= Len(y.stack)
    BY <1>5 DEF Keeps
  <1>z. z \in ValidatorStates /\ z.cs = v.cs
    <2>1. Above(q)
      BY <1>0, <1>4, KeepsAbove
    <2>2. Keeps(q, z)
      BY <2>1, KeepsReset
    <2> QED
      BY <1>4, <2>2 DEF Keeps
  <1>7. validateElse(v) = w
    <2>1. validateElse(v) = pushAll([z EXCEPT !.cs = cs, !.init = it], ps)
      BY <1>2, <1>z, Zenon DEF validateElse, q, ps, a
    <2> HIDE DEF z, cs, it
    <2>2. pushAll([z EXCEPT !.cs = cs, !.init = it], ps) = w
      BY <1>z, Zenon DEF pushAll, ValidatorStates
    <2> QED
      BY <2>1, <2>2
  <1>c. /\ Len(fr) = n - 1 /\ fr \in Seq(ControlBlocks) /\ IsSeq(fr) /\ \A k \in 1 .. n - 1 : fr[k] = v.cs[k]
    <2> DEFINE r == v.cs
    <2>1. IsSeq(r) /\ r # <<>> /\ r \in Seq(ControlBlocks) /\ Len(r) = n
      BY <1>1
    <2> HIDE DEF r
    <2>2. Front(r) \in Seq(ControlBlocks)
      BY <2>1, FrontType
    <2>3. IsSeq(Front(r)) /\ Len(Front(r)) = Len(r) - 1 /\ \A k \in 1 .. Len(r) - 1 : Front(r)[k] = r[k]
      BY <2>1, FrontIs
    <2> QED
      BY <2>1, <2>2, <2>3 DEF r
  <1> HIDE DEF fr
  <1>d. Len(cs) = n /\ cs \in Seq(ControlBlocks) /\ (\A k \in 1 .. n - 1 : cs[k] = v.cs[k]) /\ cs[n] = a
    <2>1. cs \in Seq(ControlBlocks)
      BY <1>a, <1>c
    <2>2. Len(cs) = Len(fr) + 1 /\ (\A k \in 1 .. Len(fr) : cs[k] = fr[k]) /\ cs[Len(fr) + 1] = a
      BY <1>c, AppendIs
    <2>3. Len(fr) + 1 = n
      BY <1>0, <1>c
    <2> QED
      BY <1>c, <2>1, <2>2, <2>3
  <1> HIDE DEF cs, y, b
  <1>8. w \in ValidatorStates /\ w.cs = cs /\ w.limits = v.limits /\ w.stack = y.stack
    BY <1>1, <1>6, <1>d, Zenon DEF ValidatorStates
  <1>st. w.status = "ok"
    BY <1>7
  <1> HIDE DEF w
  <1>9. Limit(w) = Limit(v) /\ Above(w)
    BY <1>6, <1>8 DEF Limit, Above
  <1>10. Nested(w)
    <2>1. 1 \in 1 .. n - 1
      BY <1>0, <1>3
    <2>2. w.cs[1].op = "func" /\ w.cs # <<>>
      BY <1>0, <1>8, <1>d, <2>1
    <2>3. Len(w.limits) = Len(w.cs) - 1
      BY <1>0, <1>8, <1>d
    <2>4. \A j, k \in 1 .. Len(w.limits) : j <= k => w.limits[j] <= w.limits[k]
      BY <1>8 DEF Nested
    <2> QED
      BY <1>9, <1>st, <2>2, <2>3, <2>4 DEF Nested
  <1>11. \A k \in 1 .. n : w.cs[k].bt = v.cs[k].bt
    <2> SUFFICES ASSUME NEW k \in 1 .. n PROVE w.cs[k].bt = v.cs[k].bt
      OBVIOUS
    <2>1. CASE k = n
      BY <1>1, <1>8, <1>a, <1>d, <2>1
    <2>2. CASE k # n
      <3>1. k \in 1 .. n - 1
        BY <1>0, <2>2
      <3> QED
        BY <1>8, <1>d, <3>1
    <2> QED
      BY <2>1, <2>2
  <1>12. Reset(v, w, ps)
    BY <1>5, <1>8 DEF Reset
  <1>13. Len(w.cs) = n
    BY <1>8, <1>d
  <1> QED
    BY <1>3, <1>7, <1>8, <1>10, <1>11, <1>12, <1>13 DEF Turned, ps, b

(* The compiler's innermost frame, when it is that of the validator's      *)
(* innermost block.                                                        *)
Innermost(v, c, L) ==
    LET n == Len(v.cs)
        fr == Last(c.frames)
    IN  /\ Len(c.frames) = n /\ n \in Nat \ {0}
        /\ fr = c.frames[n] /\ IsFrame(fr)
        /\ fr.bt = Last(v.cs).bt
        /\ n # 1 => fr.len = L + Limit(v)
        /\ n = 1 => fr.len = 0
        /\ fr.kind = "func" <=> n = 1
        /\ L + Limit(v) <= Len(c.stack) /\ Limit(v) \in Nat /\ Len(c.stack) \in Nat
        /\ \A k \in 1 .. Limit(v) : v.stack[k] \in ValueTypes /\ c.stack[L + k] = U(v.stack[k])

(* The innermost frame stands for the innermost block. *)
LEMMA InnermostFacts ==
    ASSUME NEW v, NEW c, NEW mod, NEW L \in Nat, Joint(v, c, mod, L), c.depth = 0
    PROVE  Innermost(v, c, L)
  <1> DEFINE n == Len(v.cs)
             fs == c.frames
  <1>1. /\ Nested(v) /\ CompilerState(c) /\ SameBlocks(v, fs, L) /\ Len(fs) + c.depth = n /\ SameOperands(v, c, L)
    BY DEF Joint, Matched
  <1>2. /\ n \in Nat \ {0} /\ Limit(v) \in Nat /\ Limit(v) <= Len(v.stack) /\ Limit(v) = LimitOf(v, n) /\ Len(v.stack) \in Nat
    BY <1>1, NestedFacts
  <1>3. IsSeq(fs) /\ Len(fs) \in Nat /\ Len(c.stack) \in Nat /\ \A k \in 1 .. Len(fs) : IsFrame(fs[k])
    BY <1>1, SeqHas DEF CompilerState
  <1>4. Len(fs) = n
    BY <1>1, <1>2, <1>3
  <1>5. fs # <<>>
    BY <1>2, <1>3, <1>4, SeqHas
  <1>n. n \in 1 .. n
    BY <1>2
  <1>6. Last(fs) = fs[n] /\ IsFrame(fs[n])
    <2>1. Last(fs) = fs[Len(fs)]
      <3> HIDE DEF fs
      <3> QED
        BY <1>3, <1>5, FrontIs
    <2> QED
      BY <1>3, <1>4, <1>n, <2>1
  <1>7. Last(v.cs) = v.cs[n]
    BY <1>1, LastBlock
  <1>8. fs[n].bt = v.cs[n].bt /\ (fs[n].len = IF n = 1 THEN 0 ELSE L + v.limits[n - 1]) /\ (fs[n].kind = "func" <=> n = 1)
    <2>1. n \in 1 .. Len(fs)
      BY <1>4, <1>n
    <2> QED
      BY <1>1, <2>1, Zenon DEF SameBlocks
  <1>9. n # 1 => v.limits[n - 1] = Limit(v)
    BY <1>2 DEF LimitOf
  <1>10. Reach(v, c) \in Nat /\ Limit(v) <= Reach(v, c)
    BY <1>2, <1>4 DEF Reach
  <1>11. L + Limit(v) <= Len(c.stack)
    <2>1. L + Reach(v, c) <= Len(c.stack)
      BY <1>1 DEF SameOperands
    <2> QED
      BY <1>2, <1>3, <1>10, <2>1
  <1>12. \A k \in 1 .. Limit(v) : v.stack[k] \in ValueTypes /\ c.stack[L + k] = U(v.stack[k])
    <2> SUFFICES ASSUME NEW k \in 1 .. Limit(v) PROVE v.stack[k] \in ValueTypes /\ c.stack[L + k] = U(v.stack[k])
      OBVIOUS
    <2>1. k \in 1 .. Reach(v, c)
      BY <1>2, <1>10
    <2> QED
      BY <1>1, <2>1 DEF SameOperands
  <1>13. n # 1 => fs[n].len = L + Limit(v)
    BY <1>8, <1>9
  <1>14. n = 1 => fs[n].len = 0
    BY <1>8
  <1> QED
    BY <1>2, <1>3, <1>4, <1>6, <1>7, <1>8, <1>11, <1>12, <1>13, <1>14 DEF Innermost

(* The stack is cut to m values and the values ts are pushed. *)
Switched(c, d, m, ts) ==
    /\ Len(d.stack) = m + Len(ts)
    /\ \A k \in 1 .. m : d.stack[k] = c.stack[k]
    /\ \A k \in 1 .. Len(ts) : d.stack[m + k] = U(ts[k])

(* Cutting the compiler's stack to a frame's height and pushing types. *)
LEMMA SwitchFacts ==
    ASSUME NEW c, CompilerState(c), NEW fr, fr.len \in Nat, fr.len <= Len(c.stack), NEW ts \in Seq(ValueTypes)
    PROVE  LET d == stackPush(stackSwitchAt(c, fr), ts)
           IN  SameFrames(c, d) /\ d.ops = c.ops /\ Switched(c, d, fr.len, ts)
  <1> DEFINE m == fr.len
             s == c.stack
             r == SubSeq(s, 1, m)
             b == [c EXCEPT !.stack = r]
             d == stackPush(b, ts)
  <1>1. IsSeq(s)
    BY DEF CompilerState
  <1>m. m \in Nat /\ m <= Len(s)
    OBVIOUS
  <1>s. stackSwitchAt(c, fr) = b
    BY DEF stackSwitchAt
  <1> HIDE DEF s, m
  <1>2. IsSeq(r) /\ Len(r) = m /\ \A k \in 1 .. m : r[k] = s[k]
    BY <1>1, <1>m, PrefixIs
  <1> HIDE DEF r
  <1>3. SameFrames(c, b) /\ b.stack = r /\ b.ops = c.ops
    BY <1>2, StackFacts
  <1> HIDE DEF b
  <1>4. CompilerState(b) /\ IsSeq(ts)
    BY <1>3, SeqIs DEF SameFrames
  <1>5. /\ SameFrames(b, d) /\ d.ops = b.ops
        /\ Len(d.stack) = Len(b.stack) + Len(ts)
        /\ \A k \in 1 .. Len(b.stack) : d.stack[k] = b.stack[k]
        /\ \A k \in 1 .. Len(ts) : d.stack[Len(b.stack) + k] = U(ts[k])
    BY <1>4, PushFacts
  <1> HIDE DEF d
  <1>6. Len(b.stack) = m
    BY <1>2, <1>3
  <1>7. Switched(c, d, m, ts)
    BY <1>2, <1>3, <1>5, <1>6, Zenon DEF Switched, s
  <1>8. SameFrames(c, d) /\ d.ops = c.ops
    BY <1>3, <1>5 DEF SameFrames
  <1> QED
    BY <1>7, <1>8, <1>s DEF d, m

(* The same cut and push on both sides make the stacks agree again. *)
LEMMA AgreesSwitched ==
    ASSUME NEW v, NEW c, NEW L \in Nat, Innermost(v, c, L), NEW w, NEW ts \in Seq(ValueTypes), Reset(v, w, ts),
           NEW d, NEW m, m = L + Limit(v), Switched(c, d, m, ts)
    PROVE  Agrees(w, d, L)
  <1> DEFINE l == Limit(v)
             n == Len(ts)
  <1>1. l \in Nat /\ n \in Nat /\ \A k \in 1 .. n : ts[k] \in ValueTypes
    BY DEF Innermost
  <1>2. Len(w.stack) = l + n /\ (\A k \in 1 .. l : w.stack[k] = v.stack[k]) /\ (\A k \in 1 .. n : w.stack[l + k] = ts[k])
    BY DEF Reset
  <1>3. Len(d.stack) = m + n /\ (\A k \in 1 .. m : d.stack[k] = c.stack[k]) /\ (\A k \in 1 .. n : d.stack[m + k] = U(ts[k]))
    BY DEF Switched
  <1>4. \A k \in 1 .. l : v.stack[k] \in ValueTypes /\ c.stack[L + k] = U(v.stack[k])
    BY DEF Innermost
  <1>m. m = L + l
    OBVIOUS
  <1> HIDE DEF l, n
  <1>5. Len(d.stack) = L + Len(w.stack)
    BY <1>1, <1>2, <1>3, <1>m
  <1>6. ASSUME NEW k \in 1 .. Len(w.stack) PROVE w.stack[k] \in ValueTypes /\ d.stack[L + k] = U(w.stack[k])
    <2>1. CASE k <= l
      <3>1. k \in 1 .. l /\ L + k \in 1 .. m
        BY <1>1, <1>2, <1>m, <2>1
      <3> QED
        BY <1>2, <1>3, <1>4, <3>1, Zenon
    <2>2. CASE k > l
      <3> DEFINE j == k - l
      <3>k. k \in Nat /\ k <= l + n /\ l < k
        BY <1>1, <1>2, <2>2
      <3>1. j \in 1 .. n /\ l + j = k /\ m + j = L + k
        BY <1>1, <1>m, <3>k
      <3> HIDE DEF j
      <3>2. w.stack[k] = ts[j] /\ d.stack[L + k] = U(ts[j]) /\ ts[j] \in ValueTypes
        BY <1>1, <1>2, <1>3, <3>1, Zenon
      <3> QED
        BY <3>2
    <2>3. k <= l \/ k > l
      BY <1>1, <1>2
    <2> QED
      BY <2>1, <2>2, <2>3
  <1> QED
    BY <1>5, <1>6 DEF Agrees

(* A sequence with one element replaced. *)
LEMMA ExceptIs ==
    ASSUME NEW s, IsSeq(s), NEW n \in 1 .. Len(s), NEW x
    PROVE  LET t == [s EXCEPT ![n] = x]
           IN  IsSeq(t) /\ Len(t) = Len(s) /\ t[n] = x /\ \A k \in 1 .. Len(s) : k # n => t[k] = s[k]
  <1>1. PICK S : s \in Seq(S)
    BY DEF IsSeq
  <1> DEFINE t == [s EXCEPT ![n] = x]
             T == S \cup {x}
  <1>2. t \in Seq(T) /\ Len(t) = Len(s) /\ t[n] = x /\ \A k \in 1 .. Len(s) : k # n => t[k] = s[k]
    BY <1>1
  <1> QED
    BY <1>2, SeqIs, Zenon

(* The frame of an if becomes that of its else. *)
TurnedFrames(fs, gs, n) ==
    /\ IsSeq(gs) /\ Len(gs) = Len(fs)
    /\ \A k \in 1 .. Len(gs) : IsFrame(gs[k])
    /\ \A k \in 1 .. Len(gs) : gs[k].bt = fs[k].bt /\ gs[k].len = fs[k].len /\ gs[k].id = fs[k].id
    /\ \A k \in 1 .. Len(gs) : k # n => gs[k] = fs[k]
    /\ gs[n].kind = "ifelse"

(* What turning an if frame into an ifelse frame changes. *)
LEMMA TurnFrames ==
    ASSUME NEW c, CompilerState(c), NEW n \in 1 .. Len(c.frames)
    PROVE  LET d == [c EXCEPT !.frames[n].kind = "ifelse"]
           IN  /\ CompilerState(d) /\ TurnedFrames(c.frames, d.frames, n)
               /\ d.stack = c.stack /\ d.ops = c.ops /\ d.depth = c.depth /\ d.on = c.on /\ d.id = c.id
               /\ d.table = c.table /\ d.err = c.err /\ d.mod = c.mod
  <1> DEFINE fs == c.frames
             x == [fs[n] EXCEPT !.kind = "ifelse"]
             gs == [fs EXCEPT ![n] = x]
             d == [c EXCEPT !.frames = gs]
  <1>1. [c EXCEPT !.frames[n].kind = "ifelse"] = d
    OBVIOUS
  <1>2. IsSeq(fs) /\ n \in 1 .. Len(fs) /\ (\A k \in 1 .. Len(fs) : IsFrame(fs[k])) /\ Len(fs) \in Nat
    BY SeqHas DEF CompilerState
  <1> HIDE DEF fs
  <1>3. IsFrame(fs[n])
    BY <1>2
  <1>4. IsFrame(x) /\ x.bt = fs[n].bt /\ x.len = fs[n].len /\ x.id = fs[n].id /\ x.kind = "ifelse"
    BY <1>3 DEF IsFrame, FrameFields, Kinds
  <1> HIDE DEF x
  <1>5. IsSeq(gs) /\ Len(gs) = Len(fs) /\ gs[n] = x /\ \A k \in 1 .. Len(fs) : k # n => gs[k] = fs[k]
    BY <1>2, ExceptIs
  <1> HIDE DEF gs
  <1>6. TurnedFrames(fs, gs, n)
    <2>1. ASSUME NEW k \in 1 .. Len(gs) PROVE IsFrame(gs[k]) /\ gs[k].bt = fs[k].bt /\ gs[k].len = fs[k].len /\ gs[k].id = fs[k].id
      <3>1. CASE k = n
        BY <1>4, <1>5, <3>1
      <3>2. CASE k # n
        BY <1>2, <1>5, <3>2
      <3> QED
        BY <3>1, <3>2
    <2> QED
      BY <1>4, <1>5, <2>1 DEF TurnedFrames
  <1>7. \A k \in 1 .. Len(gs) : IsFrame(gs[k])
    BY <1>6 DEF TurnedFrames
  <1>8. /\ CompilerState(d) /\ d.frames = gs
        /\ d.stack = c.stack /\ d.ops = c.ops /\ d.depth = c.depth /\ d.on = c.on /\ d.id = c.id
        /\ d.table = c.table /\ d.err = c.err /\ d.mod = c.mod
    BY <1>5, <1>7, FramesFacts
  <1> QED
    BY <1>1, <1>6, <1>8, Zenon DEF fs

(* Turned into ifelse, a frame owes its else label at once and its continuation later. *)
LEMMA ButTurned ==
    ASSUME NEW c, LabelsFound(c), NEW d, d.ops = c.ops, d.table = c.table, NEW n \in 1 .. Len(c.frames), TurnedFrames(c.frames, d.frames, n),
           NEW el, el = <<"else", c.frames[n].id>>
    PROVE  LabelsBut(d, {el}) /\ Due(d, <<"continuation", c.frames[n].id>>)
  <1> DEFINE fs == c.frames
             gs == d.frames
  <1>0. Len(gs) = Len(fs) /\ (\A k \in 1 .. Len(gs) : k # n => gs[k] = fs[k]) /\ gs[n].kind = "ifelse" /\ n \in 1 .. Len(gs)
        /\ gs[n].id = fs[n].id
    BY DEF TurnedFrames
  <1>1. More(c, d)
    BY MoreSame
  <1>2. ASSUME NEW t, Due(c, t) PROVE Due(d, t) \/ t = el
    <2>1. PICK k \in 1 .. Len(fs) : Emits(fs[k], t)
      BY <1>2 DEF Due
    <2>2. CASE k # n
      BY <1>0, <2>1, <2>2 DEF Due
    <2>3. CASE k = n
      <3>1. t = <<"continuation", fs[n].id>> \/ t = el
        BY <2>1, <2>3 DEF Emits
      <3>2. t = <<"continuation", fs[n].id>> => Emits(gs[n], t)
        BY <1>0 DEF Emits
      <3> QED
        BY <1>0, <3>1, <3>2 DEF Due
    <2> QED
      BY <2>2, <2>3
  <1>3. \A t : Wanted(d, t) => Given(d, t) \/ Due(d, t) \/ t \in {el}
    BY <1>1, <1>2 DEF More, LabelsFound
  <1>4. ASSUME NEW k \in 1 .. Len(gs), gs[k].kind = "loop" PROVE Given(d, <<"header", gs[k].id>>)
    <2>1. k # n
      BY <1>0, <1>4
    <2>2. gs[k] = fs[k] /\ k \in 1 .. Len(fs)
      BY <1>0, <2>1
    <2>3. Given(c, <<"header", fs[k].id>>)
      BY <1>4, <2>2 DEF LabelsFound
    <2> QED
      BY <1>1, <2>2, <2>3 DEF More
  <1>5. LabelsBut(d, {el})
    BY <1>3, <1>4 DEF LabelsBut
  <1>6. Emits(gs[n], <<"continuation", c.frames[n].id>>)
    BY <1>0 DEF Emits
  <1> QED
    BY <1>0, <1>5, <1>6 DEF Due

(* compileElse follows an accepted else. *)
LEMMA CompileElse ==
    ASSUME NEW v, NEW c, NEW mod, NEW L \in Nat, Joint(v, c, mod, L), c.depth = 0, NEW w, Turned(v, w)
    PROVE  Joint(w, compileElse(c), mod, L)
  <1> DEFINE n == Len(v.cs)
             fr == Last(c.frames)
             ps == fr.bt.params
             el == <<"else", fr.id>>
             cont == <<"continuation", fr.id>>
             a == [c EXCEPT !.frames[Len(c.frames)].kind = "ifelse"]
             b == stackPush(stackSwitchAt(a, fr), ps)
             rg == getFrameDropRange(c, fr, FALSE)
             x == IF c.on THEN resetUnreachable(b) ELSE emitBr(emitDrop(b, rg), cont)
             d == emitLabel(x, el)
  <1>0. Innermost(v, c, L) /\ CompilerState(c) /\ c.err = FALSE /\ c.mod = mod /\ LabelsFound(c) /\ SameBlocks(v, c.frames, L)
    BY InnermostFacts, Zenon DEF Joint, Matched
  <1>1. /\ n > 1 /\ Nested(w) /\ Len(w.cs) = n /\ (\A k \in 1 .. n : w.cs[k].bt = v.cs[k].bt) /\ w.limits = v.limits
        /\ Reset(v, w, Last(v.cs).bt.params)
    BY DEF Turned
  <1>2. /\ Len(c.frames) = n /\ n \in Nat /\ n \in 1 .. Len(c.frames) /\ fr = c.frames[n] /\ fr.bt = Last(v.cs).bt /\ fr.bt \in FuncTypes
        /\ fr.len = L + Limit(v) /\ L + Limit(v) <= Len(c.stack) /\ Limit(v) \in Nat /\ fr.len \in Nat
    <2>1. /\ Len(c.frames) = n /\ n \in Nat /\ fr = c.frames[n] /\ fr.bt = Last(v.cs).bt /\ IsFrame(fr)
          /\ (n # 1 => fr.len = L + Limit(v)) /\ L + Limit(v) <= Len(c.stack) /\ Limit(v) \in Nat
      BY <1>0 DEF Innermost
    <2>2. n # 1 /\ n \in 1 .. n
      BY <1>1, <2>1
    <2> HIDE DEF n
    <2> QED
      BY <2>1, <2>2 DEF IsFrame
  <1>3. compileElse(c) = d
    <2>1. ~ (c.on /\ c.depth > 0)
      OBVIOUS
    <2> QED
      BY <2>1 DEF compileElse
  <1>4. ps \in Seq(ValueTypes) /\ Reset(v, w, ps)
    BY <1>1, <1>2 DEF FuncTypes
  <1>5. /\ CompilerState(a) /\ TurnedFrames(c.frames, a.frames, n)
        /\ a.stack = c.stack /\ a.ops = c.ops /\ a.depth = c.depth /\ a.on = c.on
        /\ a.table = c.table /\ a.err = c.err /\ a.mod = c.mod
    <2>1. Len(c.frames) \in 1 .. Len(c.frames)
      BY <1>2
    <2> DEFINE m == Len(c.frames)
    <2> HIDE DEF m
    <2>2. m \in 1 .. Len(c.frames)
      BY <2>1 DEF m
    <2>3. LET g == [c EXCEPT !.frames[m].kind = "ifelse"]
          IN  /\ CompilerState(g) /\ TurnedFrames(c.frames, g.frames, m)
              /\ g.stack = c.stack /\ g.ops = c.ops /\ g.depth = c.depth /\ g.on = c.on
              /\ g.table = c.table /\ g.err = c.err /\ g.mod = c.mod
      BY <1>0, <2>2, TurnFrames, Zenon
    <2> QED
      BY <1>2, <2>3 DEF m
  <1> HIDE DEF a, ps
  <1>6. SameFrames(a, b) /\ b.ops = a.ops /\ Switched(a, b, fr.len, ps)
    <2> HIDE DEF fr
    <2>1. fr.len \in Nat /\ fr.len <= Len(a.stack)
      BY <1>2, <1>5
    <2> QED
      BY <1>4, <1>5, <2>1, SwitchFacts
  <1> HIDE DEF b
  <1>7. /\ CompilerState(b) /\ b.frames = a.frames /\ b.on = c.on /\ b.depth = 0 /\ b.table = c.table /\ b.err = FALSE /\ b.mod = mod /\ b.ops = c.ops
    BY <1>0, <1>5, <1>6 DEF SameFrames
  <1>8. Agrees(w, b, L)
    <2>1. Switched(c, b, L + Limit(v), ps)
      BY <1>2, <1>5, <1>6 DEF Switched
    <2> DEFINE m == L + Limit(v)
    <2> HIDE DEF m
    <2>2. m = L + Limit(v) /\ Switched(c, b, m, ps)
      BY <2>1 DEF m
    <2> QED
      BY <1>0, <1>4, <2>2, AgreesSwitched
  <1>9. LabelsBut(b, {el}) /\ Due(b, cont)
    <2>1. el = <<"else", c.frames[n].id>> /\ cont = <<"continuation", c.frames[n].id>>
      BY <1>2
    <2>2. TurnedFrames(c.frames, b.frames, n) /\ n \in 1 .. Len(c.frames)
      BY <1>2, <1>5, <1>7
    <2> HIDE DEF el, n
    <2>3. LabelsBut(b, {el}) /\ Due(b, <<"continuation", c.frames[n].id>>)
      BY <1>0, <1>7, <2>1, <2>2, ButTurned, Zenon
    <2> QED
      BY <2>1, <2>3
  <1>10. SameBlocks(w, b.frames, L)
    <2> DEFINE fs == c.frames
               gs == b.frames
    <2>1. Len(gs) = n /\ Len(fs) = n /\ (\A k \in 1 .. n : gs[k].bt = fs[k].bt /\ gs[k].len = fs[k].len) /\ (\A k \in 1 .. n : k # n => gs[k] = fs[k])
          /\ gs[n].kind = "ifelse"
      BY <1>2, <1>5, <1>7 DEF TurnedFrames
    <2>2. ASSUME NEW k \in 1 .. n
          PROVE  /\ gs[k].bt = w.cs[k].bt
                 /\ gs[k].len = IF k = 1 THEN 0 ELSE L + w.limits[k - 1]
                 /\ gs[k].kind = "func" <=> k = 1
      <3>1. /\ fs[k].bt = v.cs[k].bt
            /\ fs[k].len = IF k = 1 THEN 0 ELSE L + v.limits[k - 1]
            /\ fs[k].kind = "func" <=> k = 1
        BY <1>0, <2>1 DEF SameBlocks
      <3>2. gs[k].kind = "func" <=> k = 1
        <4>1. CASE k = n
          BY <1>1, <2>1, <4>1
        <4>2. CASE k # n
          BY <2>1, <3>1, <4>2
        <4> QED
          BY <4>1, <4>2
      <3>3. gs[k].bt = fs[k].bt /\ gs[k].len = fs[k].len /\ w.cs[k].bt = v.cs[k].bt /\ w.limits = v.limits
        BY <1>1, <2>1
      <3> HIDE DEF gs, fs, n
      <3> QED
        BY <3>1, <3>2, <3>3
    <2>3. Len(gs) \in 1 .. Len(w.cs)
      BY <1>1, <1>2, <2>1
    <2> QED
      BY <2>1, <2>2, <2>3 DEF SameBlocks
  <1>11. /\ CompilerState(x) /\ x.frames = b.frames /\ x.stack = b.stack /\ x.depth = 0 /\ ~ x.on /\ x.err = FALSE /\ x.mod = mod
         /\ LabelsBut(x, {el})
    <2>1. CASE c.on
      <3> DEFINE z == [b EXCEPT !.on = FALSE]
      <3>1. x = z
        BY <2>1 DEF resetUnreachable
      <3>2. /\ CompilerState(z) /\ z.on = FALSE
            /\ z.stack = b.stack /\ z.ops = b.ops /\ z.frames = b.frames /\ z.depth = b.depth
            /\ z.table = b.table /\ z.err = b.err /\ z.mod = b.mod
        BY <1>7, MarkFacts, Zenon
      <3> HIDE DEF z
      <3>3. More(b, z)
        BY <3>2, MoreSame
      <3>4. LabelsBut(z, {el})
        <4> HIDE DEF el
        <4> QED
          BY <1>9, <3>2, <3>3, ButMore
      <3> QED
        BY <1>7, <3>1, <3>2, <3>4, Zenon
    <2>2. CASE ~ c.on
      <3> HIDE DEF el, cont
      <3> DEFINE y == emitDrop(b, rg)
                 z == emitBr(y, cont)
      <3>1. x = z
        BY <2>2
      <3> HIDE DEF rg
      <3>2. LabelsBut(y, {el}) /\ SameStack(b, y)
        BY <1>7, <1>9, ButDrop
      <3> HIDE DEF y
      <3>3. CompilerState(y) /\ Due(y, cont)
        BY <1>9, <3>2 DEF SameStack, SameFrames, Due
      <3>4. LabelsBut(z, {el}) /\ SameStack(y, z)
        BY <3>2, <3>3, ButBr
      <3> HIDE DEF z
      <3> QED
        BY <1>7, <2>2, <3>1, <3>2, <3>4 DEF SameStack, SameFrames
    <2> QED
      BY <2>1, <2>2, Zenon
  <1> HIDE DEF x, el
  <1>12. LabelsBut(d, {el} \ {el}) /\ SameStack(x, d)
    BY <1>11, ButLabel
  <1> HIDE DEF d
  <1>13. LabelsFound(d)
    <2>1. {el} \ {el} = {}
      OBVIOUS
    <2> QED
      BY <1>12, <2>1, ButNone
  <1>14. /\ CompilerState(d) /\ d.frames = b.frames /\ d.stack = b.stack /\ d.depth = 0 /\ ~ d.on /\ d.err = FALSE /\ d.mod = mod
    BY <1>11, <1>12 DEF SameStack, SameFrames
  <1>15. Matched(w, d, mod, L)
    <2>1. Agrees(w, d, L)
      BY <1>8, <1>14 DEF Agrees
    <2>2. SameBlocks(w, d.frames, L)
      BY <1>10, <1>14
    <2>3. Len(d.frames) = Len(w.cs)
      BY <1>1, <1>2, <1>5, <1>7, <1>14 DEF TurnedFrames
    <2>4. Matched(w, d, d.mod, L)
      BY <1>1, <1>14, <2>1, <2>2, <2>3, MatchBuilt, Zenon
    <2> QED
      BY <1>14, <2>4
  <1> QED
    BY <1>3, <1>13, <1>15 DEF Joint

(* In code that cannot be reached. *)
LEMMA MatchOff ==
    ASSUME NEW v, NEW c, NEW mod, NEW L \in Nat, Matched(v, c, mod, L), c.on, NEW w, Nested(w),
           NEW d, CompilerState(d), d.stack = c.stack, d.frames = c.frames, d.on = c.on, d.err = c.err, d.mod = c.mod,
           Len(d.frames) + d.depth = Len(w.cs), Len(c.frames) <= Len(w.cs),
           \A k \in 1 .. Len(c.frames) : w.cs[k].bt = v.cs[k].bt /\ LimitOf(w, k) = LimitOf(v, k),
           \A k \in 1 .. Limit(v) : w.stack[k] = v.stack[k]
    PROVE  Matched(w, d, mod, L)
  <1> DEFINE k0 == Len(c.frames)
  <1>0. Nested(v) /\ SameBlocks(v, c.frames, L) /\ SameOperands(v, c, L) /\ c.err = FALSE /\ c.mod = mod
    BY DEF Matched
  <1>1. Len(w.cs) \in Nat /\ k0 \in 1 .. Len(v.cs) /\ Len(v.cs) \in Nat
    BY <1>0, NestedFacts DEF SameBlocks
  <1>2. k0 \in Nat /\ k0 \in 1 .. k0
    BY <1>1
  <1>3. SameBlocks(w, d.frames, L)
    <2>1. Len(d.frames) \in 1 .. Len(w.cs)
      BY <1>1, <1>2
    <2>2. ASSUME NEW k \in 1 .. Len(d.frames)
          PROVE  /\ d.frames[k].bt = w.cs[k].bt
                 /\ d.frames[k].len = IF k = 1 THEN 0 ELSE L + w.limits[k - 1]
                 /\ d.frames[k].kind = "func" <=> k = 1
      <3>1. w.cs[k].bt = v.cs[k].bt /\ LimitOf(w, k) = LimitOf(v, k) /\ k \in 1 .. Len(c.frames)
        OBVIOUS
      <3>2. k # 1 => w.limits[k - 1] = v.limits[k - 1]
        BY <3>1 DEF LimitOf
      <3>3. /\ c.frames[k].bt = v.cs[k].bt
            /\ c.frames[k].len = IF k = 1 THEN 0 ELSE L + v.limits[k - 1]
            /\ c.frames[k].kind = "func" <=> k = 1
        BY <1>0, <3>1 DEF SameBlocks
      <3> QED
        BY <3>1, <3>2, <3>3
    <2> QED
      BY <2>1, <2>2 DEF SameBlocks
  <1>4. Reach(w, d) = Reach(v, c) /\ Reach(v, c) \in Nat /\ Reach(v, c) <= Limit(v) /\ Limit(v) \in Nat
    <2>1. LimitOf(v, k0) \in Nat /\ LimitOf(v, k0) <= Limit(v) /\ Limit(v) \in Nat
      BY <1>0, <1>1, NestedFacts
    <2>2. LimitOf(w, k0) = LimitOf(v, k0)
      BY <1>2
    <2> QED
      BY <2>1, <2>2 DEF Reach
  <1>5. SameOperands(w, d, L)
    <2>1. ASSUME NEW k \in 1 .. Reach(w, d) PROVE w.stack[k] \in ValueTypes /\ d.stack[L + k] = U(w.stack[k])
      <3>1. k \in 1 .. Reach(v, c) /\ k \in 1 .. Limit(v)
        BY <1>4
      <3>2. v.stack[k] \in ValueTypes /\ c.stack[L + k] = U(v.stack[k])
        BY <1>0, <3>1 DEF SameOperands
      <3> QED
        BY <3>1, <3>2
    <2>2. L + Reach(w, d) <= Len(d.stack)
      BY <1>0, <1>4 DEF SameOperands
    <2> QED
      BY <2>1, <2>2 DEF SameOperands
  <1> QED
    BY <1>0, <1>3, <1>5 DEF Matched

(* else: validator and compiler stay joined. *)
LEMMA ElseStep ==
    ASSUME NEW v, NEW c, NEW mod, NEW L \in Nat, Joint(v, c, mod, L),
           NEW f, NEW i, Decoded(i), i.op = "else", Validate(v, mod, f, i).status = "ok"
    PROVE  Joint(Validate(v, mod, f, i), Handle(c, f, i), mod, L)
  <1> DEFINE w == validateElse(v)
  <1>1. v.cs # <<>> /\ Nested(v) /\ CompilerState(c) /\ c.err = FALSE /\ Matched(v, c, mod, L) /\ LabelsFound(c) /\ c.depth \in Nat
    BY InitType, Zenon DEF Joint, CompilerState
  <1>2. Validate(v, mod, f, i) = w
    BY <1>1 DEF Validate
  <1>3. Turned(v, w)
    <2>1. validateElse(v).status = "ok"
      BY <1>2
    <2> QED
      BY <1>1, <2>1, TurnFacts
  <1> HIDE DEF w
  <1>4. CASE c.on
    <2>1. HandledAs(c, f, i, c, Handle(c, f, i))
      BY <1>1, <1>4, ApplyOff, Zenon
    <2>2. Handle(c, f, i) = compileElse(c)
      BY <2>1 DEF HandledAs
    <2>3. CASE c.depth > 0
      <3>1. compileElse(c) = c
        BY <1>4, <2>3 DEF compileElse
      <3>2. /\ Nested(w) /\ Len(w.cs) = Len(v.cs) /\ (\A k \in 1 .. Len(v.cs) : w.cs[k].bt = v.cs[k].bt) /\ w.limits = v.limits
            /\ (\A k \in 1 .. Limit(v) : w.stack[k] = v.stack[k])
        BY <1>3 DEF Turned, Reset
      <3>3. Len(c.frames) + c.depth = Len(v.cs) /\ Len(c.frames) \in 1 .. Len(v.cs)
        BY <1>1 DEF Matched, SameBlocks
      <3>4. Len(v.cs) \in Nat
        BY <1>1, NestedFacts
      <3>5. \A k \in 1 .. Len(c.frames) : w.cs[k].bt = v.cs[k].bt /\ LimitOf(w, k) = LimitOf(v, k)
        <4> SUFFICES ASSUME NEW k \in 1 .. Len(c.frames) PROVE w.cs[k].bt = v.cs[k].bt /\ LimitOf(w, k) = LimitOf(v, k)
          OBVIOUS
        <4>1. k \in 1 .. Len(v.cs)
          BY <3>3, <3>4
        <4> QED
          BY <3>2, <4>1 DEF LimitOf
      <3>6. Len(c.frames) + c.depth = Len(w.cs) /\ Len(c.frames) <= Len(w.cs)
        BY <3>2, <3>3, <3>4
      <3>7. Matched(w, c, mod, L)
        BY <1>1, <1>4, <3>2, <3>5, <3>6, MatchOff
      <3> QED
        BY <1>1, <1>2, <2>2, <3>1, <3>7 DEF Joint
    <2>4. CASE c.depth = 0
      BY <1>2, <1>3, <2>2, <2>4, CompileElse
    <2> QED
      BY <1>1, <2>3, <2>4
  <1>5. CASE ~ c.on
    <2> DEFINE e == applyToStack(c, f, i)
    <2>0. i.op \in NoOperands
      BY DEF NoOperands
    <2>1. Joint(v, e, mod, L) /\ ~ e.on /\ HandledAs(c, f, i, e, Handle(c, f, i))
      BY <1>5, <2>0, ApplyNone
    <2> HIDE DEF e
    <2>2. Handle(c, f, i) = compileElse(e)
      BY <2>1 DEF HandledAs
    <2>3. e.depth = 0
      BY <2>1, MatchLive, Zenon DEF Joint
    <2> QED
      BY <1>2, <1>3, <2>1, <2>2, <2>3, CompileElse
  <1> QED
    BY <1>4, <1>5

(* The labels of a frame that is left. *)
LEMMA ButPopped ==
    ASSUME NEW c, LabelsFound(c), NEW d, d.ops = c.ops, d.table = c.table, Len(c.frames) \in Nat \ {0},
           Len(d.frames) = Len(c.frames) - 1, \A k \in 1 .. Len(d.frames) : d.frames[k] = c.frames[k],
           NEW X, \A t : Emits(c.frames[Len(c.frames)], t) => t \in X
    PROVE  LabelsBut(d, X)
  <1> DEFINE n == Len(c.frames)
  <1>1. More(c, d)
    BY MoreSame
  <1>2. ASSUME NEW t, Due(c, t) PROVE Due(d, t) \/ t \in X
    <2>1. PICK k \in 1 .. n : Emits(c.frames[k], t)
      BY <1>2 DEF Due
    <2>2. CASE k = n
      BY <2>1, <2>2
    <2>3. CASE k # n
      <3>1. k \in 1 .. Len(d.frames)
        BY <2>3
      <3> QED
        BY <2>1, <3>1 DEF Due
    <2> QED
      BY <2>2, <2>3
  <1>3. \A t : Wanted(d, t) => Given(d, t) \/ Due(d, t) \/ t \in X
    BY <1>1, <1>2 DEF More, LabelsFound
  <1>4. ASSUME NEW k \in 1 .. Len(d.frames), d.frames[k].kind = "loop" PROVE Given(d, <<"header", d.frames[k].id>>)
    <2>1. d.frames[k] = c.frames[k] /\ k \in 1 .. n
      OBVIOUS
    <2>2. Given(c, <<"header", c.frames[k].id>>)
      BY <1>4, <2>1 DEF LabelsFound
    <2> QED
      BY <1>1, <2>1, <2>2 DEF More
  <1> QED
    BY <1>3, <1>4 DEF LabelsBut

(* Having the same stack and frames is transitive. *)
LEMMA SameTrans ==
    ASSUME NEW c, NEW d, NEW e, SameStack(c, d), SameStack(d, e)
    PROVE  SameStack(c, e)
  BY DEF SameStack, SameFrames

(* Emitting the only label still excepted leaves every label found. *)
LEMMA LastLabel ==
    ASSUME NEW d, CompilerState(d), ~ d.on, NEW X, NEW x, LabelsBut(d, X), X \subseteq {x}
    PROVE  SameStack(d, emitLabel(d, x)) /\ LabelsFound(emitLabel(d, x))
  <1>1. LabelsBut(emitLabel(d, x), X \ {x}) /\ SameStack(d, emitLabel(d, x))
    BY ButLabel
  <1>2. X \ {x} = {}
    OBVIOUS
  <1> QED
    BY <1>1, <1>2, ButNone

(* The else of an if that has none. *)
LEMMA EmptyElse ==
    ASSUME NEW d, CompilerState(d), ~ d.on, NEW el, NEW cont, LabelsBut(d, {el, cont})
    PROVE  LET r == emitLabel(emitBr(emitLabel(d, el), cont), cont)
           IN  SameStack(d, r) /\ LabelsFound(r)
  <1> DEFINE a == emitLabel(d, el)
             b == emitBr(a, cont)
             r == emitLabel(b, cont)
             X == {el, cont}
             Y == X \ {el}
  <1>0. LabelsBut(d, X)
    OBVIOUS
  <1>1. Y \subseteq {cont}
    OBVIOUS
  <1> HIDE DEF X
  <1>2. LabelsBut(a, Y) /\ SameStack(d, a)
    BY <1>0, ButLabel
  <1> HIDE DEF Y, a
  <1>3. CompilerState(a) /\ ~ a.on
    BY <1>2 DEF SameStack, SameFrames
  <1>4. LabelsBut(a, {cont})
    BY <1>1, <1>2, ButWider
  <1> DEFINE Z == {cont}
  <1>5. cont \in Z /\ LabelsBut(a, Z) /\ Z \subseteq {cont}
    BY <1>4
  <1> HIDE DEF Z
  <1>6. LabelsBut(b, Z) /\ SameStack(a, b)
    BY <1>3, <1>5, ButBr
  <1> HIDE DEF b
  <1>7. CompilerState(b) /\ ~ b.on
    BY <1>3, <1>6 DEF SameStack, SameFrames
  <1>8. SameStack(b, r) /\ LabelsFound(r)
    BY <1>5, <1>6, <1>7, LastLabel
  <1> HIDE DEF r
  <1>9. SameStack(d, b)
    BY <1>2, <1>6, SameTrans
  <1>10. SameStack(d, r)
    BY <1>8, <1>9, SameTrans
  <1> QED
    BY <1>8, <1>10 DEF r, b, a

(* What compileEnd leaves of the state before it emits. *)
AfterEnd(c) ==
    LET frame == Last(c.frames)
    IN  stackPush(stackSwitchAt([c EXCEPT !.frames = Front(@), !.on = FALSE], frame), frame.bt.results)

(* What AfterEnd leaves: one frame fewer and the block's results on the stack. *)
LEMMA AfterFacts ==
    ASSUME NEW v, NEW c, NEW L \in Nat, Innermost(v, c, L), CompilerState(c)
    PROVE  LET a == AfterEnd(c)
           IN  /\ CompilerState(a) /\ ~ a.on
               /\ Len(a.frames) = Len(c.frames) - 1 /\ \A k \in 1 .. Len(a.frames) : a.frames[k] = c.frames[k]
               /\ a.depth = c.depth /\ a.table = c.table /\ a.err = c.err /\ a.mod = c.mod /\ a.ops = c.ops
               /\ Switched(c, a, Last(c.frames).len, Last(c.frames).bt.results)
               /\ a.frames = Front(c.frames)
  <1> DEFINE fr == Last(c.frames)
             ts == fr.bt.results
             fs == c.frames
             gs == Front(fs)
             x == [c EXCEPT !.frames = gs]
             y == [x EXCEPT !.on = FALSE]
             a == stackPush(stackSwitchAt(y, fr), ts)
             n == Len(v.cs)
  <1>1. /\ Len(fs) = n /\ n \in Nat \ {0} /\ IsFrame(fr) /\ (n # 1 => fr.len = L + Limit(v)) /\ (n = 1 => fr.len = 0)
        /\ L + Limit(v) <= Len(c.stack) /\ Limit(v) \in Nat /\ Len(c.stack) \in Nat
    BY DEF Innermost
  <1>2. fr.len \in Nat /\ fr.len <= Len(c.stack) /\ ts \in Seq(ValueTypes)
    <2>1. fr.len \in Nat /\ fr.bt \in FuncTypes
      BY <1>1 DEF IsFrame
    <2>2. fr.len <= Len(c.stack)
      <3> HIDE DEF fr, n
      <3> QED
        BY <1>1
    <2> QED
      BY <2>1, <2>2 DEF FuncTypes
  <1>3. IsSeq(fs) /\ (\A k \in 1 .. Len(fs) : IsFrame(fs[k])) /\ fs # <<>>
    <2>1. IsSeq(fs) /\ \A k \in 1 .. Len(fs) : IsFrame(fs[k])
      BY DEF CompilerState
    <2>2. fs # <<>>
      BY <1>1, <2>1, SeqHas
    <2> QED
      BY <2>1, <2>2
  <1>4. AfterEnd(c) = a
    <2>1. [c EXCEPT !.frames = Front(@), !.on = FALSE] = y
      BY DEF CompilerState, CompilerFields
    <2> QED
      BY <2>1 DEF AfterEnd
  <1>r. fs = c.frames
    OBVIOUS
  <1>nn. n \in Nat \ {0} /\ Len(fs) = n
    BY <1>1
  <1> HIDE DEF fr, ts, fs, n
  <1>5. IsSeq(gs) /\ Len(gs) = Len(fs) - 1 /\ \A k \in 1 .. Len(fs) - 1 : gs[k] = fs[k]
    BY <1>3, FrontIs
  <1>6. Len(gs) = Len(fs) - 1 /\ (\A k \in 1 .. Len(gs) : gs[k] = fs[k] /\ k \in 1 .. Len(fs))
    BY <1>5, <1>nn
  <1>7. \A k \in 1 .. Len(gs) : IsFrame(gs[k])
    BY <1>3, <1>6
  <1> HIDE DEF gs
  <1>8. /\ CompilerState(x) /\ x.frames = gs
        /\ x.stack = c.stack /\ x.ops = c.ops /\ x.depth = c.depth /\ x.on = c.on /\ x.id = c.id
        /\ x.table = c.table /\ x.err = c.err /\ x.mod = c.mod
    BY <1>5, <1>7, FramesFacts
  <1> HIDE DEF x
  <1>9. /\ CompilerState(y) /\ y.on = FALSE
        /\ y.stack = x.stack /\ y.ops = x.ops /\ y.frames = x.frames /\ y.depth = x.depth /\ y.id = x.id
        /\ y.table = x.table /\ y.err = x.err /\ y.mod = x.mod
    BY <1>8, MarkFacts, Zenon
  <1> HIDE DEF y
  <1>10. SameFrames(y, a) /\ a.ops = y.ops /\ Switched(y, a, fr.len, ts)
    <2>1. CompilerState(y) /\ fr.len \in Nat /\ fr.len <= Len(y.stack) /\ ts \in Seq(ValueTypes)
      BY <1>2, <1>8, <1>9
    <2> QED
      BY <2>1, SwitchFacts
  <1> HIDE DEF a
  <1>11. Switched(c, a, fr.len, ts)
    BY <1>8, <1>9, <1>10 DEF Switched
  <1>12. /\ CompilerState(a) /\ ~ a.on /\ a.frames = gs
         /\ a.depth = c.depth /\ a.table = c.table /\ a.err = c.err /\ a.mod = c.mod /\ a.ops = c.ops
    BY <1>8, <1>9, <1>10 DEF SameFrames
  <1>13. Len(a.frames) = Len(c.frames) - 1 /\ \A k \in 1 .. Len(a.frames) : a.frames[k] = c.frames[k]
    BY <1>6, <1>12, <1>r
  <1> QED
    BY <1>4, <1>11, <1>12, <1>13 DEF fr, ts, gs, fs

(* The labels the end of a frame emits. *)
LEMMA CompileEndLabels ==
    ASSUME NEW c, CompilerState(c), LabelsFound(c), c.depth = 0, NEW n \in Nat \ {0}, Len(c.frames) = n,
           Last(c.frames) = c.frames[n], IsFrame(c.frames[n]), c.frames[n].kind # "func",
           NEW a, a = AfterEnd(c), CompilerState(a), ~ a.on, a.ops = c.ops, a.table = c.table,
           Len(a.frames) = n - 1, \A k \in 1 .. Len(a.frames) : a.frames[k] = c.frames[k]
    PROVE  SameStack(a, compileEnd(c)) /\ LabelsFound(compileEnd(c))
  <1> DEFINE fr == Last(c.frames)
             el == <<"else", fr.id>>
             cont == <<"continuation", fr.id>>
             rg == getFrameDropRange(c, fr, TRUE)
             l == emitDrop(a, rg)
             b == emitBr(l, cont)
             d == compileEnd(c)
  <1>0. fr = c.frames[n] /\ fr.kind \in Kinds \ {"func"}
    BY DEF IsFrame
  <1>1. /\ c.on /\ fr.kind = "if" => d = emitLabel(emitBr(emitLabel(a, el), cont), cont)
        /\ c.on /\ fr.kind # "if" => d = emitLabel(a, cont)
    <2>1. ~ (c.depth > 0) /\ fr.kind # "func"
      BY <1>0
    <2>2. ASSUME c.on, fr.kind = "if" PROVE d = emitLabel(emitBr(emitLabel(a, el), cont), cont)
      BY <2>1, <2>2 DEF compileEnd, AfterEnd
    <2>3. ASSUME c.on, fr.kind # "if" PROVE d = emitLabel(a, cont)
      BY <2>1, <2>3 DEF compileEnd, AfterEnd
    <2> QED
      BY <2>2, <2>3
  <1>2. /\ ~ c.on /\ fr.kind = "if" => d = emitLabel(emitBr(emitLabel(b, el), cont), cont)
        /\ ~ c.on /\ fr.kind \in {"continued", "ifelse", "try_table"} => d = emitLabel(b, cont)
        /\ ~ c.on /\ fr.kind \in {"loop", "block"} => d = l
    BY <1>0, Zenon DEF compileEnd, AfterEnd, Kinds
  <1> DEFINE X == IF fr.kind = "if" THEN {el, cont} ELSE IF fr.kind \in {"continued", "ifelse", "try_table"} THEN {cont} ELSE {}
  <1>3. \A t : Emits(c.frames[Len(c.frames)], t) => t \in X
    BY <1>0 DEF Emits, Kinds
  <1>x. /\ fr.kind = "if" => X = {el, cont} /\ cont \in X
        /\ fr.kind \in {"continued", "ifelse", "try_table"} => X = {cont} /\ cont \in X
        /\ fr.kind \in {"loop", "block"} => X = {}
        /\ fr.kind \in {"if", "continued", "ifelse", "try_table", "loop", "block"}
        /\ fr.kind # "if" => X \subseteq {cont}
    BY <1>0 DEF Kinds
  <1> HIDE DEF X, el, cont, d, rg, fr
  <1>4. LabelsBut(a, X)
    <2>1. Len(c.frames) \in Nat \ {0} /\ Len(a.frames) = Len(c.frames) - 1
      OBVIOUS
    <2> QED
      BY <1>3, <2>1, ButPopped
  <1>5. LabelsBut(l, X) /\ SameStack(a, l)
    BY <1>4, ButDrop
  <1> HIDE DEF l
  <1>6. CompilerState(l) /\ ~ l.on
    BY <1>5 DEF SameStack, SameFrames
  <1>7. ASSUME cont \in X PROVE LabelsBut(b, X) /\ SameStack(a, b) /\ CompilerState(b) /\ ~ b.on
    <2>1. LabelsBut(b, X) /\ SameStack(l, b)
      BY <1>5, <1>6, <1>7, ButBr
    <2>2. SameStack(a, b)
      BY <1>5, <2>1, SameTrans
    <2> QED
      BY <2>1, <2>2 DEF SameStack, SameFrames
  <1> HIDE DEF b
  <1>8. CASE fr.kind = "if"
    <2>1. CASE c.on
      <3>1. LabelsBut(a, {el, cont})
        BY <1>4, <1>8, <1>x, Zenon
      <3>2. d = emitLabel(emitBr(emitLabel(a, el), cont), cont)
        BY <1>1, <1>8, <2>1
      <3>3. SameStack(a, d) /\ LabelsFound(d)
        BY <3>1, <3>2, EmptyElse
      <3> QED
        BY <3>3 DEF d
    <2>2. CASE ~ c.on
      <3>0. cont \in X
        BY <1>8, <1>x
      <3>1. LabelsBut(b, {el, cont}) /\ SameStack(a, b) /\ CompilerState(b) /\ ~ b.on
        BY <1>7, <1>8, <1>x, <3>0, Zenon
      <3>2. d = emitLabel(emitBr(emitLabel(b, el), cont), cont)
        BY <1>2, <1>8, <2>2
      <3>3. SameStack(b, d) /\ LabelsFound(d)
        BY <3>1, <3>2, EmptyElse
      <3>4. SameStack(a, d)
        BY <3>1, <3>3, SameTrans
      <3> QED
        BY <3>3, <3>4 DEF d
    <2> QED
      BY <2>1, <2>2
  <1>9. CASE fr.kind # "if" /\ c.on
    <2>1. d = emitLabel(a, cont) /\ X \subseteq {cont}
      BY <1>1, <1>9, <1>x
    <2>2. SameStack(a, d) /\ LabelsFound(d)
      BY <1>4, <2>1, LastLabel
    <2> QED
      BY <2>2 DEF d
  <1>10. CASE fr.kind \in {"continued", "ifelse", "try_table"} /\ ~ c.on
    <2>1. d = emitLabel(b, cont) /\ X \subseteq {cont} /\ cont \in X
      BY <1>2, <1>10, <1>x
    <2>2. LabelsBut(b, X) /\ SameStack(a, b) /\ CompilerState(b) /\ ~ b.on
      BY <1>7, <2>1
    <2>3. SameStack(b, d) /\ LabelsFound(d)
      BY <2>1, <2>2, LastLabel
    <2>4. SameStack(a, d)
      BY <2>2, <2>3, SameTrans
    <2> QED
      BY <2>3, <2>4 DEF d
  <1>11. CASE fr.kind \in {"loop", "block"} /\ ~ c.on
    <2>1. d = l /\ X = {}
      BY <1>2, <1>11, <1>x
    <2>2. LabelsFound(l)
      BY <1>5, <2>1, ButNone
    <2> QED
      BY <1>5, <2>1, <2>2 DEF d
  <1> QED
    BY <1>8, <1>9, <1>10, <1>11, <1>x

(* compileEnd of an inner frame follows an accepted end. *)
LEMMA CompileEnd ==
    ASSUME NEW v, NEW c, NEW mod, NEW L \in Nat, Joint(v, c, mod, L), c.depth = 0, Len(v.cs) > 1,
           NEW w, Left(v, w, Last(v.cs).bt.results)
    PROVE  Joint(w, compileEnd(c), mod, L)
  <1> DEFINE n == Len(v.cs)
             fr == Last(c.frames)
             ts == fr.bt.results
             a == AfterEnd(c)
             d == compileEnd(c)
  <1>0. Innermost(v, c, L) /\ CompilerState(c) /\ c.err = FALSE /\ c.mod = mod /\ LabelsFound(c) /\ SameBlocks(v, c.frames, L)
    BY InnermostFacts, Zenon DEF Joint, Matched
  <1>1. /\ Len(c.frames) = n /\ n \in Nat \ {0} /\ fr = c.frames[n] /\ IsFrame(c.frames[n]) /\ fr.bt = Last(v.cs).bt
        /\ fr.len = L + Limit(v) /\ c.frames[n].kind # "func" /\ n > 1
    <2>1. /\ Len(c.frames) = n /\ n \in Nat \ {0} /\ fr = c.frames[n] /\ fr.bt = Last(v.cs).bt /\ IsFrame(fr)
          /\ (n # 1 => fr.len = L + Limit(v)) /\ (fr.kind = "func" <=> n = 1)
      BY <1>0 DEF Innermost
    <2>2. n # 1 /\ n > 1
      BY <2>1
    <2> HIDE DEF n
    <2> QED
      BY <2>1, <2>2
  <1>2. /\ CompilerState(a) /\ ~ a.on
        /\ Len(a.frames) = Len(c.frames) - 1 /\ (\A k \in 1 .. Len(a.frames) : a.frames[k] = c.frames[k])
        /\ a.depth = c.depth /\ a.table = c.table /\ a.err = c.err /\ a.mod = c.mod /\ a.ops = c.ops
        /\ Switched(c, a, fr.len, ts)
    BY <1>0, AfterFacts
  <1>3. /\ Nested(w) /\ Len(w.cs) = n - 1
        /\ \A k \in 1 .. n - 1 : w.cs[k] = v.cs[k]
        /\ \A k \in 1 .. n - 1 : LimitOf(w, k) = LimitOf(v, k)
        /\ Reset(v, w, ts)
    BY <1>1 DEF Left
  <1>4. ts \in Seq(ValueTypes)
    BY <1>1 DEF IsFrame, FuncTypes
  <1> HIDE DEF a, ts, d
  <1>5. SameStack(a, d) /\ LabelsFound(d)
    <2>1. Len(a.frames) = n - 1
      BY <1>1, <1>2
    <2>2. a = AfterEnd(c) /\ d = compileEnd(c)
      BY DEF a, d
    <2>3. n \in Nat \ {0} /\ Len(c.frames) = n /\ Last(c.frames) = c.frames[n] /\ IsFrame(c.frames[n]) /\ c.frames[n].kind # "func"
      BY <1>1
    <2> HIDE DEF n
    <2> QED
      BY <1>0, <1>2, <2>1, <2>2, <2>3, CompileEndLabels, Zenon
  <1>6. Agrees(w, a, L)
    <2> DEFINE m == fr.len
    <2> HIDE DEF m
    <2>1. m = L + Limit(v) /\ Switched(c, a, m, ts)
      BY <1>1, <1>2 DEF m
    <2> QED
      BY <1>0, <1>3, <1>4, <2>1, AgreesSwitched
  <1>7. /\ CompilerState(d) /\ d.frames = a.frames /\ d.stack = a.stack /\ d.depth = 0 /\ ~ d.on /\ d.err = FALSE /\ d.mod = mod
    BY <1>0, <1>2, <1>5 DEF SameStack, SameFrames
  <1>n. n \in Nat /\ n > 1
    BY <1>1
  <1>8. SameBlocks(w, d.frames, L)
    <2> DEFINE gs == d.frames
    <2>1. Len(gs) = n - 1 /\ (\A k \in 1 .. n - 1 : gs[k] = c.frames[k])
      BY <1>1, <1>2, <1>7
    <2>b. \A k \in 1 .. n : /\ c.frames[k].bt = v.cs[k].bt
                            /\ c.frames[k].len = IF k = 1 THEN 0 ELSE L + v.limits[k - 1]
                            /\ c.frames[k].kind = "func" <=> k = 1
      BY <1>0, <1>1 DEF SameBlocks
    <2> HIDE DEF n, gs
    <2>2. ASSUME NEW k \in 1 .. n - 1
          PROVE  /\ gs[k].bt = w.cs[k].bt
                 /\ gs[k].len = IF k = 1 THEN 0 ELSE L + w.limits[k - 1]
                 /\ gs[k].kind = "func" <=> k = 1
      <3>0. k \in 1 .. n
        BY <1>n
      <3>1. w.cs[k] = v.cs[k] /\ LimitOf(w, k) = LimitOf(v, k) /\ gs[k] = c.frames[k]
        BY <1>3, <2>1
      <3>2. k # 1 => w.limits[k - 1] = v.limits[k - 1]
        BY <3>1 DEF LimitOf
      <3> QED
        BY <2>b, <3>0, <3>1, <3>2
    <2>3. Len(gs) \in 1 .. Len(w.cs)
      BY <1>3, <1>n, <2>1
    <2> QED
      BY <2>1, <2>2, <2>3 DEF SameBlocks, gs
  <1>9. Matched(w, d, mod, L)
    <2>1. Agrees(w, d, L)
      BY <1>6, <1>7, Zenon DEF Agrees
    <2>2. Len(d.frames) = Len(w.cs)
      BY <1>1, <1>2, <1>3, <1>7
    <2>3. Matched(w, d, d.mod, L)
      BY <1>3, <1>7, <1>8, <2>1, <2>2, MatchBuilt, Zenon
    <2> QED
      BY <1>7, <2>3
  <1> QED
    BY <1>5, <1>9 DEF Joint, d

(* The function is over. *)
Over(c) == c.frames = <<>> /\ c.err = FALSE /\ LabelsFound(c) /\ IsSeq(c.ops) /\ IsSeq(c.table)

(* compileEnd of the function's own frame ends the compilation with every label found. *)
LEMMA CompileEndLast ==
    ASSUME NEW v, NEW c, NEW mod, NEW L \in Nat, Joint(v, c, mod, L), c.depth = 0, Len(v.cs) = 1
    PROVE  Over(compileEnd(c))
  <1> DEFINE fr == Last(c.frames)
             a == AfterEnd(c)
             d == compileEnd(c)
             none == {}
  <1>0. Innermost(v, c, L) /\ CompilerState(c) /\ c.err = FALSE /\ LabelsFound(c)
    BY InnermostFacts, Zenon DEF Joint, Matched
  <1>1. Len(c.frames) = 1 /\ fr = c.frames[1] /\ fr.kind = "func"
    BY <1>0 DEF Innermost
  <1>2. \A t : Emits(c.frames[Len(c.frames)], t) => t \in none
    BY <1>1 DEF Emits
  <1> HIDE DEF none
  <1>3. CASE c.on
    <2> DEFINE e == <<>>
               x == [c EXCEPT !.frames = e]
    <2>0. d = x
      BY <1>1, <1>3 DEF compileEnd
    <2>1. IsSeq(e) /\ Len(e) = 0
      <3>1. e \in Seq({})
        OBVIOUS
      <3> QED
        BY <3>1, SeqIs, Zenon
    <2>e. \A k \in 1 .. Len(e) : IsFrame(e[k])
      BY <2>1
    <2> HIDE DEF e
    <2>2. /\ CompilerState(x) /\ x.frames = e /\ x.ops = c.ops /\ x.table = c.table /\ x.err = c.err
      BY <1>0, <2>1, <2>e, FramesFacts
    <2> HIDE DEF x
    <2>3. LabelsBut(x, none)
      <3>1. Len(c.frames) \in Nat \ {0} /\ Len(x.frames) = Len(c.frames) - 1 /\ \A k \in 1 .. Len(x.frames) : x.frames[k] = c.frames[k]
        BY <1>1, <2>1, <2>2
      <3> QED
        BY <1>0, <1>2, <2>2, <3>1, ButPopped, Zenon
    <2>4. LabelsFound(x)
      BY <2>3, ButNone DEF none
    <2> QED
      BY <1>0, <2>0, <2>2, <2>4 DEF Over, e, CompilerState
  <1>4. CASE ~ c.on
    <2> DEFINE rg == getFrameDropRange(c, fr, TRUE)
               l == emitDrop(a, rg)
               ret == <<"return", 0>>
               b == emitBr(l, ret)
    <2>1. d = b
      BY <1>1, <1>4, Zenon DEF compileEnd, AfterEnd
    <2>2. /\ CompilerState(a) /\ ~ a.on
          /\ Len(a.frames) = Len(c.frames) - 1 /\ (\A k \in 1 .. Len(a.frames) : a.frames[k] = c.frames[k])
          /\ a.depth = c.depth /\ a.table = c.table /\ a.err = c.err /\ a.mod = c.mod /\ a.ops = c.ops
      BY <1>0, AfterFacts
    <2>r. \A x : Given(x, ret)
      BY DEF Given
    <2> HIDE DEF a, d, rg, ret
    <2>3. LabelsBut(a, none)
      <3>1. Len(c.frames) \in Nat \ {0} /\ Len(a.frames) = Len(c.frames) - 1 /\ \A k \in 1 .. Len(a.frames) : a.frames[k] = c.frames[k]
        BY <1>1, <2>2
      <3> QED
        BY <1>0, <1>2, <2>2, <3>1, ButPopped
    <2>4. LabelsBut(l, none) /\ SameStack(a, l)
      BY <2>2, <2>3, ButDrop
    <2> HIDE DEF l
    <2>5. CompilerState(l) /\ Given(l, ret)
      BY <2>4, <2>r DEF SameStack, SameFrames
    <2>6. LabelsBut(b, none) /\ SameStack(l, b)
      BY <2>4, <2>5, ButBr
    <2> HIDE DEF b
    <2>7. LabelsFound(b)
      BY <2>6, ButNone DEF none
    <2>8. CompilerState(b) /\ b.frames = a.frames /\ b.err = FALSE
      BY <1>0, <2>2, <2>4, <2>6 DEF SameStack, SameFrames
    <2>9. b.frames = <<>>
      <3>1. IsSeq(a.frames) /\ Len(a.frames) = 0
        BY <1>1, <2>2 DEF CompilerState
      <3>2. a.frames = <<>>
        BY <3>1, SeqHas
      <3> QED
        BY <2>8, <3>2
    <2> QED
      BY <2>1, <2>7, <2>8, <2>9 DEF Over, CompilerState, d
  <1> QED
    BY <1>3, <1>4

(* What holds between two instructions, and after the last. *)
Follows(v, c, mod, L) ==
    v \in ValidatorStates /\ IF v.cs = <<>> THEN Over(c) ELSE Joint(v, c, mod, L)

(* Staying joined is one of the two ways to follow. *)
LEMMA JointFollows ==
    ASSUME NEW w, NEW d, NEW mod, NEW L, Joint(w, d, mod, L)
    PROVE  Follows(w, d, mod, L)
  <1>1. w.cs # <<>> /\ w \in ValidatorStates
    BY InitType, Zenon DEF Above
  <1> QED
    BY <1>1 DEF Follows

(* end: validator and compiler stay joined, or the function is over on both sides. *)
LEMMA EndStep ==
    ASSUME NEW v, NEW c, NEW mod, NEW L \in Nat, Joint(v, c, mod, L),
           NEW f, NEW i, Decoded(i), i.op = "end", Validate(v, mod, f, i).status = "ok"
    PROVE  Follows(Validate(v, mod, f, i), Handle(c, f, i), mod, L)
  <1> DEFINE w == validateEnd(v)
             n == Len(v.cs)
  <1>1. v.cs # <<>> /\ Nested(v) /\ CompilerState(c) /\ c.err = FALSE /\ Matched(v, c, mod, L) /\ LabelsFound(c) /\ c.depth \in Nat
    BY InitType, Zenon DEF Joint, CompilerState
  <1>2. Validate(v, mod, f, i) = w
    BY <1>1 DEF Validate
  <1>3. validateEnd(v).status = "ok"
    BY <1>2
  <1>n. n \in Nat \ {0}
    BY <1>1, NestedFacts
  <1>4. ASSUME NEW e, Joint(v, e, mod, L), e.depth = 0, Handle(c, f, i) = compileEnd(e)
        PROVE  Follows(w, Handle(c, f, i), mod, L)
    <2>1. CASE n = 1
      <3>1. w.cs = <<>> /\ w \in ValidatorStates
        BY <1>1, <1>3, <2>1, LeaveLast
      <3>2. Over(compileEnd(e))
        BY <1>4, <2>1, CompileEndLast
      <3> QED
        BY <1>4, <3>1, <3>2 DEF Follows
    <2>2. CASE n > 1
      <3>1. Left(v, w, Last(v.cs).bt.results)
        BY <1>1, <1>3, <2>2, LeaveFacts
      <3> HIDE DEF w
      <3>2. Joint(w, compileEnd(e), mod, L)
        BY <1>4, <2>2, <3>1, CompileEnd
      <3> QED
        BY <1>4, <3>2, JointFollows
    <2> HIDE DEF n
    <2>3. n = 1 \/ n > 1
      BY <1>n
    <2> QED
      BY <2>1, <2>2, <2>3
  <1>5. CASE c.on
    <2>1. HandledAs(c, f, i, c, Handle(c, f, i))
      BY <1>1, <1>5, ApplyOff, Zenon
    <2>2. Handle(c, f, i) = compileEnd(c)
      BY <2>1 DEF HandledAs
    <2>3. CASE c.depth > 0
      <3> DEFINE m == c.depth - 1
                 d == [c EXCEPT !.depth = m]
                 k0 == Len(c.frames)
      <3>1. compileEnd(c) = d
        BY <1>5, <2>3 DEF compileEnd
      <3>2. k0 + c.depth = n /\ k0 \in 1 .. n
        BY <1>1 DEF Matched, SameBlocks
      <3>3. m \in Nat /\ n > 1 /\ k0 + m = n - 1 /\ k0 <= n - 1 /\ k0 \in Nat
        <4> DEFINE cd == c.depth
        <4>1. cd \in Nat /\ cd > 0 /\ m = cd - 1 /\ k0 + cd = n
          BY <1>1, <2>3, <3>2
        <4> HIDE DEF cd, k0, n, m
        <4> QED
          BY <1>n, <3>2, <4>1
      <3>4. Left(v, w, Last(v.cs).bt.results)
        BY <1>1, <1>3, <3>3, LeaveFacts
      <3> HIDE DEF w, m
      <3>5. /\ Nested(w) /\ Len(w.cs) = n - 1 /\ (\A k \in 1 .. n - 1 : w.cs[k] = v.cs[k] /\ LimitOf(w, k) = LimitOf(v, k))
            /\ (\A k \in 1 .. Limit(v) : w.stack[k] = v.stack[k])
        BY <3>4 DEF Left, Reset
      <3>6. /\ CompilerState(d) /\ d.depth = m /\ d.stack = c.stack /\ d.ops = c.ops /\ d.frames = c.frames /\ d.on = c.on
            /\ d.table = c.table /\ d.err = c.err /\ d.mod = c.mod
        BY <1>1, <3>3, DepthFacts
      <3> HIDE DEF d
      <3>7. \A k \in 1 .. Len(c.frames) : w.cs[k].bt = v.cs[k].bt /\ LimitOf(w, k) = LimitOf(v, k)
        <4> SUFFICES ASSUME NEW k \in 1 .. k0 PROVE w.cs[k].bt = v.cs[k].bt /\ LimitOf(w, k) = LimitOf(v, k)
          OBVIOUS
        <4>1. k \in 1 .. n - 1
          <5> HIDE DEF k0, n
          <5> QED
            BY <1>n, <3>3
        <4> QED
          BY <3>5, <4>1
      <3>8. Len(d.frames) + d.depth = Len(w.cs) /\ Len(c.frames) <= Len(w.cs)
        BY <3>3, <3>5, <3>6
      <3>9. Matched(w, d, mod, L)
        BY <1>1, <1>5, <3>5, <3>6, <3>7, <3>8, MatchOff, Zenon
      <3>10. LabelsFound(d)
        BY <1>1, <3>6, MoreSame, LabelsMore
      <3>11. Joint(w, d, mod, L)
        BY <3>9, <3>10 DEF Joint
      <3>12. Follows(w, d, mod, L)
        BY <3>11, JointFollows
      <3> QED
        BY <1>2, <2>2, <3>1, <3>12
    <2>4. CASE c.depth = 0
      BY <1>2, <1>4, <2>2, <2>4
    <2> QED
      BY <1>1, <2>3, <2>4
  <1>6. CASE ~ c.on
    <2> DEFINE e == applyToStack(c, f, i)
    <2>0. i.op \in NoOperands
      BY DEF NoOperands
    <2>1. Joint(v, e, mod, L) /\ ~ e.on /\ HandledAs(c, f, i, e, Handle(c, f, i))
      BY <1>6, <2>0, ApplyNone
    <2> HIDE DEF e
    <2>2. Handle(c, f, i) = compileEnd(e)
      BY <2>1 DEF HandledAs
    <2>3. e.depth = 0
      BY <2>1, MatchLive, Zenon DEF Joint
    <2> QED
      BY <1>2, <1>4, <2>1, <2>2, <2>3
  <1> QED
    BY <1>5, <1>6

-----------------------------------------------------------------------------
(* One instruction. *)
LEMMA LiveStep ==
    ASSUME NEW v, NEW c, NEW mod, DecodedModule(mod), NEW L \in Nat, Joint(v, c, mod, L), ~ c.on,
           NEW f, DecodedFunction(f), NEW i, Decoded(i), i.op \notin BlockOps, Validate(v, mod, f, i).status = "ok"
    PROVE  Joint(Validate(v, mod, f, i), Handle(c, f, i), mod, L)
  <1>0. i.op \in Opcodes
    BY DEF Decoded
  <1>1. CASE i.op \in PlainOps
    BY <1>1, PlainStep
  <1>2. CASE i.op \in LocalOps
    BY <1>2, LocalStep
  <1>3. CASE i.op \in CallOps
    BY <1>3, CallStep
  <1>4. CASE i.op \in TailCallOps
    BY <1>4, TailCallStep
  <1>5. CASE i.op \in RefOps
    BY <1>5, RefStep
  <1>6. CASE i.op \in BrIfOps
    BY <1>6, BrIfStep
  <1>7. CASE i.op = "drop"
    BY <1>7, DropStep
  <1>8. CASE i.op \in {"select", "typed_select"}
    BY <1>8, SelectStep
  <1>9. CASE i.op = "unreachable"
    BY <1>9, UnreachableStep
  <1>10. CASE i.op = "return"
    BY <1>10, ReturnStep
  <1>11. CASE i.op = "br"
    BY <1>11, BrStep
  <1>12. CASE i.op = "br_table"
    BY <1>12, BrTableStep
  <1>13. CASE i.op \in {"throw", "throw_ref"}
    BY <1>13, ThrowStep
  <1>14. \/ i.op \in PlainOps \cup LocalOps \cup CallOps \cup TailCallOps \cup RefOps \cup BrIfOps
         \/ i.op \in {"drop", "select", "typed_select", "unreachable", "return", "br", "br_table", "throw", "throw_ref"}
    BY <1>0 DEF Opcodes, PlainOps
  <1> QED
    BY <1>1, <1>2, <1>3, <1>4, <1>5, <1>6, <1>7, <1>8, <1>9, <1>10, <1>11, <1>12, <1>13, <1>14

(* Any instruction: validator and compiler stay joined, or the function is over on both sides. *)
LEMMA AnyStep ==
    ASSUME NEW v, NEW c, NEW mod, DecodedModule(mod), NEW L \in Nat, Joint(v, c, mod, L),
           NEW f, DecodedFunction(f), NEW i, Decoded(i), Validate(v, mod, f, i).status = "ok"
    PROVE  Follows(Validate(v, mod, f, i), Handle(c, f, i), mod, L)
  <1> DEFINE w == Validate(v, mod, f, i)
             d == Handle(c, f, i)
  <1>1. CASE i.op = "end"
    BY <1>1, EndStep
  <1>2. CASE i.op \notin BlockOps
    <2>1. Joint(w, d, mod, L)
      BY <1>2, OffStep, LiveStep
    <2> HIDE DEF w, d
    <2>2. Follows(w, d, mod, L)
      BY <2>1, JointFollows
    <2> QED
      BY <2>2 DEF w, d
  <1>3. CASE i.op \in BlockOps \ {"end"}
    <2>1. Joint(w, d, mod, L)
      BY <1>3, BlockStep, LoopStep, IfStep, TryTableStep, ElseStep DEF BlockOps
    <2> HIDE DEF w, d
    <2>2. Follows(w, d, mod, L)
      BY <2>1, JointFollows
    <2> QED
      BY <2>2 DEF w, d
  <1> QED
    BY <1>1, <1>2, <1>3

-----------------------------------------------------------------------------
(* The state before the first instruction. *)
Begins(mod, f, c) ==
    /\ CompilerState(c)
    /\ Len(c.stack) = Len(LocalTypes(f))
    /\ Len(c.frames) = 1 /\ c.frames[1].kind = "func" /\ c.frames[1].bt = Signature(f) /\ c.frames[1].len = 0
    /\ ~ c.on /\ c.depth = 0 /\ c.err = FALSE /\ c.mod = mod
    /\ c.table = <<>>
    /\ \A n \in 1 .. Len(c.ops) : c.ops[n].k = "const"

(* Validator and compiler begin joined. *)
LEMMA BeginsJoint ==
    ASSUME NEW mod, NEW f, DecodedFunction(f), NEW c, Begins(mod, f, c)
    PROVE  Joint(reset(f), c, mod, Len(LocalTypes(f)))
  <1> DEFINE v == reset(f)
             L == Len(LocalTypes(f))
             b == [op |-> "func", bt |-> Signature(f), saved |-> Nil]
  <1>0. L \in Nat
    <2>1. f.params \in Seq(ValueTypes) /\ f.locals \in Seq(ValueTypes)
      BY DEF DecodedFunction
    <2>2. LocalTypes(f) \in Seq(ValueTypes)
      BY <2>1, ConcatProperties DEF LocalTypes
    <2> HIDE DEF L
    <2> QED
      BY <2>2 DEF L
  <1>1. b \in ControlBlocks
    <2>1. Signature(f) \in FuncTypes
      BY DEF DecodedFunction, Signature, FuncTypes
    <2> QED
      BY <2>1 DEF ControlBlocks, BlockNames, Nil
  <1>2. v.stack = <<>> /\ v.limits = <<>> /\ v.init = {} /\ v.status = "ok" /\ v.cs = <<b>> /\ b.op = "func" /\ b.bt = Signature(f)
    BY DEF reset
  <1>3. v \in ValidatorStates
    <2> HIDE DEF b
    <2>1. <<b>> \in Seq(ControlBlocks) /\ <<>> \in Seq(StackTypes) /\ <<>> \in Seq(Nat) /\ {} \in SUBSET Nat
      BY <1>1
    <2>2. reset(f) = [stack |-> <<>>, limits |-> <<>>, init |-> {}, status |-> "ok", cs |-> <<b>>]
      BY DEF reset, b
    <2> QED
      BY <2>1, <2>2 DEF ValidatorStates
  <1> HIDE DEF v, b
  <1>4. Len(v.cs) = 1 /\ v.cs[1] = b /\ v.cs # <<>> /\ Len(v.limits) = 0 /\ Len(v.stack) = 0
    BY <1>2
  <1>5. Nested(v)
    <2>1. Limit(v) = 0
      BY <1>2 DEF Limit
    <2>2. Above(v)
      BY <1>3, <1>4, <2>1 DEF Above
    <2> QED
      BY <1>2, <1>4, <2>2 DEF Nested
  <1> HIDE DEF L
  <1>6. /\ CompilerState(c) /\ Len(c.stack) = L
        /\ Len(c.frames) = 1 /\ c.frames[1].kind = "func" /\ c.frames[1].bt = Signature(f) /\ c.frames[1].len = 0
        /\ ~ c.on /\ c.depth = 0 /\ c.err = FALSE /\ c.mod = mod /\ c.table = <<>>
        /\ \A n \in 1 .. Len(c.ops) : c.ops[n].k = "const"
    BY DEF Begins, L
  <1>7. SameBlocks(v, c.frames, L)
    BY <1>2, <1>4, <1>6 DEF SameBlocks
  <1>8. Agrees(v, c, L)
    BY <1>0, <1>4, <1>6 DEF Agrees
  <1>9. Matched(v, c, mod, L)
    <2>1. Matched(v, c, c.mod, L)
      BY <1>0, <1>4, <1>5, <1>6, <1>7, <1>8, MatchBuilt, Zenon
    <2> QED
      BY <1>6, <2>1
  <1>10. LabelsFound(c)
    <2>1. \A t : ~ Wanted(c, t)
      <3>1. ASSUME NEW n \in 1 .. Len(c.ops) PROVE Targets(c.ops[n]) = {}
        <4>1. c.ops[n].k = "const"
          BY <1>6
        <4> QED
          BY <4>1 DEF Targets
      <3>2. 1 .. Len(c.table) = {}
        BY <1>6
      <3> QED
        BY <3>1, <3>2 DEF Wanted
    <2> QED
      BY <1>6, <2>1 DEF LabelsFound
  <1> QED
    BY <1>9, <1>10 DEF Joint, v, L

(* The state compile starts from. *)
Started(mod, f, self, ensureTermination) ==
    LET new == [stack |-> <<>>, frames |-> <<>>, on |-> FALSE, depth |-> 0, id |-> 0, ops |-> <<>>,
                table |-> <<>>, err |-> FALSE, mod |-> mod, self |-> self,
                ensureTermination |-> ensureTermination]
        d   == nextFrameID(initializeStack(new, f))
    IN  [d EXCEPT !.frames = <<[id |-> d.id, kind |-> "func", bt |-> Signature(f),
                                len |-> 0, len64 |-> 0]>>]

(* The compiler's state before the body, as the relation Begins. *)
LEMMA StartedBegins ==
    ASSUME NEW mod, NEW f, DecodedFunction(f), NEW self, NEW ensureTermination
    PROVE  Begins(mod, f, Started(mod, f, self, ensureTermination))
  <1> DEFINE new == [stack |-> <<>>, frames |-> <<>>, on |-> FALSE, depth |-> 0, id |-> 0, ops |-> <<>>,
                     table |-> <<>>, err |-> FALSE, mod |-> mod, self |-> self,
                     ensureTermination |-> ensureTermination]
             ts == LocalTypes(f)
             p == stackPush(new, ts)
             zeros == [n \in DOMAIN f.locals |-> [k |-> "const", vals |-> InSlots(f.locals[n], Zero(f.locals[n]))]]
             q == [p EXCEPT !.ops = @ \o zeros]
             d == nextFrameID(q)
             fr == [id |-> d.id, kind |-> "func", bt |-> Signature(f), len |-> 0, len64 |-> 0]
             c == [d EXCEPT !.frames = <<fr>>]
  <1>0. f.params \in Seq(ValueTypes) /\ f.locals \in Seq(ValueTypes) /\ f.results \in Seq(ValueTypes)
    BY DEF DecodedFunction
  <1>1. ts \in Seq(ValueTypes) /\ IsSeq(ts) /\ Len(ts) \in Nat
    <2>1. ts \in Seq(ValueTypes)
      BY <1>0, ConcatProperties DEF LocalTypes
    <2> HIDE DEF ts
    <2> QED
      BY <2>1, SeqIs
  <1>2. Started(mod, f, self, ensureTermination) = c
    BY DEF Started, initializeStack
  <1>e. IsSeq(<<>>)
    <2>1. <<>> \in Seq({})
      OBVIOUS
    <2> QED
      BY <2>1, SeqIs, Zenon
  <1>3. /\ CompilerState(new) /\ new.stack = <<>> /\ new.frames = <<>> /\ ~ new.on /\ new.depth = 0 /\ new.ops = <<>>
        /\ new.table = <<>> /\ new.err = FALSE /\ new.mod = mod
    BY <1>e DEF CompilerState, CompilerFields
  <1>4. IsSeq(zeros) /\ Len(zeros) \in Nat /\ \A n \in 1 .. Len(zeros) : zeros[n].k = "const"
    <2> DEFINE m == Len(f.locals)
               op(n) == [k |-> "const", vals |-> InSlots(f.locals[n], Zero(f.locals[n]))]
               T == {op(n) : n \in 1 .. m}
    <2>1. m \in Nat /\ DOMAIN f.locals = 1 .. m
      BY <1>0
    <2>k. \A n : op(n).k = "const"
      OBVIOUS
    <2> HIDE DEF m, op
    <2>2. zeros = [n \in 1 .. m |-> op(n)]
      BY <2>1 DEF op
    <2> HIDE DEF zeros
    <2>3. zeros \in [1 .. m -> T]
      BY <2>2
    <2>4. IsSeq(zeros) /\ Len(zeros) = m
      BY <2>1, <2>3, FunIs, Zenon
    <2>5. \A n \in 1 .. m : zeros[n] = op(n)
      BY <2>2
    <2> QED
      BY <2>1, <2>4, <2>5, <2>k
  <1> HIDE DEF new, ts, zeros
  <1>5. Pushed(new, p, ts)
    BY <1>1, <1>3, PushIs
  <1> HIDE DEF p
  <1>6. /\ CompilerState(p) /\ p.ops = <<>> /\ Len(p.stack) = Len(ts)
        /\ ~ p.on /\ p.depth = 0 /\ p.table = <<>> /\ p.err = FALSE /\ p.mod = mod
    <2>1. Len(new.stack) = 0
      BY <1>3
    <2> QED
      BY <1>1, <1>3, <1>5, <2>1 DEF Pushed, SameFrames
  <1> DEFINE ops == p.ops \o zeros
  <1>7. IsSeq(ops) /\ \A n \in 1 .. Len(ops) : ops[n].k = "const"
    <2>1. Len(p.ops) = 0 /\ IsSeq(p.ops)
      BY <1>6 DEF CompilerState
    <2>2. IsSeq(ops) /\ Len(ops) = 0 + Len(zeros) /\ \A k \in 1 .. Len(zeros) : ops[0 + k] = zeros[k]
      BY <1>4, <2>1, ConcatIs
    <2> HIDE DEF ops
    <2> QED
      BY <1>4, <2>2
  <1>8. q = [p EXCEPT !.ops = ops]
    OBVIOUS
  <1> HIDE DEF ops, q
  <1>9. /\ CompilerState(q) /\ q.ops = ops /\ q.stack = p.stack
        /\ ~ q.on /\ q.depth = 0 /\ q.table = <<>> /\ q.err = FALSE /\ q.mod = mod
    BY <1>6, <1>7, <1>8 DEF CompilerState, CompilerFields
  <1>10. /\ CompilerState(d) /\ d.ops = ops /\ d.stack = p.stack
         /\ ~ d.on /\ d.depth = 0 /\ d.table = <<>> /\ d.err = FALSE /\ d.mod = mod
    BY <1>9, IDFacts
  <1> HIDE DEF d
  <1>11. IsFrame(fr) /\ fr.kind = "func" /\ fr.bt = Signature(f) /\ fr.len = 0
    BY <1>0 DEF IsFrame, FrameFields, Kinds, FuncTypes, Signature
  <1> HIDE DEF fr
  <1> DEFINE fs == <<fr>>
  <1>12. IsSeq(fs) /\ Len(fs) = 1 /\ fs[1] = fr /\ \A k \in 1 .. Len(fs) : IsFrame(fs[k])
    <2>1. fs \in Seq({fr}) /\ Len(fs) = 1 /\ fs[1] = fr
      OBVIOUS
    <2> HIDE DEF fs
    <2>2. IsSeq(fs)
      BY <2>1, SeqIs
    <2> QED
      BY <1>11, <2>1, <2>2
  <1> HIDE DEF fs
  <1>13. c = [d EXCEPT !.frames = fs]
    BY DEF fs
  <1> HIDE DEF c
  <1>14. /\ CompilerState(c) /\ c.frames = fs /\ c.stack = d.stack /\ c.ops = d.ops /\ c.depth = d.depth /\ c.on = d.on
         /\ c.table = d.table /\ c.err = d.err /\ c.mod = d.mod
    BY <1>10, <1>12, <1>13, FramesFacts
  <1>15. Begins(mod, f, c)
    BY <1>6, <1>7, <1>10, <1>11, <1>12, <1>14 DEF Begins, ts
  <1> QED
    BY <1>2, <1>15

(* compile as a sequence of states, one for each instruction. *)
LEMMA CompileSteps ==
    ASSUME NEW mod, NEW f, NEW self, NEW ensureTermination, NEW n \in Nat, DOMAIN f.body = 1 .. n
    PROVE  \E g : /\ g[0] = Started(mod, f, self, ensureTermination)
                  /\ \A a \in 1 .. n : g[a] = Handle(g[a - 1], f, f.body[a])
                  /\ compile(mod, f, self, ensureTermination) = g[n]
  <1> DEFINE start == Started(mod, f, self, ensureTermination)
             Rec(h, a) == h = [s \in SUBSET (1 .. a) |->
                                 IF s = {} THEN start
                                 ELSE Handle(h[s \ {Max(s)}], f, f.body[Max(s)])]
  <1>0. compile(mod, f, self, ensureTermination) = FoldLeft(LAMBDA c, i : Handle(c, f, i), start, f.body)
    BY DEF compile, Started
  <1>1. \E h : Rec(h, 0)
    <2>1. 1 .. 0 = {}
      OBVIOUS
    <2> DEFINE h == [s \in SUBSET (1 .. 0) |-> start]
    <2> HIDE DEF start
    <2>2. Rec(h, 0)
      BY <2>1
    <2> QED
      BY <2>2
  <1> HIDE DEF start
  <1>2. ASSUME NEW a \in 1 .. n, NEW h, Rec(h, a - 1)
        PROVE  \E k : Rec(k, a)
    <2> DEFINE k == [s \in SUBSET (1 .. a) |->
                       IF a \in s THEN Handle(h[s \ {a}], f, f.body[a]) ELSE h[s]]
               body(s) == IF s = {} THEN start ELSE Handle(k[s \ {Max(s)}], f, f.body[Max(s)])
    <2>1. ASSUME NEW s \in SUBSET (1 .. a), a \in s
          PROVE  k[s] = body(s)
      <3>1. Max(s) = a
        <4>1. s \in SUBSET Nat /\ \A y \in s : a >= y
          BY <2>1
        <4> QED
          BY <2>1, <4>1, MaxIs
      <3>2. s \ {a} \in SUBSET (1 .. a) /\ a \notin s \ {a}
        OBVIOUS
      <3>3. k[s \ {a}] = h[s \ {a}]
        BY <3>2
      <3>4. k[s] = Handle(h[s \ {a}], f, f.body[a])
        BY <2>1
      <3> HIDE DEF k
      <3> QED
        BY <2>1, <3>1, <3>3, <3>4
    <2>2. ASSUME NEW s \in SUBSET (1 .. a), a \notin s
          PROVE  k[s] = body(s)
      <3>1. s \in SUBSET (1 .. a - 1)
        BY <2>2
      <3>2. k[s] = h[s]
        BY <2>2
      <3>3. h[s] = IF s = {} THEN start ELSE Handle(h[s \ {Max(s)}], f, f.body[Max(s)])
        BY <1>2, <3>1, Zenon
      <3>4. s \ {Max(s)} \in SUBSET (1 .. a) /\ a \notin s \ {Max(s)}
        BY <2>2, Zenon
      <3>5. k[s \ {Max(s)}] = h[s \ {Max(s)}]
        BY <3>4
      <3> HIDE DEF k
      <3> QED
        BY <3>2, <3>3, <3>5
    <2>3. k = [s \in SUBSET (1 .. a) |-> body(s)]
      <3>1. \A s \in SUBSET (1 .. a) : k[s] = body(s)
        BY <2>1, <2>2, Zenon
      <3> QED
        BY <3>1, Zenon
    <2>4. Rec(k, a)
      BY <2>3, Zenon
    <2> HIDE DEF k
    <2> QED
      BY <2>4, Zenon
  <1>3. \E h : Rec(h, n)
    <2> DEFINE Bad == {m \in 0 .. n : ~ \E h : Rec(h, m)}
    <2>1. ASSUME Bad # {} PROVE FALSE
      <3> HIDE DEF Rec
      <3>0. Bad \in SUBSET Nat
        OBVIOUS
      <3>1. PICK m \in Bad : \A y \in Bad : m <= y
        <4> HIDE DEF Bad
        <4> QED
          BY <2>1, <3>0, LeastNatural
      <3>2. m # 0
        BY <1>1, <3>1
      <3>3. m - 1 \in 0 .. n /\ m - 1 \notin Bad /\ m \in 1 .. n
        BY <3>1, <3>2
      <3>4. \E h : Rec(h, m - 1)
        BY <3>3
      <3> QED
        BY <1>2, <3>1, <3>3, <3>4
    <2>2. n \in 0 .. n
      OBVIOUS
    <2> HIDE DEF Rec
    <2> QED
      BY <2>1, <2>2, Zenon
  <1> DEFINE it == CHOOSE h : Rec(h, n)
  <1>4. Rec(it, n)
    BY <1>3, Zenon
  <1>5. compile(mod, f, self, ensureTermination) = it[1 .. n]
    BY <1>0 DEF FoldLeft, MapThenFoldSet
  <1> HIDE DEF it
  <1> DEFINE g == [a \in 0 .. n |-> it[1 .. a]]
  <1>6. g[0] = start
    <2>1. 1 .. 0 = {} /\ {} \in SUBSET (1 .. n) /\ 0 \in 0 .. n
      OBVIOUS
    <2>2. it[{}] = start
      BY <1>4, <2>1
    <2> QED
      BY <2>1, <2>2
  <1>7. ASSUME NEW a \in 1 .. n
        PROVE  g[a] = Handle(g[a - 1], f, f.body[a])
    <2>1. 1 .. a \in SUBSET (1 .. n) /\ 1 .. a # {} /\ a \in 1 .. a
      OBVIOUS
    <2>2. Max(1 .. a) = a
      <3>1. 1 .. a \in SUBSET Nat /\ \A y \in 1 .. a : a >= y
        OBVIOUS
      <3> QED
        BY <2>1, <3>1, MaxIs
    <2>3. (1 .. a) \ {a} = 1 .. a - 1
      OBVIOUS
    <2>4. it[1 .. a] = Handle(it[(1 .. a) \ {a}], f, f.body[a])
      BY <1>4, <2>1, <2>2, Zenon
    <2>5. a \in 0 .. n /\ a - 1 \in 0 .. n
      OBVIOUS
    <2>6. g[a] = it[1 .. a] /\ g[a - 1] = it[1 .. a - 1]
      BY <2>5
    <2> HIDE DEF g
    <2> QED
      BY <2>3, <2>4, <2>6, Zenon
  <1>8. compile(mod, f, self, ensureTermination) = g[n]
    BY <1>5
  <1> HIDE DEF g
  <1> QED
    BY <1>6, <1>7, <1>8 DEF start

-----------------------------------------------------------------------------
(* Every label that is given has an address. *)
LEMMA GivenAddress ==
    ASSUME NEW c, IsSeq(c.ops), NEW t, Given(c, t)
    PROVE  setLabelAddress(c.ops, t) # 0
  <1> DEFINE n == Len(c.ops)
             at == {k \in 1 .. n : c.ops[k].k = "label" /\ c.ops[k].label = t}
  <1>1. n \in Nat /\ DOMAIN c.ops = 1 .. n
    BY SeqHas
  <1> HIDE DEF n
  <1>2. CASE t[1] = "return"
    <2>1. setLabelAddress(c.ops, t) = n + 1
      BY <1>2 DEF setLabelAddress, n
    <2> QED
      BY <1>1, <2>1
  <1>3. CASE t[1] # "return"
    <2>1. at # {} /\ at \in SUBSET (1 .. n)
      BY <1>3 DEF Given, n
    <2>2. setLabelAddress(c.ops, t) = Max(at)
      BY <1>1, <1>3, <2>1 DEF setLabelAddress
    <2> HIDE DEF at
    <2> DEFINE far == {m \in Nat : \E k \in at : m = n - k}
    <2>3. far # {} /\ far \in SUBSET Nat
      <3>1. PICK k \in at : TRUE
        BY <2>1, Zenon
      <3>2. n - k \in Nat
        BY <1>1, <2>1
      <3> QED
        BY <3>1, <3>2
    <2>4. PICK m \in far : \A y \in far : m <= y
      <3> HIDE DEF far
      <3> QED
        BY <2>3, LeastNatural
    <2>5. PICK k \in at : m = n - k
      BY <2>4
    <2>6. \A y \in at : k >= y
      <3>1. ASSUME NEW y \in at PROVE k >= y
        <4>1. y \in 1 .. n /\ k \in 1 .. n
          BY <2>1
        <4>2. n - y \in far
          BY <1>1, <4>1
        <4>3. m <= n - y
          BY <2>4, <4>2
        <4> QED
          BY <1>1, <2>5, <4>1, <4>3
      <3> QED
        BY <3>1
    <2>7. at \in SUBSET Nat /\ k \in Nat \ {0}
      BY <1>1, <2>1
    <2>8. Max(at) = k
      BY <2>6, <2>7, MaxIs
    <2> QED
      BY <2>2, <2>7, <2>8
  <1> QED
    BY <1>2, <1>3

(* When the compilation is over, lowerIR resolves every label. *)
LEMMA OverComplete ==
    ASSUME NEW c, Over(c)
    PROVE  Complete(lowerIR(c))
  <1> DEFINE A(t) == setLabelAddress(c.ops, t)
             code == lowerIR(c)
  <1>0. c.frames = <<>> /\ c.err = FALSE /\ LabelsFound(c) /\ IsSeq(c.ops) /\ IsSeq(c.table)
    BY DEF Over
  <1>1. DOMAIN c.ops = 1 .. Len(c.ops) /\ DOMAIN c.table = 1 .. Len(c.table)
    BY <1>0, SeqHas
  <1>2. ASSUME NEW t, Wanted(c, t) PROVE A(t) # 0
    <2>1. Len(c.frames) = 0
      BY <1>0
    <2>2. ~ Due(c, t)
      BY <2>1 DEF Due
    <2>3. Given(c, t)
      BY <1>0, <1>2, <2>2 DEF LabelsFound
    <2> QED
      BY <1>0, <2>3, GivenAddress
  <1>3. /\ code.err = FALSE
        /\ DOMAIN code.ops = DOMAIN c.ops /\ \A n \in DOMAIN c.ops : code.ops[n] = lowerOp(c.ops, c.ops[n])
    BY <1>0 DEF lowerIR
  <1>4. /\ DOMAIN code.table = DOMAIN c.table
        /\ \A n \in DOMAIN c.table :
             /\ code.table[n].end = A(c.table[n].end)
             /\ DOMAIN code.table[n].clauses = DOMAIN c.table[n].clauses
             /\ \A m \in DOMAIN c.table[n].clauses : code.table[n].clauses[m].target = A(c.table[n].clauses[m].target)
    BY Zenon DEF lowerIR, lowerClause
  <1> HIDE DEF code
  <1>5. ASSUME NEW n \in DOMAIN code.ops
        PROVE  LET op == code.ops[n]
               IN  CASE op.k = "br" -> op.target # 0
                     [] op.k \in {"br_if", "br_on_null", "br_on_non_null"} -> op.target # 0 /\ op.other # 0
                     [] op.k = "br_table" -> \A t \in DOMAIN op.targets : op.targets[t] # 0
                     [] OTHER -> TRUE
    <2> DEFINE op == c.ops[n]
               low == lowerOp(c.ops, op)
    <2>1. code.ops[n] = low /\ n \in 1 .. Len(c.ops)
      BY <1>1, <1>3
    <2>2. \A t \in Targets(op) : A(t) # 0
      BY <1>2, <2>1 DEF Wanted
    <2> HIDE DEF A
    <2>3. CASE op.k = "br"
      <3>1. low.k = "br" /\ low.target = A(op.target)
        BY <2>3 DEF lowerOp, A
      <3>2. op.target \in Targets(op)
        BY <2>3 DEF Targets
      <3> HIDE DEF low, op
      <3> QED
        BY <2>1, <2>2, <3>1, <3>2
    <2>4. CASE op.k \in {"br_if", "br_on_null", "br_on_non_null"}
      <3>1. low.k = op.k /\ low.target = A(op.target) /\ low.other = A(op.other)
        BY <2>4 DEF lowerOp, A
      <3>2. op.target \in Targets(op) /\ op.other \in Targets(op)
        BY <2>4 DEF Targets
      <3> HIDE DEF low, op
      <3> QED
        BY <2>1, <2>2, <2>4, <3>1, <3>2
    <2>5. CASE op.k = "br_table"
      <3>1. low.k = "br_table" /\ low.targets = [t \in DOMAIN op.targets |-> A(op.targets[t])]
        BY <2>5 DEF lowerOp, A
      <3>2. \A t \in DOMAIN op.targets : op.targets[t] \in Targets(op)
        BY <2>5 DEF Targets
      <3> HIDE DEF low, op
      <3>3. \A t \in DOMAIN low.targets : low.targets[t] # 0
        BY <2>2, <3>1, <3>2
      <3> QED
        BY <2>1, <3>1, <3>3, Zenon
    <2>6. CASE op.k \notin Jumps
      <3>1. low = op
        BY <2>6 DEF lowerOp, Jumps
      <3> HIDE DEF low, op
      <3> QED
        BY <2>1, <2>6, <3>1 DEF Jumps
    <2> HIDE DEF low, op
    <2> QED
      BY <2>3, <2>4, <2>5, <2>6 DEF Jumps
  <1>6. ASSUME NEW n \in DOMAIN code.table
        PROVE  LET e == code.table[n]
               IN  e.end # 0 /\ \A t \in DOMAIN e.clauses : e.clauses[t].target # 0
    <2> DEFINE e == c.table[n]
    <2>1. n \in DOMAIN c.table /\ n \in 1 .. Len(c.table)
      BY <1>1, <1>4
    <2>2. \A t : Handles(e, t) => A(t) # 0
      BY <1>2, <2>1 DEF Wanted
    <2>3. Handles(e, e.end) /\ \A m \in DOMAIN e.clauses : Handles(e, e.clauses[m].target)
      BY DEF Handles
    <2> HIDE DEF A
    <2>4. /\ code.table[n].end = A(e.end) /\ DOMAIN code.table[n].clauses = DOMAIN e.clauses
          /\ \A m \in DOMAIN e.clauses : code.table[n].clauses[m].target = A(e.clauses[m].target)
      BY <1>4, <2>1
    <2> HIDE DEF e
    <2> QED
      BY <2>2, <2>3, <2>4
  <1>7. Complete(code)
    BY <1>3, <1>5, <1>6 DEF Complete
  <1> QED
    BY <1>7 DEF code

(* The validator accepts the instructions of f and is then in state v. *)
Reaches(mod, f, v) ==
    \E vs : /\ vs[0] = reset(f)
            /\ \A k \in DOMAIN f.body :
                 vs[k] = Validate(vs[k - 1], mod, f, f.body[k]) /\ vs[k].status = "ok"
            /\ v = vs[Len(f.body)]

(* It is at the end of the outermost block. *)
Approved(mod, f) == \E v : Reaches(mod, f, v) /\ v.cs = <<>>

(* What the validator goes through in validateFunction. *)
LEMMA AcceptedApproved ==
    ASSUME NEW mod, NEW f, Len(f.body) \in Nat, DOMAIN f.body = 1 .. Len(f.body), Accepted(mod, f)
    PROVE  Approved(mod, f)
  <1> DEFINE n == Len(f.body)
             next(v, k) == IF v.status = "ok" THEN Validate(v, mod, f, f.body[k]) ELSE v
             Rec(h, m) == h = [k \in 0 .. m |-> IF k = 0 THEN reset(f) ELSE next(h[k - 1], k)]
             run == CHOOSE h : Rec(h, n)
  <1>0. n \in Nat
    OBVIOUS
  <1>1. validateFunction(mod, f) = run[n]
    BY DEF validateFunction
  <1>2. run[n].status = "ok" /\ run[n].cs = <<>>
    BY <1>1 DEF Accepted
  <1> HIDE DEF n
  <1>3. \E h : Rec(h, 0)
    <2> DEFINE h == [k \in 0 .. 0 |-> reset(f)]
    <2>1. Rec(h, 0)
      <3> HIDE DEF next
      <3> QED
        OBVIOUS
    <2> QED
      BY <2>1
  <1>4. ASSUME NEW m \in 1 .. n, NEW h, Rec(h, m - 1)
        PROVE  \E g : Rec(g, m)
    <2> HIDE DEF next
    <2> DEFINE g == [k \in 0 .. m |-> IF k = m THEN next(h[m - 1], m) ELSE h[k]]
               at(k) == IF k = 0 THEN reset(f) ELSE next(g[k - 1], k)
    <2>1. \A k \in 0 .. m : g[k] = at(k)
      BY <1>0, <1>4
    <2>2. g = [k \in 0 .. m |-> at(k)]
      BY <2>1, Zenon
    <2>3. Rec(g, m)
      BY <2>2, Zenon
    <2> HIDE DEF g
    <2> QED
      BY <2>3, Zenon
  <1> HIDE DEF Rec
  <1>5. \E h : Rec(h, n)
    <2> DEFINE Bad == {m \in 0 .. n : ~ \E h : Rec(h, m)}
    <2>1. ASSUME Bad # {} PROVE FALSE
      <3>0. Bad \in SUBSET Nat
        OBVIOUS
      <3>1. PICK m \in Bad : \A y \in Bad : m <= y
        <4> HIDE DEF Bad
        <4> QED
          BY <2>1, <3>0, LeastNatural
      <3>2. m # 0
        BY <1>3, <3>1
      <3>3. m - 1 \in 0 .. n /\ m - 1 \notin Bad /\ m \in 1 .. n
        BY <1>0, <3>1, <3>2
      <3>4. \E h : Rec(h, m - 1)
        BY <3>3
      <3> QED
        BY <1>4, <3>1, <3>3, <3>4
    <2>2. n \in 0 .. n
      BY <1>0
    <2> QED
      BY <2>1, <2>2, Zenon
  <1>6. Rec(run, n)
    BY <1>5, Zenon
  <1> HIDE DEF run
  <1>7. run[0] = reset(f) /\ \A k \in 1 .. n : run[k] = next(run[k - 1], k)
    <2> HIDE DEF next
    <2>1. run = [k \in 0 .. n |-> IF k = 0 THEN reset(f) ELSE next(run[k - 1], k)]
      BY <1>6 DEF Rec
    <2> QED
      BY <1>0, <2>1
  <1>8. \A k \in 0 .. n : run[k].status = "ok"
    <2> DEFINE Bad == {m \in 0 .. n : run[n - m].status # "ok"}
    <2>1. ASSUME Bad # {} PROVE FALSE
      <3>0. Bad \in SUBSET Nat
        BY <1>0
      <3>1. PICK m \in Bad : \A y \in Bad : m <= y
        <4> HIDE DEF Bad
        <4> QED
          BY <2>1, <3>0, LeastNatural
      <3>2. m # 0 /\ m \in 0 .. n /\ run[n - m].status # "ok"
        BY <1>0, <1>2, <3>1
      <3>3. m - 1 \in 0 .. n /\ n - (m - 1) \in 1 .. n /\ n - (m - 1) - 1 = n - m /\ m - 1 \notin Bad
        BY <1>0, <3>1, <3>2
      <3>4. run[n - (m - 1)].status = "ok"
        BY <3>3
      <3>5. run[n - (m - 1)] = next(run[n - m], n - (m - 1))
        BY <1>7, <3>3
      <3>6. next(run[n - m], n - (m - 1)) = run[n - m]
        BY <3>2, Zenon
      <3> QED
        BY <3>2, <3>4, <3>5, <3>6, Zenon
    <2>2. ASSUME NEW k \in 0 .. n PROVE run[k].status = "ok"
      <3>1. n - k \in 0 .. n /\ n - (n - k) = k
        BY <1>0
      <3> QED
        BY <2>1, <3>1
    <2> QED
      BY <2>2
  <1>9. \A k \in 1 .. n : run[k] = Validate(run[k - 1], mod, f, f.body[k]) /\ run[k].status = "ok"
    <2>1. ASSUME NEW k \in 1 .. n
          PROVE  run[k] = Validate(run[k - 1], mod, f, f.body[k]) /\ run[k].status = "ok"
      <3>1. k - 1 \in 0 .. n /\ k \in 0 .. n
        BY <1>0
      <3>2. run[k] = next(run[k - 1], k)
        BY <1>7
      <3>3. run[k - 1].status = "ok" /\ run[k].status = "ok"
        BY <1>8, <3>1
      <3> QED
        BY <3>2, <3>3, Zenon
    <2> QED
      BY <2>1
  <1>10. Reaches(mod, f, run[n])
    BY <1>7, <1>9, Zenon DEF Reaches, n
  <1> QED
    BY <1>2, <1>10, Zenon DEF Approved

(* What the validator accepts the compiler compiles: no operand differs    *)
(* from the signature of its opcode, and every branch and every exception  *)
(* handler finds the label it goes to.                                     *)
LEMMA ApprovedCompiles ==
    ASSUME NEW mod, NEW f, NEW self, NEW ensureTermination,
           DecodedModule(mod), DecodedFunction(f), Approved(mod, f)
    PROVE  Complete(lowerIR(compile(mod, f, self, ensureTermination)))
  <1> DEFINE n == Len(f.body)
             L == Len(LocalTypes(f))
             start == Started(mod, f, self, ensureTermination)
             out == compile(mod, f, self, ensureTermination)
  <1>0. n \in Nat /\ DOMAIN f.body = 1 .. n /\ \A k \in 1 .. n : Decoded(f.body[k])
    BY Zenon DEF DecodedFunction
  <1>l. L \in Nat
    <2>1. f.params \in Seq(ValueTypes) /\ f.locals \in Seq(ValueTypes)
      BY DEF DecodedFunction
    <2>2. LocalTypes(f) \in Seq(ValueTypes)
      BY <2>1, ConcatProperties DEF LocalTypes
    <2> HIDE DEF L
    <2> QED
      BY <2>2 DEF L
  <1>1. Joint(reset(f), start, mod, L)
    <2>1. Begins(mod, f, start)
      BY StartedBegins
    <2> HIDE DEF start
    <2> QED
      BY <2>1, BeginsJoint
  <1>2. PICK vs : /\ vs[0] = reset(f)
                  /\ \A k \in 1 .. n : vs[k] = Validate(vs[k - 1], mod, f, f.body[k]) /\ vs[k].status = "ok"
                  /\ vs[n].cs = <<>>
    BY <1>0, Zenon DEF Approved, Reaches
  <1> HIDE DEF n
  <1>3. PICK g : /\ g[0] = start
                 /\ \A k \in 1 .. n : g[k] = Handle(g[k - 1], f, f.body[k])
                 /\ out = g[n]
    BY <1>0, CompileSteps
  <1> HIDE DEF L, start, out
  <1>4. Follows(vs[0], g[0], mod, L)
    BY <1>1, <1>2, <1>3, JointFollows
  <1>5. ASSUME NEW k \in 1 .. n, Follows(vs[k - 1], g[k - 1], mod, L)
        PROVE  Follows(vs[k], g[k], mod, L)
    <2> DEFINE v == vs[k - 1]
               c == g[k - 1]
               i == f.body[k]
    <2>1. vs[k] = Validate(v, mod, f, i) /\ vs[k].status = "ok" /\ g[k] = Handle(c, f, i) /\ Decoded(i)
      BY <1>0, <1>2, <1>3
    <2>f. Follows(v, c, mod, L)
      BY <1>5
    <2>t. v \in ValidatorStates
      BY <2>f DEF Follows
    <2>s. v.status = "ok"
      <3>1. CASE k = 1
        <4>1. v = reset(f)
          BY <1>2, <3>1
        <4> QED
          BY <4>1 DEF reset
      <3>2. CASE k # 1
        <4>1. k - 1 \in 1 .. n
          BY <1>0, <3>2
        <4> QED
          BY <1>2, <4>1
      <3> QED
        BY <3>1, <3>2
    <2> HIDE DEF v, c, i
    <2>2. v.cs # <<>>
      <3>1. ASSUME v.cs = <<>> PROVE FALSE
        <4>1. Validate(v, mod, f, i) = fail(v)
          BY <3>1 DEF Validate
        <4>2. fail(v).status = "ok"
          BY <2>1, <4>1
        <4> QED
          BY <4>2, <2>s, <2>t DEF fail, ValidatorStates
      <3> QED
        BY <3>1
    <2>3. Joint(v, c, mod, L)
      BY <2>f, <2>2 DEF Follows
    <2>4. Validate(v, mod, f, i).status = "ok"
      BY <2>1
    <2>5. Follows(Validate(v, mod, f, i), Handle(c, f, i), mod, L)
      BY <1>l, <2>1, <2>3, <2>4, AnyStep
    <2> QED
      BY <2>1, <2>5
  <1>6. \A k \in 0 .. n : Follows(vs[k], g[k], mod, L)
    <2> DEFINE Bad == {k \in 0 .. n : ~ Follows(vs[k], g[k], mod, L)}
    <2>1. ASSUME Bad # {} PROVE FALSE
      <3>0. Bad \in SUBSET Nat
        BY <1>0
      <3>1. PICK k \in Bad : \A y \in Bad : k <= y
        <4> HIDE DEF Bad
        <4> QED
          BY <2>1, <3>0, LeastNatural
      <3>2. k # 0
        BY <1>4, <3>1
      <3>3. k - 1 \in 0 .. n /\ k - 1 \notin Bad /\ k \in 1 .. n
        BY <1>0, <3>1, <3>2
      <3> QED
        BY <1>5, <3>1, <3>3
    <2> QED
      BY <2>1
  <1>7. Over(g[n])
    <2>1. n \in 0 .. n
      BY <1>0
    <2>2. Follows(vs[n], g[n], mod, L)
      BY <1>6, <2>1
    <2> QED
      BY <1>2, <2>2 DEF Follows
  <1>8. Complete(lowerIR(out))
    BY <1>3, <1>7, OverComplete
  <1> QED
    BY <1>8 DEF out
(* Validator and compiler: a function that validateFunction accepts is     *)
(* compiled without a mismatch of its operands, and every label a branch,  *)
(* a table of branches or a handler of exceptions goes to has its place in *)
(* the code (lowerIR).                                                     *)
THEOREM AcceptedCompiles ==
    ASSUME NEW mod, NEW f, NEW self, NEW ensureTermination,
           DecodedModule(mod), DecodedFunction(f), Accepted(mod, f)
    PROVE  Complete(lowerIR(compile(mod, f, self, ensureTermination)))
  <1>1. Len(f.body) \in Nat /\ DOMAIN f.body = 1 .. Len(f.body)
    BY Zenon DEF DecodedFunction
  <1>2. Approved(mod, f)
    BY <1>1, AcceptedApproved
  <1> QED
    BY <1>2, ApprovedCompiles

-----------------------------------------------------------------------------
(* The same of the functions of a run, which are validated step by step.   *)
(* What the validator says of an instruction depends on the types of the   *)
(* function and not on its body.                                           *)
SameTypes(f, g) == f.params = g.params /\ f.results = g.results /\ f.locals = g.locals

(* The validator reads the function's types and locals, not its body. *)
LEMMA ValidateSame ==
    ASSUME NEW f, NEW g, SameTypes(f, g)
    PROVE  /\ reset(f) = reset(g)
           /\ \A v, mod, i : Validate(v, mod, f, i) = Validate(v, mod, g, i)
  <1>0. f.params = g.params /\ f.results = g.results /\ f.locals = g.locals
    BY DEF SameTypes
  <1>1. LocalTypes(f) = LocalTypes(g) /\ Signature(f) = Signature(g)
    BY <1>0, Zenon DEF LocalTypes, Signature
  <1>2. \A x : MustInit(f, x) = MustInit(g, x)
    BY <1>0, <1>1, Zenon DEF MustInit
  <1>3. \A v, x : requireLocalInit(v, f, x) = requireLocalInit(v, g, x) /\ markLocalInit(v, f, x) = markLocalInit(v, g, x)
    BY <1>2, Zenon DEF requireLocalInit, markLocalInit
  <1>4. ASSUME NEW v, NEW i
        PROVE  validateLocal(v, f, i) = validateLocal(v, g, i)
    <2> DEFINE t == LocalTypes(g)[i.x]
    <2>1. /\ requireLocalInit(v, f, i.x) = requireLocalInit(v, g, i.x)
          /\ markLocalInit(popAndVerifyType(v, t), f, i.x) = markLocalInit(popAndVerifyType(v, t), g, i.x)
          /\ markLocalInit(push(popAndVerifyType(v, t), t), f, i.x) = markLocalInit(push(popAndVerifyType(v, t), t), g, i.x)
      BY <1>3, Zenon
    <2> QED
      BY <1>1, <2>1 DEF validateLocal
  <1>5. \A v, type : validateReturnCall(v, type, f) = validateReturnCall(v, type, g)
    BY <1>0, Zenon DEF validateReturnCall
  <1>6. ASSUME NEW v, NEW i
        PROVE  validateCall(v, f, i) = validateCall(v, g, i)
    <2> DEFINE operand == CASE i.op \in {"call", "return_call"} -> v
                            [] i.op \in {"call_indirect", "return_call_indirect"} -> popAndVerifyType(v, "i32")
                            [] i.op \in {"call_ref", "return_call_ref"} -> popAndVerifyType(v, "tref")
               called == validateCallSignature(operand, i.type)
               call(h) == IF i.op \in {"call", "call_indirect", "call_ref"} THEN called
                          ELSE validateReturnCall(called, i.type, h)
    <2>1. validateCall(v, f, i) = call(f) /\ validateCall(v, g, i) = call(g)
      BY DEF validateCall
    <2> HIDE DEF called
    <2>2. call(f) = call(g)
      BY <1>5, Zenon
    <2> HIDE DEF call
    <2> QED
      BY <2>1, <2>2, Zenon
  <1>7. \A v, mod, i : Validate(v, mod, f, i) = Validate(v, mod, g, i)
    BY <1>0, <1>4, <1>6 DEF Validate
  <1>8. reset(f) = reset(g)
    BY <1>1, Zenon DEF reset
  <1> QED
    BY <1>7, <1>8, Zenon

(* The validator goes on with instruction i. *)
LEMMA ReachesNext ==
    ASSUME NEW mod, NEW f, NEW g, NEW v, NEW i, NEW S, f.body \in Seq(S), i \in S,
           SameTypes(f, g), g.body = Append(f.body, i),
           Reaches(mod, f, v), Validate(v, mod, f, i).status = "ok"
    PROVE  Reaches(mod, g, Validate(v, mod, f, i))
  <1> DEFINE n == Len(f.body)
             w == Validate(v, mod, f, i)
  <1>0. n \in Nat /\ DOMAIN f.body = 1 .. n
    OBVIOUS
  <1>1. /\ Len(g.body) = n + 1 /\ DOMAIN g.body = 1 .. n + 1 /\ g.body[n + 1] = i
        /\ \A k \in 1 .. n : g.body[k] = f.body[k]
    OBVIOUS
  <1>2. PICK vs : /\ vs[0] = reset(f)
                  /\ \A k \in 1 .. n : vs[k] = Validate(vs[k - 1], mod, f, f.body[k]) /\ vs[k].status = "ok"
                  /\ v = vs[n]
    BY <1>0, Zenon DEF Reaches
  <1>3. reset(f) = reset(g) /\ \A x, j : Validate(x, mod, f, j) = Validate(x, mod, g, j)
    BY ValidateSame
  <1> DEFINE ws == [k \in 0 .. n + 1 |-> IF k = n + 1 THEN w ELSE vs[k]]
  <1>w. w.status = "ok"
    OBVIOUS
  <1>v. w = Validate(v, mod, g, i)
    BY <1>3
  <1> HIDE DEF n, w
  <1>4. ws[n + 1] = w /\ \A k \in 0 .. n : ws[k] = vs[k]
    BY <1>0
  <1> HIDE DEF ws
  <1>5. ws[0] = reset(g)
    BY <1>0, <1>2, <1>3, <1>4
  <1>6. ASSUME NEW k \in 1 .. n + 1
        PROVE  ws[k] = Validate(ws[k - 1], mod, g, g.body[k]) /\ ws[k].status = "ok"
    <2>1. CASE k = n + 1
      <3>1. ws[k - 1] = v /\ g.body[k] = i /\ ws[k] = w
        BY <1>0, <1>1, <1>2, <1>4, <2>1
      <3> QED
        BY <1>v, <1>w, <3>1
    <2>2. CASE k # n + 1
      <3>1. k \in 1 .. n /\ k - 1 \in 0 .. n /\ k \in 0 .. n
        BY <1>0, <2>2
      <3>2. ws[k] = vs[k] /\ ws[k - 1] = vs[k - 1] /\ g.body[k] = f.body[k]
        BY <1>1, <1>4, <3>1
      <3>3. vs[k] = Validate(vs[k - 1], mod, f, f.body[k]) /\ vs[k].status = "ok"
        BY <1>2, <3>1
      <3> QED
        BY <1>3, <3>2, <3>3, Zenon
    <2> QED
      BY <2>1, <2>2
  <1>7. w = ws[Len(g.body)]
    BY <1>1, <1>4
  <1>8. Reaches(mod, g, w)
    BY <1>1, <1>5, <1>6, <1>7, Zenon DEF Reaches
  <1> QED
    BY <1>8 DEF w

(* Before the first instruction the validator is in its reset state. *)
LEMMA ReachesFirst ==
    ASSUME NEW mod, NEW f, f.body = <<>>
    PROVE  Reaches(mod, f, reset(f))
  <1> DEFINE vs == [k \in {0} |-> reset(f)]
  <1>1. vs[0] = reset(f)
    OBVIOUS
  <1> HIDE DEF vs
  <1>2. DOMAIN f.body = {} /\ Len(f.body) = 0
    OBVIOUS
  <1> QED
    BY <1>1, <1>2, Zenon DEF Reaches
============================================================================
