--------------------------- MODULE MCGuestVectors ---------------------------
(***************************************************************************)
(* Profiles of GuestFunctions whose instructions are on vectors.  With 2   *)
(* bits in a byte a vector has 32: 16 lanes below 4, 8 below 16, 4 below   *)
(* 256 or 2 below 65536.                                                   *)
(***************************************************************************)
EXTENDS MCGuestData

V(op, f, t, s) == [op |-> op, f |-> f, t |-> t, s |-> s]
Plain(op, fs, ts) == {V(op, f, t, FALSE) : f \in fs, t \in ts}
Both(op, fs, ts) == {V(op, f, t, s) : f \in fs, t \in ts, s \in BOOLEAN}
Halves(op, fs, ts) == {[low |-> low] @@ v : low \in BOOLEAN, v \in Both(op, fs, ts)}
VLane(op, t, k, s) == [op |-> op, t |-> t, k |-> k, s |-> s]
VMem(op, kind, w, s, off) == [op |-> op, kind |-> kind, w |-> w, s |-> s, off |-> off, align |-> 0, k |-> 0]
Shuffle(f(_)) == [ls |-> [k \in 1..16 |-> f(k)]] @@ V("v.binary", "shuffle", "i8", FALSE)

Ints == {"i8", "i16", "i32", "i64"}
Reals == {"f32", "f64"}

(* Functions of vectors: each of the instructions on each of the arguments. *)
OnVectors(params, results, instrs, args) ==
    OnData(F(params, results, <<>>, <<>>, 1), <<>>, Gets(Len(params)), instrs \cup {I("end")}, Len(params) + 2, args)
Given(vs) == {<<<<"v128", v>>>> : v \in vs}
GivenTwo(vs) == {<<<<"v128", v>>, <<"v128", w>>>> : v, w \in vs}

(* Lanes of every value below 4, some negative and some not, and the least *)
(* of every width.                                                         *)
Vectors == {<<0, 65535>>, <<6939, 45108>>, <<32768, 32640>>}
Vectors1 == OnVectors(<<"v128">>, <<"v128">>,
    Plain("v.unary", {"not", "neg", "abs"}, Ints) \cup Plain("v.unary", {"popcnt"}, {"i8"})
    \cup Halves("v.unary", {"extend"}, {"i8", "i16", "i32"}) \cup Both("v.unary", {"extadd"}, {"i8", "i16"}),
    Given(Vectors))
Vectors2 == OnVectors(<<"v128", "v128">>, <<"v128">>,
    Plain("v.binary", {"add", "sub"}, Ints) \cup Plain("v.binary", {"mul"}, {"i16", "i32", "i64"})
    \cup Plain("v.binary", {"avgr"}, {"i8", "i16"}) \cup Both("v.binary", {"add_sat", "sub_sat"}, {"i8", "i16"})
    \cup Both("v.binary", {"min", "max"}, {"i8", "i16", "i32"}) \cup Both("v.binary", {"narrow"}, {"i16", "i32"})
    \cup Halves("v.binary", {"extmul"}, {"i8", "i16", "i32"})
    \cup {V("v.binary", f, "i16", TRUE) : f \in {"q15mulr_sat", "dot"}}
    \cup Plain("v.binary", {"and", "or", "xor", "andnot", "swizzle"}, {"i8"})
    \cup {Shuffle(LAMBDA k : 32 - k), Shuffle(LAMBDA k : (5 * k) % 32), Shuffle(LAMBDA k : 2 * k)},
    GivenTwo(Vectors))
Vectors3 == OnVectors(<<"v128", "v128", "v128">>, <<"v128">>, {V("v.bitselect", "", "i8", FALSE)},
    {<<<<"v128", <<6939, 45108>>>>, <<"v128", <<45108, 6939>>>>, <<"v128", v>>>> : v \in Vectors})
VectorsCompared == OnVectors(<<"v128", "v128">>, <<"v128">>,
    Plain("v.compare", IntegerCompares, {"i8", "i16", "i32"})
    \cup Plain("v.compare", {"eq", "ne", "lt_s", "gt_s", "le_s", "ge_s"}, {"i64"}),
    GivenTwo(Vectors))
VectorsTested == OnVectors(<<"v128">>, <<"i32">>,
    Plain("v.test", {"all_true", "bitmask"}, Ints) \cup Plain("v.test", {"any_true"}, {"i8"}),
    Given(Vectors \cup {<<0, 0>>, <<0, 1>>, <<32768, 0>>}))
VectorsShifted == OnVectors(<<"v128", "i32">>, <<"v128">>, Plain("v.shift", {"shl", "shr_s", "shr_u"}, Ints),
    {<<<<"v128", v>>, <<"i32", n>>>> : v \in {<<6939, 45108>>}, n \in {0, 1, 3, 5, 8, 17, 255}})

(* Lanes in and out of a vector. *)
Ceil(t) == (16 * ByteBits) \div Width(t)
LanesAt(t) == {0, Ceil(t) \div 2, Ceil(t) - 1, Ceil(t)}
Extracted(t, signs) == OnVectors(<<"v128">>, <<LaneType(t)>>, {VLane("v.extract", t, k, s) : k \in LanesAt(t), s \in signs},
                                 Given(Vectors))
Replaced1(t, n) == OnVectors(<<"v128", LaneType(t)>>, <<"v128">>, {VLane("v.replace", t, k, FALSE) : k \in LanesAt(t)},
                             {<<<<"v128", v>>, <<LaneType(t), n>>>> : v \in Vectors})
Splatted(t, n) == OnVectors(<<LaneType(t)>>, <<"v128">>, {VLane("v.splat", t, 0, FALSE)}, {<<<<LaneType(t), n>>>>})
LaneProfiles ==
    <<Extracted("i8", BOOLEAN), Extracted("i16", BOOLEAN), Extracted("i32", {FALSE}), Extracted("i64", {FALSE}),
      Extracted("f32", {FALSE}), Extracted("f64", {FALSE}),
      Replaced1("i8", 198), Replaced1("i16", 198), Replaced1("i32", 198), Replaced1("i64", 50886),
      Replaced1("f32", 35), Replaced1("f64", 9001),
      Splatted("i8", 198), Splatted("i16", 198), Splatted("i32", 198), Splatted("i64", 50886),
      Splatted("f32", 35), Splatted("f64", 9001)>>

(* Lanes of floating point: small numbers, zeros and infinities of both    *)
(* signs and NaN, in every pair of places.                                 *)
Vector32(a, b, c, d) == FromLanes(<<a, b, c, d>>, 8)
Real32(n) == HalfOf(8, n)
Reals32 ==
    {Vector32(Real32(3), Real32(1) + 128, Inf(8), CanonicalNaN(8)), Vector32(0, 128, Inf(8) + 128, Real32(5)),
     Vector32(128, 0, Real32(7) + 128, Inf(8)), Vector32(CanonicalNaN(8), Real32(3), 0, 128)}
Reals64 ==
    {<<HalfOf(16, 3), HalfOf(16, 1) + 32768>>, <<Inf(16), CanonicalNaN(16)>>, <<0, 32768>>, <<32768, Inf(16) + 32768>>,
     <<HalfOf(16, 401), HalfOf(16, 5) + 32768>>}
RealBinaries == {"add", "sub", "mul", "div", "min", "max", "pmin", "pmax"}
RealUnaries == {"neg", "abs", "sqrt", "ceil", "floor", "trunc", "nearest"}
RealsOf(t, vs) ==
    <<OnVectors(<<"v128", "v128">>, <<"v128">>,
                Plain("v.binary", RealBinaries, {t}) \cup Plain("v.compare", {"eq", "ne", "lt", "gt", "le", "ge"}, {t}),
                GivenTwo(vs)),
      OnVectors(<<"v128">>, <<"v128">>,
                Plain("v.unary", RealUnaries \cup {IF t = "f32" THEN "promote" ELSE "demote"}, {t})
                \cup Both("v.unary", {"trunc_sat"}, {t}), Given(vs))>>
Converted == OnVectors(<<"v128">>, <<"v128">>, Both("v.unary", {"convert"}, Reals), Given(Vectors))

(* Vectors in memory: of one page, which they end with or reach past, and  *)
(* of 4 GiB, where the address of what is past the end is that of the      *)
(* beginning.                                                              *)
Loads ==
    {VMem("v.load", "full", 16, FALSE, 0), VMem("v.load", "zero", 4, FALSE, 0), VMem("v.load", "zero", 8, FALSE, 1)}
    \cup {VMem("v.load", "extend", w, s, 0) : w \in {1, 2, 4}, s \in BOOLEAN}
    \cup {VMem("v.load", "splat", w, FALSE, 1) : w \in {1, 2, 4, 8}}
Page(n) == [Memory EXCEPT !.min = n, !.cap = n, !.max = n]
InMemory(pages, params, results, prefix, instrs, bound, args) ==
    OnData(F(params, results, <<>>, <<>>, 1),
           [memory |-> Page(pages), datas |-> <<Active(AtConst(0), Counting),
                                                Active(AtConst(16 * pages - 16), Reverse(Counting))>>],
           prefix, instrs \cup {I("end")}, bound, args)
VectorLoads ==
    InMemory(1, <<"i32">>, <<"v128">>, Gets(1),
             Loads \cup {[VMem("v.load", "full", 16, FALSE, 0) EXCEPT !.align = 5],
                         [VMem("v.load", "extend", 1, FALSE, 0) EXCEPT !.align = 4],
                         [VMem("v.load", "splat", 2, FALSE, 0) EXCEPT !.align = 2]},
             3, Args("i32", {0, 1, 7, 8, 9, 14, 15, 255}))
VectorLoadsEnd ==
    InMemory(16, <<"i32">>, <<"v128">>, Gets(1), Loads, 3, Args("i32", {240, 241, 247, 248, 249, 255}))
LaneAccess(op, w, k) == [VMem(op, "lane", w, FALSE, 1) EXCEPT !.k = k]
AtVector(as) == {<<<<"i32", n>>, <<"v128", <<6939, 45108>>>>>> : n \in as}
VectorLaneLoads ==
    InMemory(1, <<"i32", "v128">>, <<"v128">>, Gets(2),
             {LaneAccess("v.load_lane", w, k) : w \in {1, 2, 4, 8}, k \in {0, 1, 2, 7, 15}}, 4,
             AtVector({0, 7, 8, 13, 14, 15, 255}))
VectorStores(pages, as) ==
    InMemory(pages, <<"i32", "v128">>, <<>>, Gets(2),
             {VMem("v.store", "full", 16, FALSE, 0), [VMem("v.store", "full", 16, FALSE, 0) EXCEPT !.align = 5]}
             \cup {LaneAccess("v.store_lane", w, k) : w \in {1, 2, 4, 8}, k \in {0, 1, 2, 7, 15}}, 4,
             AtVector(as))

(* Atomic accesses, alone with a memory, shared or not: at every alignment *)
(* around its end, twice in a row.                                         *)
Atomic(op, f, t, w) == [op |-> op, f |-> f, t |-> t, w |-> w, off |-> 0, align |-> 0]
AtomicsOf(t, ws, n) ==
    InMemory(1, <<"i32", t>>, <<t>>, Gets(2) \o <<C(t, 45)>>,
             {Atomic("atomic.rmw", f, t, w) : f \in {"add", "sub", "and", "or", "xor", "xchg"}, w \in ws}
             \cup {Atomic(op, "", t, w) : op \in {"atomic.cmpxchg", "atomic.load", "atomic.store"}, w \in ws}
             \cup {X("local.get", 1), I("drop"), [Atomic("atomic.load", "", t, 1) EXCEPT !.align = 1], I("end")},
             6, {<<<<"i32", m>>, <<t, n>>>> : m \in {0, 1, 2, 4, 8, 12, 15, 16, 255}})
Waits(shared) ==
    [InMemory(1, <<"i32", "i32">>, <<"i32">>, Gets(2),
              {Atomic("atomic.wait", "", t, w) : t \in {"i32"}, w \in {4}}
              \cup {[Atomic("atomic.wait", "", "i64", 8) EXCEPT !.off = 8], Atomic("atomic.notify", "", "i32", 4),
                    I("atomic.fence"), C("i64", 5), C("i64", 7145), Atomic("atomic.store", "", "i64", 8), I("end")},
              6, {<<I32(m), I32(n)>> : m \in {0, 2, 4, 8, 16, 252}, n \in {0, 27}})
     EXCEPT !.mod.memory.shared = shared]
NotifiesEnd ==
    InMemory(16, <<"i32">>, <<"i32">>, Gets(1), {C("i32", 1), Atomic("atomic.notify", "", "i32", 4), I("end")}, 4,
             Args("i32", {0, 252}))
AtomicProfiles ==
    <<AtomicsOf("i32", {1, 2, 4}, 198), AtomicsOf("i64", {1, 2, 4, 8}, 50886), Waits(TRUE), Waits(FALSE), NotifiesEnd>>

VectorProfiles ==
    <<Vectors1, Vectors2, Vectors3, VectorsCompared, VectorsTested, VectorsShifted, Converted, VectorLoads,
      VectorLoadsEnd, VectorLaneLoads, VectorStores(1, {0, 1, 7, 8, 13, 14, 15, 255}), VectorStores(16, {240, 241, 248, 255})>>
    \o LaneProfiles \o RealsOf("f32", Reals32) \o RealsOf("f64", Reals64)

CodeProfiles == DataProfiles \o VectorProfiles \o AtomicProfiles
============================================================================
