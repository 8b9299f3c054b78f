---------------------------- MODULE WasmVectors ----------------------------
(***************************************************************************)
(* What the vector instructions mean in WebAssembly: a vector is a set of  *)
(* bits, of which every w are a lane, and an instruction maps sequences of *)
(* lanes.                                                                  *)
(***************************************************************************)
EXTENDS WasmData

VectorBits == 16 * ByteBits
BitsOfVector(v) == Bits(v[1], VectorBits \div 2) \cup {k + VectorBits \div 2 : k \in Bits(v[2], VectorBits \div 2)}
VectorOf(S) ==
    LET h == VectorBits \div 2
    IN  <<OfBits({k \in S : k < h}), OfBits({k - h : k \in {j \in S : j >= h}})>>

(* The lanes of w bits, as numbers, from the first; and back. *)
LanesIn(B, w) == [k \in 1..(VectorBits \div w) |-> OfBits({j \in 0..(w - 1) : (k - 1) * w + j \in B})]
LanesOf(v, t) == LanesIn(BitsOfVector(v), Width(t))
FromLanes(s, w) == VectorOf(UNION {{(k - 1) * w + j : j \in Bits(s[k], w)} : k \in DOMAIN s})

Wider(t) == CASE t = "i8" -> "i16" [] t = "i16" -> "i32" [] t = "i32" -> "i64"
Narrower(t) == CASE t = "i16" -> "i8" [] t = "i32" -> "i16"

(* The number a lane stands for, and the nearest that a lane can hold. *)
Number(x, t, signed) == IF signed THEN Signed(x, Width(t)) ELSE x
Clamped(n, t, signed) ==
    LET low == IF signed THEN -(2^(Width(t) - 1)) ELSE 0
    IN  Max({low, Min({low + 2^Width(t) - 1, n})}) % 2^Width(t)

(* The lower or the upper half of a sequence. *)
HalfOfLanes(s, low) == IF low THEN SubSeq(s, 1, Len(s) \div 2) ELSE SubSeq(s, Len(s) \div 2 + 1, Len(s))

real(t) == t \in {"f32", "f64"}

LaneUnary(f, t, x) ==
    CASE real(t) -> FloatUnary(f, Width(t), x)
      [] f = "neg" /\ ~real(t) -> IntegerBinary("sub", Width(t), 0, x)
      [] f = "abs" /\ ~real(t) -> (IF Signed(x, Width(t)) < 0 THEN -Signed(x, Width(t)) ELSE x) % 2^Width(t)
      [] f = "popcnt" -> Cardinality(Bits(x, Width(t)))

LaneBinary(i, x, y) ==
    LET w == Width(i.t)
        n == Number(x, i.t, i.s)
        m == Number(y, i.t, i.s)
    IN  CASE i.f \in {"add", "sub", "mul", "div"} ->
                IF real(i.t) THEN FloatBinary(i.f, w, x, y) ELSE IntegerBinary(i.f, w, x, y)
          [] i.f \in {"min", "max"} /\ real(i.t) -> FloatBinary(i.f, w, x, y)
          [] i.f = "min" /\ ~real(i.t) -> Min({n, m}) % 2^w
          [] i.f = "max" /\ ~real(i.t) -> Max({n, m}) % 2^w
          [] i.f = "pmin" -> IF FloatLess(y, x, w) THEN y ELSE x
          [] i.f = "pmax" -> IF FloatLess(x, y, w) THEN y ELSE x
          [] i.f = "add_sat" -> Clamped(n + m, i.t, i.s)
          [] i.f = "sub_sat" -> Clamped(n - m, i.t, i.s)
          [] i.f = "avgr"    -> ((x + y) \div 2) + ((x + y) % 2)
          [] i.f = "q15mulr_sat" ->
                Clamped((Signed(x, w) * Signed(y, w) + 2^(w - 2)) \div 2^(w - 1), i.t, TRUE)

UnaryOfLanes(i, v) ==
    LET s == LanesOf(v, i.t)
        w == Width(i.t)
        numbers(h) == [k \in DOMAIN h |-> Number(h[k], i.t, i.s)]
        pairs(ns) == [k \in 1..(Len(ns) \div 2) |-> ns[2 * k - 1] + ns[2 * k]]
        ints  == LanesOf(v, "i32")
        sat(k) == ToInteger(IF i.s THEN "trunc_sat_s" ELSE "trunc_sat_u", "i32", i.t, s[k]).n
        real32 == LanesOf(v, "f32")
        real64 == LanesOf(v, "f64")
        lanes(n, f(_), to) == FromLanes([k \in 1..n |-> f(k) % 2^Width(to)], Width(to))
    IN  CASE i.f = "not" -> VectorOf((0..(VectorBits - 1)) \ BitsOfVector(v))
          [] i.f = "extend" -> lanes(Len(s) \div 2, LAMBDA k : numbers(HalfOfLanes(s, i.low))[k], Wider(i.t))
          [] i.f = "extadd" -> lanes(Len(s) \div 2, LAMBDA k : pairs(numbers(s))[k], Wider(i.t))
          [] i.f = "promote" -> lanes(2, LAMBDA k : Converts("promote", "f64", "f32", real32[k]), "f64")
          [] i.f = "demote"  -> lanes(2, LAMBDA k : Converts("demote", "f32", "f64", real64[k]), "f32")
          [] i.f = "convert" ->
                lanes(Len(s), LAMBDA k : Converts(IF i.s THEN "convert_s" ELSE "convert_u", i.t, "i32", ints[k]), i.t)
          [] i.f = "trunc_sat" -> lanes(Len(s), sat, "i32")
          [] OTHER -> FromLanes([k \in DOMAIN s |-> LaneUnary(i.f, i.t, s[k])], w)

BinaryOfLanes(i, v1, v2) ==
    LET x == LanesOf(v1, i.t)
        y == LanesOf(v2, i.t)
        X == BitsOfVector(v1)
        Y == BitsOfVector(v2)
        product(a, b) == [k \in DOMAIN a |-> Number(a[k], i.t, i.s) * Number(b[k], i.t, i.s)]
        wide(ns) == FromLanes([k \in DOMAIN ns |-> ns[k] % 2^Width(Wider(i.t))], Width(Wider(i.t)))
        pairs(ns) == [k \in 1..(Len(ns) \div 2) |-> ns[2 * k - 1] + ns[2 * k]]
        both == x \o y
    IN  CASE i.f = "and" -> VectorOf(X \cap Y)
          [] i.f = "or"  -> VectorOf(X \cup Y)
          [] i.f = "xor" -> VectorOf((X \cup Y) \ (X \cap Y))
          [] i.f = "andnot"  -> VectorOf(X \ Y)
          [] i.f = "swizzle" -> FromLanes([k \in DOMAIN y |-> IF y[k] < Len(x) THEN x[y[k] + 1] ELSE 0], Width(i.t))
          [] i.f = "shuffle" -> FromLanes([k \in DOMAIN x |-> both[i.ls[k] + 1]], Width(i.t))
          [] i.f = "extmul"  -> wide(product(HalfOfLanes(x, i.low), HalfOfLanes(y, i.low)))
          [] i.f = "dot"     -> wide(pairs(product(x, y)))
          [] i.f = "narrow"  ->
                FromLanes([k \in DOMAIN both |-> Clamped(Signed(both[k], Width(i.t)), Narrower(i.t), i.s)],
                          Width(Narrower(i.t)))
          [] OTHER -> FromLanes([k \in DOMAIN x |-> LaneBinary(i, x[k], y[k])], Width(i.t))

TestOfLanes(i, v) ==
    LET s == LanesOf(v, i.t)
        truth(b) == IF b THEN 1 ELSE 0
    IN  CASE i.f = "any_true" -> truth(BitsOfVector(v) # {})
          [] i.f = "all_true" -> truth(0 \notin Range(s))
          [] i.f = "bitmask"  ->
                OfBits({k \in 0..(Len(s) - 1) : Width(i.t) - 1 \in Bits(s[k + 1], Width(i.t))}) % 2^Width("i32")

-----------------------------------------------------------------------------
(* The type a lane has outside of a vector. *)
LaneType(t) == IF t \in {"i8", "i16"} THEN "i32" ELSE t

VectorInstrs ==
    {"v.load", "v.load_lane", "v.store", "v.store_lane", "v.extract", "v.replace", "v.splat", "v.test", "v.unary",
     "v.binary", "v.compare", "v.shift", "v.bitselect"}

VectorOperands(i) ==
    CASE i.op = "v.load" -> <<"i32">>
      [] i.op \in {"v.load_lane", "v.store", "v.store_lane"} -> <<"i32", "v128">>
      [] i.op \in {"v.extract", "v.test", "v.unary"} -> <<"v128">>
      [] i.op = "v.splat" -> <<LaneType(i.t)>>
      [] i.op = "v.replace" -> <<"v128", LaneType(i.t)>>
      [] i.op = "v.shift" -> <<"v128", "i32">>
      [] i.op \in {"v.binary", "v.compare"} -> <<"v128", "v128">>
      [] i.op = "v.bitselect" -> <<"v128", "v128", "v128">>

(* The bytes of memory from at on, as a number; more than it has is a trap. *)
VectorMemory(i, a, store) ==
    LET at == a[1][2] + i.off
        size == CASE i.op = "v.load" -> IF i.kind = "full" THEN 16 ELSE IF i.kind = "extend" THEN 8 ELSE i.w
                  [] i.op = "v.store" -> 16
                  [] OTHER -> i.w
        w    == i.w * ByteBits
        bits == UNION {{ByteBits * k + j : j \in Bits(store.mem[at + k + 1], ByteBits)} : k \in 0..(size - 1)}
        loaded == LanesIn(bits, w)
        given  == LanesIn(BitsOfVector(a[2][2]), w)
        v(s, n) == Gives(<<<<"v128", FromLanes(s, n)>>>>, store)
        put(B) == Gives(<<>>, [store EXCEPT !.mem = Replaced(@, at, size, LAMBDA k : LanesIn(B, ByteBits)[k + 1])])
    IN  CASE at + size > Len(store.mem) ->
                IF i.op = "v.load" /\ size = 16 /\ at + 8 = 2^Width("i32") /\ at + 8 = Len(store.mem)
                THEN Traps("wraps") ELSE Traps("out_of_bounds")
          [] at + size <= Len(store.mem) ->
                CASE i.op = "v.store" -> put(BitsOfVector(a[2][2]))
                  [] i.op = "v.store_lane" -> put(Bits(given[i.k + 1], w))
                  [] i.op = "v.load_lane" -> v([given EXCEPT ![i.k + 1] = loaded[1]], w)
                  [] i.op = "v.load" ->
                        CASE i.kind \in {"full", "zero"} -> Gives(<<<<"v128", VectorOf(bits)>>>>, store)
                          [] i.kind = "splat" -> v([k \in DOMAIN loaded |-> loaded[1]], w)
                          [] i.kind = "extend" ->
                                v([k \in 1..(Len(loaded) \div 2) |-> IF i.s THEN SignExtended(loaded[k], w, 2 * w) ELSE loaded[k]],
                                  2 * w)

VectorEffect(i, a, store) ==
    LET v == a[1][2]
        w == Width(i.t)
        s == LanesOf(v, i.t)
        x == s[i.k + 1]
        gives(t, n) == Gives(<<<<t, n>>>>, store)
        c == BitsOfVector(a[3][2])
    IN  CASE i.op \in {"v.load", "v.load_lane", "v.store", "v.store_lane"} -> VectorMemory(i, a, store)
          [] i.op = "v.extract" -> gives(LaneType(i.t), IF i.s THEN SignExtended(x, w, Width("i32")) ELSE x)
          [] i.op = "v.replace" -> gives("v128", FromLanes([s EXCEPT ![i.k + 1] = a[2][2] % 2^w], w))
          [] i.op = "v.splat"   -> gives("v128", FromLanes([k \in 1..(VectorBits \div w) |-> v % 2^w], w))
          [] i.op = "v.test"    -> gives("i32", TestOfLanes(i, v))
          [] i.op = "v.unary"   -> gives("v128", UnaryOfLanes(i, v))
          [] i.op = "v.binary"  -> gives("v128", BinaryOfLanes(i, v, a[2][2]))
          [] i.op = "v.compare" ->
                gives("v128", FromLanes([k \in DOMAIN s |->
                                  IF Compares(i.f, i.t, s[k], LanesOf(a[2][2], i.t)[k]) THEN 2^w - 1 ELSE 0], w))
          [] i.op = "v.shift"   ->
                gives("v128", FromLanes([k \in DOMAIN s |-> IntegerBinary(i.f, w, s[k], a[2][2])], w))
          [] i.op = "v.bitselect" ->
                gives("v128", VectorOf((BitsOfVector(v) \cap c) \cup (BitsOfVector(a[2][2]) \ c)))
============================================================================
