------------------------- MODULE InterpreterVectors -------------------------
(***************************************************************************)
(* The vector operations of callNativeFunc                                 *)
(* (internal/engine/interpreter/interpreter.go).  A vector is two uint64   *)
(* on the stack, the lower half first; its lanes are cut out of a half by  *)
(* shifts and put together again.  t is the type of a lane, or i8 .. i64   *)
(* for what the code calls a shape of integers.                            *)
(***************************************************************************)
EXTENDS InterpreterData

Half == Width("i64")
PerHalf(w) == Half \div w

lane(x, w, k) == Wrap(x \div 2^(w * k), w)
laneOf(v, w, k) == lane(v[k \div PerHalf(w) + 1], w, k % PerHalf(w))

(* The half with lane f(k), for k below the lanes of a half, and a vector. *)
joined(w, f(_)) == MapThenSumSet(LAMBDA k : f(k) * 2^(w * k), 0..(PerHalf(w) - 1))
joinLanes(w, f(_)) == <<joined(w, f), joined(w, LAMBDA k : f(PerHalf(w) + k))>>

Lanes1(t, v, f(_)) == joinLanes(Width(t), LAMBDA k : f(laneOf(v, Width(t), k)))
Lanes2(t, v1, v2, f(_, _)) ==
    joinLanes(Width(t), LAMBDA k : f(laneOf(v1, Width(t), k), laneOf(v2, Width(t), k)))

(* v with lane k replaced by n. *)
setLane(v, w, k, n) == joinLanes(w, LAMBDA j : IF j = k THEN n ELSE laneOf(v, w, j))

(* x or int(x), as a lane of w bits. *)
asLane(x, w, signed) == IF signed THEN Signed(x, w) ELSE x

(* The nearest that fits in w bits. *)
saturate(n, w, signed) ==
    LET low  == IF signed THEN -(2^(w - 1)) ELSE 0
        high == IF signed THEN 2^(w - 1) - 1 ELSE 2^w - 1
    IN  Wrap(IF n < low THEN low ELSE IF n > high THEN high ELSE n, w)

-----------------------------------------------------------------------------
(* Memory.  The upper half is read at an offset of 32 bits. *)
V128Load(i, a, inst) ==
    LET offset == popMemoryOffset(i.off, a[1])
        size   == IF i.kind \in {"full", "extend"} THEN 8 ELSE i.w
        upper  == Uint32(offset + 8)
        w      == i.w * ByteBits
        v      == readLe(inst.mem, offset, size)
    IN  IF ~Addressable(offset) \/ ~hasSize(inst.mem, offset, size) THEN OutOfBounds
        ELSE IF i.kind = "full" /\ ~hasSize(inst.mem, upper, 8) THEN OutOfBounds
        ELSE Push(CASE i.kind = "full"   -> <<v, readLe(inst.mem, upper, 8)>>
                    [] i.kind = "extend" -> joinLanes(2 * w, LAMBDA k : Wrap(asLane(lane(v, w, k), w, i.s), 2 * w))
                    [] i.kind = "splat"  -> joinLanes(w, LAMBDA k : v)
                    [] i.kind = "zero"   -> <<v, 0>>,
                  inst)

V128LoadLane(i, a, inst) ==
    LET offset == popMemoryOffset(i.off, a[1])
    IN  IF ~Addressable(offset) \/ ~hasSize(inst.mem, offset, i.w) THEN OutOfBounds
        ELSE Push(setLane(<<a[2], a[3]>>, i.w * ByteBits, i.k, readLe(inst.mem, offset, i.w)), inst)

(* The upper half first: when it does not fit, nothing is written. *)
V128Store(i, a, inst) ==
    LET offset == popMemoryOffset(i.off, a[1])
    IN  IF ~Addressable(offset) \/ ~Addressable(offset + 8) \/ ~hasSize(inst.mem, offset + 8, 8) THEN OutOfBounds
        ELSE Push(<<>>, [inst EXCEPT !.mem = writeLe(writeLe(@, offset + 8, 8, a[3]), offset, 8, a[2])])

V128StoreLane(i, a, inst) ==
    LET offset == popMemoryOffset(i.off, a[1])
    IN  IF ~Addressable(offset) \/ ~hasSize(inst.mem, offset, i.w) THEN OutOfBounds
        ELSE Push(<<>>, [inst EXCEPT !.mem = writeLe(@, offset, i.w, laneOf(<<a[2], a[3]>>, i.w * ByteBits, i.k))])

-----------------------------------------------------------------------------
(* Lanes and scalars. *)
V128ReplaceLane(t, k, v, n) == setLane(v, Width(t), k, Wrap(n, Width(t)))
V128ExtractLane(t, k, signed, v) ==
    LET w == Width(t)
        x == laneOf(v, w, k)
    IN  IF t \in {"i8", "i16"} THEN Wrap(asLane(x, w, signed), Width("i32")) ELSE x
V128Splat(t, n) == joinLanes(Width(t), LAMBDA k : Wrap(n, Width(t)))

(* Bytes of base by number, and of y and then x. *)
V128Swizzle(base, idx) ==
    Lanes1("i8", idx, LAMBDA id : IF id < 16 THEN laneOf(base, ByteBits, id) ELSE 0)
V128Shuffle(ls, y, x) ==
    joinLanes(ByteBits, LAMBDA k : IF ls[k + 1] < 16 THEN laneOf(y, ByteBits, ls[k + 1])
                                   ELSE laneOf(x, ByteBits, ls[k + 1] - 16))

(* Truth. *)
LaneNumbers(t) == 0..(2 * PerHalf(Width(t)) - 1)
V128AnyTrue(v) == IF v[2] # 0 \/ v[1] # 0 THEN 1 ELSE 0
V128AllTrue(t, v) == IF \A k \in LaneNumbers(t) : laneOf(v, Width(t), k) # 0 THEN 1 ELSE 0
V128BitMask(t, v) ==
    MapThenSumSet(LAMBDA k : IF Signed(laneOf(v, Width(t), k), Width(t)) < 0 THEN 2^k ELSE 0, LaneNumbers(t))

(* Bits. *)
complement(x) == 2^Half - 1 - x
V128And(x, y) == <<WordOp["and", x[1], y[1]], WordOp["and", x[2], y[2]]>>
V128Or(x, y) == <<WordOp["or", x[1], y[1]], WordOp["or", x[2], y[2]]>>
V128Xor(x, y) == <<WordOp["xor", x[1], y[1]], WordOp["xor", x[2], y[2]]>>
V128Not(v) == <<complement(v[1]), complement(v[2])>>
V128AndNot(x, y) == V128And(x, V128Not(y))
V128Bitselect(x, y, c) == V128Or(V128And(x, c), V128And(y, V128Not(c)))

V128Shl(t, v, s) == Lanes1(t, v, LAMBDA x : Wrap(x * 2^(s % Width(t)), Width(t)))
V128Shr(t, signed, v, s) ==
    Lanes1(t, v, LAMBDA x : Wrap(asLane(x, Width(t), signed) \div 2^(s % Width(t)), Width(t)))

(* A lane of ones where the comparison holds. *)
V128Cmp(f, t, v1, v2) ==
    Lanes2(t, v1, v2, LAMBDA x, y : IF CompareOp(f, t, x, y).vals = <<1>> THEN 2^Width(t) - 1 ELSE 0)

-----------------------------------------------------------------------------
(* Arithmetic, as the scalar operations have it for a lane. *)
V128Add(t, v1, v2) == Lanes2(t, v1, v2, LAMBDA x, y : AddSubMulOp("add", t, x, y).vals[1])
V128Sub(t, v1, v2) == Lanes2(t, v1, v2, LAMBDA x, y : AddSubMulOp("sub", t, x, y).vals[1])
V128Mul(t, v1, v2) == Lanes2(t, v1, v2, LAMBDA x, y : AddSubMulOp("mul", t, x, y).vals[1])
V128Div(t, v1, v2) == Lanes2(t, v1, v2, LAMBDA x, y : FloatArithmetic("div", Width(t), <<x, y>>))

V128AddSat(t, signed, v1, v2) ==
    LET w == Width(t)
    IN  Lanes2(t, v1, v2, LAMBDA x, y : saturate(asLane(x, w, signed) + asLane(y, w, signed), w, signed))
V128SubSat(t, signed, v1, v2) ==
    LET w == Width(t)
    IN  Lanes2(t, v1, v2, LAMBDA x, y : saturate(asLane(x, w, signed) - asLane(y, w, signed), w, signed))

V128Neg(t, v) ==
    Lanes1(t, v, LAMBDA x : IF isFloat(t) THEN FloatUnaryOp("neg", t, x).vals[1] ELSE Wrap(-x, Width(t)))
V128Abs(t, v) ==
    Lanes1(t, v, LAMBDA x : IF isFloat(t) THEN Magnitude(x, Width(t))
                            ELSE IF Signed(x, Width(t)) < 0 THEN Wrap(-x, Width(t)) ELSE x)
V128Popcnt(v) == Lanes1("i8", v, LAMBDA x : CountOp("popcnt", "i8", x).vals[1])

V128Min(t, signed, v1, v2) ==
    LET w == Width(t)
    IN  Lanes2(t, v1, v2, LAMBDA x, y : IF isFloat(t) THEN WasmCompatMin(x, y, w)
                                        ELSE IF asLane(x, w, signed) > asLane(y, w, signed) THEN y ELSE x)
V128Max(t, signed, v1, v2) ==
    LET w == Width(t)
    IN  Lanes2(t, v1, v2, LAMBDA x, y : IF isFloat(t) THEN WasmCompatMax(x, y, w)
                                        ELSE IF asLane(x, w, signed) < asLane(y, w, signed) THEN y ELSE x)
V128AvgrU(t, v1, v2) == Lanes2(t, v1, v2, LAMBDA x, y : (x + y + 1) \div 2)

(* z1 < z2, with the infinities apart. *)
flt(z1, z2, w) ==
    IF IsNaN(z1, w) \/ IsNaN(z2, w) \/ FloatEqual(z1, z2, w) THEN FALSE
    ELSE IF IsInf(z1, w) THEN Negative(z1, w)
    ELSE IF IsInf(z2, w) THEN ~Negative(z2, w)
    ELSE FloatLess(z1, z2, w)
V128Pmin(t, v1, v2) == Lanes2(t, v1, v2, LAMBDA x, y : IF flt(y, x, Width(t)) THEN y ELSE x)
V128Pmax(t, v1, v2) == Lanes2(t, v1, v2, LAMBDA x, y : IF flt(x, y, Width(t)) THEN y ELSE x)

V128Sqrt(t, v) == Lanes1(t, v, LAMBDA x : FloatArithmetic("sqrt", Width(t), <<x>>))
V128Ceil(t, v) == Lanes1(t, v, LAMBDA x : WasmCompatCeil(x, Width(t)))
V128Floor(t, v) == Lanes1(t, v, LAMBDA x : WasmCompatFloor(x, Width(t)))
V128Trunc(t, v) == Lanes1(t, v, LAMBDA x : WasmCompatTrunc(x, Width(t)))
V128Nearest(t, v) == Lanes1(t, v, LAMBDA x : WasmCompatNearest(x, Width(t)))

-----------------------------------------------------------------------------
(* Between lanes of different widths.  t is the type of the narrower ones  *)
(* of an extension and of the lanes that are narrowed.                     *)
origin(low, v) == IF low THEN v[1] ELSE v[2]

V128Extend(t, signed, low, v) ==
    LET w == Width(t)
    IN  joinLanes(2 * w, LAMBDA k : Wrap(asLane(lane(origin(low, v), w, k), w, signed), 2 * w))
V128ExtMul(t, signed, low, v1, v2) ==
    LET w == Width(t)
        at(v, k) == asLane(lane(origin(low, v), w, k), w, signed)
    IN  joinLanes(2 * w, LAMBDA k : Wrap(at(v1, k) * at(v2, k), 2 * w))
V128ExtAddPairwise(t, signed, v) ==
    LET w == Width(t)
        at(k) == asLane(laneOf(v, w, k), w, signed)
    IN  joinLanes(2 * w, LAMBDA k : Wrap(at(2 * k) + at(2 * k + 1), 2 * w))
V128Narrow(t, signed, v1, v2) ==
    LET w == Width(t)
        n == 2 * PerHalf(w)
        at(k) == Signed(IF k < n THEN laneOf(v1, w, k) ELSE laneOf(v2, w, k - n), w)
    IN  joinLanes(w \div 2, LAMBDA k : saturate(at(k), w \div 2, signed))

V128Q15mulrSatS(v1, v2) ==
    LET w == Width("i16")
    IN  Lanes2("i16", v1, v2, LAMBDA x, y :
            saturate((Signed(x, w) * Signed(y, w) + 2^(w - 2)) \div 2^(w - 1), w, TRUE))
v128Dot(v1, v2) ==
    LET w == Width("i16")
        r(k) == Signed(laneOf(v1, w, k), w) * Signed(laneOf(v2, w, k), w)
    IN  joinLanes(2 * w, LAMBDA k : Wrap(r(2 * k) + r(2 * k + 1), 2 * w))

V128FloatPromote(v) ==
    LET at(k) == FloatArithmetic("promote", Width("f64"), <<lane(v[1], Width("f32"), k)>>)
    IN  <<at(0), at(1)>>
V128FloatDemote(v) ==
    LET at(k) == FloatArithmetic("demote", Width("f32"), <<v[k]>>)
    IN  <<at(1) + 2^Width("f32") * at(2), 0>>
V128FConvertFromI(t, signed, v) ==
    LET w == Width("i32")
        at(k) == FromInteger(asLane(laneOf(v, w, k), w, signed), Width(t))
    IN  joinLanes(Width(t), at)
V128ITruncSatFromF(from, signed, v) ==
    LET at(k) == TruncFromFOp(IF signed THEN "trunc_sat_s" ELSE "trunc_sat_u", "i32", from,
                              laneOf(v, Width(from), k)).vals[1]
    IN  IF from = "f32" THEN joinLanes(Width("i32"), at) ELSE <<at(0) + 2^Width("i32") * at(1), 0>>

-----------------------------------------------------------------------------
VectorUnaryOp(i, v) ==
    CASE i.f = "not"    -> V128Not(v)
      [] i.f = "neg"    -> V128Neg(i.t, v)
      [] i.f = "abs"    -> V128Abs(i.t, v)
      [] i.f = "popcnt" -> V128Popcnt(v)
      [] i.f = "sqrt"   -> V128Sqrt(i.t, v)
      [] i.f = "ceil"   -> V128Ceil(i.t, v)
      [] i.f = "floor"  -> V128Floor(i.t, v)
      [] i.f = "trunc"  -> V128Trunc(i.t, v)
      [] i.f = "nearest" -> V128Nearest(i.t, v)
      [] i.f = "extend"  -> V128Extend(i.t, i.s, i.low, v)
      [] i.f = "extadd"  -> V128ExtAddPairwise(i.t, i.s, v)
      [] i.f = "promote" -> V128FloatPromote(v)
      [] i.f = "demote"  -> V128FloatDemote(v)
      [] i.f = "convert" -> V128FConvertFromI(i.t, i.s, v)
      [] i.f = "trunc_sat" -> V128ITruncSatFromF(i.t, i.s, v)

VectorBinaryOp(i, x, y) ==
    CASE i.f = "add" -> V128Add(i.t, x, y)
      [] i.f = "sub" -> V128Sub(i.t, x, y)
      [] i.f = "mul" -> V128Mul(i.t, x, y)
      [] i.f = "div" -> V128Div(i.t, x, y)
      [] i.f = "add_sat" -> V128AddSat(i.t, i.s, x, y)
      [] i.f = "sub_sat" -> V128SubSat(i.t, i.s, x, y)
      [] i.f = "min"  -> V128Min(i.t, i.s, x, y)
      [] i.f = "max"  -> V128Max(i.t, i.s, x, y)
      [] i.f = "avgr" -> V128AvgrU(i.t, x, y)
      [] i.f = "pmin" -> V128Pmin(i.t, x, y)
      [] i.f = "pmax" -> V128Pmax(i.t, x, y)
      [] i.f = "extmul" -> V128ExtMul(i.t, i.s, i.low, x, y)
      [] i.f = "narrow" -> V128Narrow(i.t, i.s, x, y)
      [] i.f = "q15mulr_sat" -> V128Q15mulrSatS(x, y)
      [] i.f = "dot" -> v128Dot(x, y)
      [] i.f = "and" -> V128And(x, y)
      [] i.f = "or"  -> V128Or(x, y)
      [] i.f = "xor" -> V128Xor(x, y)
      [] i.f = "andnot"  -> V128AndNot(x, y)
      [] i.f = "swizzle" -> V128Swizzle(x, y)
      [] i.f = "shuffle" -> V128Shuffle(i.ls, x, y)

(* A test leaves a number. *)
VectorTestOp(i, v) ==
    CASE i.f = "any_true" -> V128AnyTrue(v)
      [] i.f = "all_true" -> V128AllTrue(i.t, v)
      [] i.f = "bitmask"  -> V128BitMask(i.t, v)

VectorKinds ==
    {"v.load", "v.load_lane", "v.store", "v.store_lane", "v.extract", "v.replace", "v.splat", "v.test", "v.unary",
     "v.binary", "v.compare", "v.shift", "v.bitselect"}

VectorPops(i) ==
    CASE i.op \in {"v.load", "v.splat"} -> 1
      [] i.op \in {"v.extract", "v.test", "v.unary"} -> 2
      [] i.op \in {"v.load_lane", "v.store", "v.store_lane", "v.replace", "v.shift"} -> 3
      [] i.op \in {"v.binary", "v.compare"} -> 4
      [] i.op = "v.bitselect" -> 6

VectorOperate(i, a, inst) ==
    LET v(k) == <<a[k], a[k + 1]>>
    IN  CASE i.op = "v.load"       -> V128Load(i, a, inst)
          [] i.op = "v.load_lane"  -> V128LoadLane(i, a, inst)
          [] i.op = "v.store"      -> V128Store(i, a, inst)
          [] i.op = "v.store_lane" -> V128StoreLane(i, a, inst)
          [] i.op = "v.extract" -> Push(<<V128ExtractLane(i.t, i.k, i.s, v(1))>>, inst)
          [] i.op = "v.replace" -> Push(V128ReplaceLane(i.t, i.k, v(1), a[3]), inst)
          [] i.op = "v.splat"   -> Push(V128Splat(i.t, a[1]), inst)
          [] i.op = "v.test"    -> Push(<<VectorTestOp(i, v(1))>>, inst)
          [] i.op = "v.unary"   -> Push(VectorUnaryOp(i, v(1)), inst)
          [] i.op = "v.binary"  -> Push(VectorBinaryOp(i, v(1), v(3)), inst)
          [] i.op = "v.compare" -> Push(V128Cmp(i.f, i.t, v(1), v(3)), inst)
          [] i.op = "v.shift"   ->
                Push(IF i.f = "shl" THEN V128Shl(i.t, v(1), a[3]) ELSE V128Shr(i.t, i.f = "shr_s", v(1), a[3]), inst)
          [] i.op = "v.bitselect" -> Push(V128Bitselect(v(1), v(3), v(5)), inst)
============================================================================
