------------------------- MODULE InterpreterNumeric -------------------------
(***************************************************************************)
(* The numeric operations of callNativeFunc                                *)
(* (internal/engine/interpreter/interpreter.go) on the uint64 they pop.    *)
(* An operation of 32 bits looks at the lower half of its operands only    *)
(* and leaves an upper half of zeros.  The result is a value or the reason *)
(* of a panic.                                                             *)
(***************************************************************************)
EXTENDS MoreMath, FiniteSets

Ok(vals) == [trap |-> "none", vals |-> vals]
Fault(why) == [trap |-> why]

Bool(b) == Ok(<<IF b THEN 1 ELSE 0>>)

isFloat(t) == t \in {"f32", "f64"}

(* Eq, Ne, Lt, Gt, Le and Ge.  Integers are compared as f says. *)
CompareOp(f, t, v1, v2) ==
    LET w == Width(t)
        x == Wrap(v1, w)
        y == Wrap(v2, w)
        less(a, b) == CASE isFloat(t) -> FloatLess(a, b, w)
                        [] ~isFloat(t) /\ f \in {"lt_s", "gt_s", "le_s", "ge_s"} -> Signed(a, w) < Signed(b, w)
                        [] OTHER -> a < b
        equal == IF isFloat(t) THEN FloatEqual(x, y, w) ELSE x = y
    IN  Bool(CASE f = "eq" -> equal
               [] f = "ne" -> ~equal
               [] f \in {"lt", "lt_s", "lt_u"} -> less(x, y)
               [] f \in {"gt", "gt_s", "gt_u"} -> less(y, x)
               [] f \in {"le", "le_s", "le_u"} -> less(x, y) \/ equal
               [] f \in {"ge", "ge_s", "ge_u"} -> less(y, x) \/ equal)

EqzOp(t, v) == Bool(Wrap(v, Width(t)) = 0)

(* The product is taken in two parts, so that it does not get too large. *)
Times(x, y, w) ==
    LET h == 2^(w \div 2)
    IN  Wrap(x * (y % h) + h * Wrap(x * (y \div h), w \div 2), w)

AddSubMulOp(f, t, v1, v2) ==
    LET w == Width(t)
        x == Wrap(v1, w)
        y == Wrap(v2, w)
    IN  Ok(<<CASE isFloat(t) -> FloatArithmetic(f, w, <<x, y>>)
               [] ~isFloat(t) /\ f = "add" -> Wrap(x + y, w)
               [] ~isFloat(t) /\ f = "sub" -> Wrap(x - y, w)
               [] ~isFloat(t) /\ f = "mul" -> Times(x, y, w)>>)

(* Clz, Ctz and Popcnt. *)
CountOp(f, t, v) ==
    LET w    == Width(t)
        ones == {k \in 0..(w - 1) : (v \div 2^k) % 2 = 1}
    IN  Ok(<<CASE f = "clz" -> IF ones = {} THEN w ELSE w - 1 - Max(ones)
               [] f = "ctz" -> IF ones = {} THEN w ELSE Min(ones)
               [] f = "popcnt" -> Cardinality(ones)>>)

(* Go's division rounds towards zero. *)
Quotient(n, d) ==
    LET size(k) == IF k < 0 THEN -k ELSE k
        q == size(n) \div size(d)
    IN  IF (n < 0) = (d < 0) THEN q ELSE -q

DivOp(f, t, v1, v2) ==
    LET w == Width(t)
        x == Wrap(v1, w)
        y == Wrap(v2, w)
        n == Signed(x, w)
        d == Signed(y, w)
    IN  CASE isFloat(t) -> Ok(<<FloatArithmetic(f, w, <<x, y>>)>>)
          [] ~isFloat(t) /\ y = 0 -> Fault("divide_by_zero")
          [] f = "div_u" /\ y # 0 -> Ok(<<x \div y>>)
          [] f = "div_s" /\ y # 0 ->
                IF n = -(2^(w - 1)) /\ d = -1 THEN Fault("integer_overflow")
                ELSE Ok(<<Wrap(Quotient(n, d), w)>>)

RemOp(f, t, v1, v2) ==
    LET w == Width(t)
        x == Wrap(v1, w)
        y == Wrap(v2, w)
        n == Signed(x, w)
        d == Signed(y, w)
    IN  IF y = 0 THEN Fault("divide_by_zero")
        ELSE Ok(<<IF f = "rem_u" THEN x % y ELSE Wrap(n - d * Quotient(n, d), w)>>)

(* Go's &, | and ^ of two words, from the lowest bits up. *)
WordOp[f \in {"and", "or", "xor"}, x \in Nat, y \in Nat] ==
    IF x = 0 /\ y = 0 THEN 0
    ELSE LET ones == (x % 2) + (y % 2)
             bit  == CASE f = "and" -> ones \div 2 [] f = "or" -> (ones + 1) \div 2 [] f = "xor" -> ones % 2
         IN  2 * WordOp[f, x \div 2, y \div 2] + bit

(* And, Or and Xor. *)
BitsOp(f, t, v1, v2) ==
    Ok(<<WordOp[f, Wrap(v1, Width(t)), Wrap(v2, Width(t))]>>)

(* Shl, Shr, Rotl and Rotr. *)
ShiftOp(f, t, v1, v2) ==
    LET w == Width(t)
        x == Wrap(v1, w)
        n == v2 % w
        left(k) == Times(x, 2^k % 2^w, w)
        rotate(k) == IF k = 0 THEN x ELSE left(k) + x \div 2^(w - k)
    IN  Ok(<<CASE f = "shl"   -> left(n)
               [] f = "shr_u" -> x \div 2^n
               [] f = "shr_s" -> Wrap(Signed(x, w) \div 2^n, w)
               [] f = "rotl"  -> rotate(n)
               [] f = "rotr"  -> rotate((w - n) % w)>>)

(* Abs, Neg, Ceil, Floor, Trunc, Nearest and Sqrt. *)
FloatUnaryOp(f, t, v) ==
    LET w == Width(t)
        x == Wrap(v, w)
    IN  Ok(<<CASE f = "abs"     -> Magnitude(x, w)
               [] f = "neg"     -> Wrap(x + SignBit(w), w)
               [] f = "ceil"    -> WasmCompatCeil(x, w)
               [] f = "floor"   -> WasmCompatFloor(x, w)
               [] f = "trunc"   -> WasmCompatTrunc(x, w)
               [] f = "nearest" -> WasmCompatNearest(x, w)
               [] f = "sqrt"    -> FloatArithmetic(f, w, <<x>>)>>)

(* Min, Max and Copysign.  For 32 bits min and max are given their         *)
(* operands the other way round.                                           *)
FloatBinaryOp(f, t, v1, v2) ==
    LET w == Width(t)
        x == Wrap(v1, w)
        y == Wrap(v2, w)
    IN  Ok(<<CASE f = "min" -> IF t = "f32" THEN WasmCompatMin(y, x, w) ELSE WasmCompatMin(x, y, w)
               [] f = "max" -> IF t = "f32" THEN WasmCompatMax(y, x, w) ELSE WasmCompatMax(x, y, w)
               [] f = "copysign" -> Magnitude(x, w) + (IF Negative(y, w) THEN SignBit(w) ELSE 0)>>)

(* ITruncFromF: f32 or f64 to t, trapping or saturating.  The largest      *)
(* integer of 64 bits, as a float64, is the next one.                      *)
TruncFromFOp(f, t, from, v) ==
    LET w   == Width(t)
        fw  == Width(from)
        bits == Wrap(v, fw)
        x   == IF Negative(bits, fw) THEN -IntegerPart(bits, fw) ELSE IntegerPart(bits, fw)
        sat == f \in {"trunc_sat_s", "trunc_sat_u"}
        signed == f \in {"trunc_s", "trunc_sat_s"}
        low  == IF signed THEN -(2^(w - 1)) ELSE 0
        high == (IF signed THEN 2^(w - 1) ELSE 2^w) - 1
        limit == IntegerPart(FromInteger(high, Width("f64")), Width("f64"))
        over == x < low \/ (IF t = "i32" THEN x > high ELSE x >= limit)
    IN  CASE IsNaN(bits, fw) -> IF sat THEN Ok(<<0>>) ELSE Fault("invalid_conversion")
          [] ~IsNaN(bits, fw) /\ over ->
                IF sat THEN Ok(<<Wrap(IF x < 0 THEN low ELSE high, w)>>) ELSE Fault("integer_overflow")
          [] OTHER -> Ok(<<Wrap(x, w)>>)

(* FConvertFromI *)
ConvertFromIOp(f, t, from, v) ==
    LET w == Width(from)
    IN  Ok(<<FromInteger(IF f = "convert_s" THEN Signed(v, w) ELSE Wrap(v, w), Width(t))>>)

(* I32WrapFromI64, F32DemoteFromF64, F64PromoteFromF32, Extend.  There is  *)
(* nothing to do to reinterpret a value.                                   *)
ConvertOp(f, t, from, v) ==
    CASE f = "wrap"     -> Ok(<<Uint32(v)>>)
      [] f = "demote"   -> Ok(<<FloatArithmetic(f, Width(t), <<v>>)>>)
      [] f = "promote"  -> Ok(<<FloatArithmetic(f, Width(t), <<Uint32(v)>>)>>)
      [] f = "extend_s" -> Ok(<<Wrap(Signed(v, Width(from)), Width(t))>>)
      [] f = "extend_u" -> Ok(<<Uint32(v)>>)
      [] f = "reinterpret" -> Ok(<<v>>)
      [] f \in {"trunc_s", "trunc_u", "trunc_sat_s", "trunc_sat_u"} -> TruncFromFOp(f, t, from, v)
      [] f \in {"convert_s", "convert_u"} -> ConvertFromIOp(f, t, from, v)

(* SignExtend32From8 .. SignExtend64From32 *)
SignExtendOp(t, from, v) == Ok(<<Wrap(Signed(v, Width(from)), Width(t))>>)

(* A numeric operation i on the values it pops. *)
NumericOp(i, a) ==
    CASE i.op = "eqz"     -> EqzOp(i.t, a[1])
      [] i.op = "compare" -> CompareOp(i.f, i.t, a[1], a[2])
      [] i.op = "unary"   -> IF isFloat(i.t) THEN FloatUnaryOp(i.f, i.t, a[1]) ELSE CountOp(i.f, i.t, a[1])
      [] i.op = "extend"  -> SignExtendOp(i.t, i.from, a[1])
      [] i.op = "convert" -> ConvertOp(i.f, i.t, i.from, a[1])
      [] i.op = "binary"  ->
            CASE i.f \in {"add", "sub", "mul"} -> AddSubMulOp(i.f, i.t, a[1], a[2])
              [] i.f \in {"div", "div_s", "div_u"} -> DivOp(i.f, i.t, a[1], a[2])
              [] i.f \in {"rem_s", "rem_u"} -> RemOp(i.f, i.t, a[1], a[2])
              [] i.f \in {"and", "or", "xor"} -> BitsOp(i.f, i.t, a[1], a[2])
              [] i.f \in {"shl", "shr_s", "shr_u", "rotl", "rotr"} -> ShiftOp(i.f, i.t, a[1], a[2])
              [] i.f \in {"min", "max", "copysign"} -> FloatBinaryOp(i.f, i.t, a[1], a[2])
============================================================================
