------------------------------ MODULE MoreMath ------------------------------
(***************************************************************************)
(* internal/moremath: the floating point functions of WebAssembly where    *)
(* Go's differ.  A NaN that is returned has its first payload bit set.     *)
(***************************************************************************)
EXTENDS Floats

Quiet(v, w) ==
    IF (v \div 2^(SignificandBits(w) - 1)) % 2 = 1 THEN v ELSE v + 2^(SignificandBits(w) - 1)

returnNaNBinOp(x, y, w) == Quiet(IF IsNaN(x, w) THEN x ELSE y, w)

returnUniOp(original, result, w) ==
    IF ~IsNaN(result, w) THEN result
    ELSE IF ~IsNaN(original, w) THEN CanonicalNaN(w)
    ELSE Quiet(original, w)

IsZero(v, w) == Magnitude(v, w) = 0
BothZero(x, y, w) == IsZero(x, w) /\ IsZero(y, w)

WasmCompatMin(x, y, w) ==
    CASE IsNaN(x, w) \/ IsNaN(y, w) -> returnNaNBinOp(x, y, w)
      [] ~(IsNaN(x, w) \/ IsNaN(y, w)) ->
            IF Inf(w) + SignBit(w) \in {x, y} THEN Inf(w) + SignBit(w)
            ELSE IF BothZero(x, y, w) THEN (IF Negative(x, w) THEN x ELSE y)
            ELSE IF FloatLess(x, y, w) THEN x ELSE y

WasmCompatMax(x, y, w) ==
    CASE IsNaN(x, w) \/ IsNaN(y, w) -> returnNaNBinOp(x, y, w)
      [] ~(IsNaN(x, w) \/ IsNaN(y, w)) ->
            IF Inf(w) \in {x, y} THEN Inf(w)
            ELSE IF BothZero(x, y, w) THEN (IF Negative(x, w) THEN y ELSE x)
            ELSE IF FloatLess(y, x, w) THEN x ELSE y

WasmCompatCeil(f, w) == returnUniOp(f, MathCeil(f, w), w)
WasmCompatFloor(f, w) == returnUniOp(f, MathFloor(f, w), w)
WasmCompatTrunc(f, w) == returnUniOp(f, MathTrunc(f, w), w)

(* The nearer of ceil and floor: between the two, the one whose half is an *)
(* integer.  An infinity is its own floor.                                 *)
WasmCompatNearest(f, w) ==
    LET ceil   == MathCeil(f, w)
        nearer == IF Negative(f, w) THEN Fraction(f, w) = "less" ELSE Fraction(f, w) = "more"
        even   == IntegerPart(ceil, w) % 2 = 0
    IN  returnUniOp(f, IF IsZero(f, w) THEN f
                       ELSE IF Magnitude(f, w) < Inf(w) /\ (nearer \/ (Fraction(f, w) = "half" /\ even))
                       THEN ceil
                       ELSE MathFloor(f, w), w)
============================================================================
