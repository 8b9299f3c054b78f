------------------------------- MODULE Floats -------------------------------
(***************************************************************************)
(* Floating point numbers, which the program takes from Go and the         *)
(* processor: bits of width w with a sign, 5 bits of exponent and the rest *)
(* for the significand, of which IEEE 754 has more.  What the properties   *)
(* tell apart is kept: zeros of both signs, fractions, numbers beyond the  *)
(* integers, infinities and NaN.  What an arithmetic operation computes is *)
(* left open: FloatArithmetic is some function of its operands.            *)
(***************************************************************************)
EXTENDS WasmCode

SignBit(w) == 2^(w - 1)
Negative(v, w) == v >= SignBit(w)
Magnitude(v, w) == v % SignBit(w)

SignificandBits(w) == w - 6
Inf(w) == 31 * 2^SignificandBits(w)
CanonicalNaN(w) == Inf(w) + 2^(SignificandBits(w) - 1)
IsNaN(v, w) == Magnitude(v, w) > Inf(w)
IsInf(v, w) == Magnitude(v, w) = Inf(w)

(* Numbers are ordered as their magnitudes are; a zero has none. *)
Key(v, w) == IF Negative(v, w) THEN -Magnitude(v, w) ELSE Magnitude(v, w)
FloatLess(x, y, w) == ~IsNaN(x, w) /\ ~IsNaN(y, w) /\ Key(x, w) < Key(y, w)
FloatEqual(x, y, w) == ~IsNaN(x, w) /\ ~IsNaN(y, w) /\ Key(x, w) = Key(y, w)

(* A number is Significand * 2^Exponent. *)
Biased(v, w) == Magnitude(v, w) \div 2^SignificandBits(w)
Significand(v, w) ==
    (Magnitude(v, w) % 2^SignificandBits(w)) + (IF Biased(v, w) = 0 THEN 0 ELSE 2^SignificandBits(w))
Exponent(v, w) == (IF Biased(v, w) = 0 THEN 1 ELSE Biased(v, w)) - 13 - SignificandBits(w)

(* The integer part of the magnitude, and whether what is left is nothing, *)
(* less than a half, a half or more.                                       *)
IntegerPart(v, w) ==
    IF Exponent(v, w) >= 0 THEN Significand(v, w) * 2^Exponent(v, w)
                           ELSE Significand(v, w) \div 2^(-Exponent(v, w))
Fraction(v, w) ==
    IF Exponent(v, w) >= 0 THEN "none"
    ELSE LET half == 2^(-Exponent(v, w) - 1)
             rest == Significand(v, w) % (2 * half)
         IN  CASE rest = 0 -> "none" [] rest > half -> "more" [] rest = half -> "half"
               [] OTHER -> "less"

(* float32(n) or float64(n): to the nearest, ties to an even significand. *)
FromInteger(n, w) ==
    LET m    == IF n < 0 THEN -n ELSE n
        high == Max({k \in 0..20 : 2^k <= m})
        q    == high - SignificandBits(w)
        down == m \div 2^q
        rest == m % 2^q
        sig  == IF q <= 0 THEN m * 2^(-q)
                ELSE IF 2 * rest > 2^q \/ (2 * rest = 2^q /\ down % 2 = 1) THEN down + 1 ELSE down
    IN  IF n = 0 THEN 0
        ELSE (high + 12) * 2^SignificandBits(w) + sig + (IF n < 0 THEN SignBit(w) ELSE 0)

(* An integral number with the sign of v. *)
Integral(v, n, w) == FromInteger(n, w) + (IF Negative(v, w) THEN SignBit(w) ELSE 0)

MathTrunc(v, w) ==
    IF Magnitude(v, w) >= Inf(w) THEN v ELSE Integral(v, IntegerPart(v, w), w)
MathCeil(v, w) ==
    IF Negative(v, w) \/ Fraction(v, w) = "none" \/ IsNaN(v, w) THEN MathTrunc(v, w)
    ELSE Integral(v, IntegerPart(v, w) + 1, w)
MathFloor(v, w) ==
    IF ~Negative(v, w) \/ Fraction(v, w) = "none" \/ IsNaN(v, w) THEN MathTrunc(v, w)
    ELSE Integral(v, IntegerPart(v, w) + 1, w)

(* A NaN gives a NaN.  Otherwise add and mul have the same result for both *)
(* orders of their operands.                                               *)
FloatArithmetic(f, w, args) ==
    LET x == args[1]
        y == args[Len(args)]
        from == CASE f = "demote" -> 2 * w [] f = "promote" -> w \div 2 [] OTHER -> w
    IN  IF IsNaN(x, from) \/ IsNaN(y, from) THEN CanonicalNaN(w)
        ELSE CASE f = "add" -> Wrap(3 * (x + y) + 1, w)
               [] f = "mul" -> Wrap(5 * (x + y) + 2, w)
               [] f = "sub" -> Wrap(3 * x + 7 * y + 3, w)
               [] f = "div" -> Wrap(5 * x + 3 * y + 4, w)
               [] f = "sqrt" -> Wrap(7 * x + 5, w)
               [] f \in {"demote", "promote"} -> Wrap(3 * x + 6, w)
============================================================================
