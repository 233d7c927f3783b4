----------------------------- MODULE FixedPoint -----------------------------
(***************************************************************************)
(* FixedPoint (scharnhorst_core/src/fixed_point.rs): decimal numbers as a  *)
(* raw i64 and a scale, value raw / 10^scale.  Every operation is checked: *)
(* it returns a number or an error, which is a record of its own.  Widths  *)
(* are parameters so that TLC reaches the edges: a raw has Bits bits and   *)
(* the wide integers of a comparison 2 * Bits, like i64 and i128.          *)
(* The conversions from and to f64 are left out, and of from_str the       *)
(* character classes: a literal is its digits and its number of decimals.  *)
(***************************************************************************)
EXTENDS Integers, FiniteSetsExt

CONSTANT Bits          \* width of a raw: 64 in the code

\* Twice the largest power of ten fits a raw, as 2 * 10^18 fits i64: rescale
\* doubles remainders without a check.
ASSUME BitsAssumption ==
  /\ Bits \in Nat \ {0}
  /\ \A n \in 0 .. Bits : 10^n < 2^(Bits - 1) => 2 * 10^n < 2^(Bits - 1)

Narrow == -(2^(Bits - 1)) .. 2^(Bits - 1) - 1
Wide   == -(2^(2 * Bits - 1)) .. 2^(2 * Bits - 1) - 1

Number(raw, scale) == [raw |-> raw, scale |-> scale]
Error(kind)        == [error |-> kind]
Overflow           == Error("ArithmeticOverflow")
IsOk(result)       == "error" \notin DOMAIN result

\* checked_add, checked_mul, checked_neg ...: the exact result if it fits.
Checked(raw, scale) ==
  IF raw \in Narrow THEN Number(raw, scale) ELSE Overflow

\* 10_i64.checked_pow
HasPower(n) == 10^n \in Narrow

\* Integer division of Rust: towards zero, with the remainder it leaves.
Quotient(a, b) ==
  LET q == (IF a < 0 THEN -a ELSE a) \div (IF b < 0 THEN -b ELSE b)
  IN  IF (a < 0) = (b < 0) THEN q ELSE -q

Remainder(a, b) == a - b * Quotient(a, b)

Magnitude(a) == IF a < 0 THEN -a ELSE a

FromI64(value, scale) ==
  IF HasPower(scale) THEN Checked(value * 10^scale, scale) ELSE Overflow

\* from_str: the digits without the point are parsed as one integer.
FromStr(digits, decimals) == Checked(digits, decimals)

\* Mutant: a half is always rounded away from zero.
RoundHalfUp(raw, factor) ==
  LET q == Quotient(raw, factor)
  IN  IF 2 * Magnitude(Remainder(raw, factor)) >= factor
        THEN IF raw >= 0 THEN q + 1 ELSE q - 1
        ELSE q

\* The rounding of rescale: to the nearest, a half to the even neighbour.
Round(raw, factor) ==
  LET q    == Quotient(raw, factor)
      rest == 2 * Magnitude(Remainder(raw, factor))
  IN  IF rest > factor \/ (rest = factor /\ Remainder(q, 2) # 0)
        THEN IF raw >= 0 THEN q + 1 ELSE q - 1
        ELSE q

Rescale(x, scale) ==
  CASE scale = x.scale -> x
    [] scale > x.scale ->
         IF HasPower(scale - x.scale)
           THEN Checked(x.raw * 10^(scale - x.scale), scale) ELSE Overflow
    [] scale < x.scale ->
         IF HasPower(x.scale - scale)
           THEN Checked(Round(x.raw, 10^(x.scale - scale)), scale) ELSE Overflow

\* Every binary operation first requires one scale.
SameScale(x, y, result) ==
  IF x.scale = y.scale THEN result ELSE Error("InvalidFixedPointScale")

Add(x, y) == SameScale(x, y, Checked(x.raw + y.raw, x.scale))
Sub(x, y) == SameScale(x, y, Checked(x.raw - y.raw, x.scale))

\* The product of the raws has to fit, and is divided by 10^scale.
Mul(x, y) ==
  SameScale(x, y,
    IF x.raw * y.raw \in Narrow /\ HasPower(x.scale)
      THEN Number(Quotient(x.raw * y.raw, 10^x.scale), x.scale)
      ELSE Overflow)

Div(x, y) ==
  SameScale(x, y,
    IF y.raw = 0 THEN Error("DivisionByZero")
    ELSE IF HasPower(x.scale) /\ x.raw * 10^x.scale \in Narrow
      THEN Checked(Quotient(x.raw * 10^x.scale, y.raw), x.scale)
      ELSE Overflow)

Neg(x) == Checked(-x.raw, x.scale)

-----------------------------------------------------------------------------
(* Comparison                                                              *)

Order(a, b) == IF a < b THEN "Less" ELSE IF a = b THEN "Equal" ELSE "Greater"

Opposite(order) ==
  CASE order = "Less" -> "Greater" [] order = "Greater" -> "Less"
    [] OTHER -> order

\* a has the smaller scale, by delta: a is widened.  A power that does not fit
\* leaves the sign of a to decide; a product that does not fit gives None.
CompareWidened(a, b, delta) ==
  IF 10^delta \in Wide
    THEN IF a * 10^delta \in Wide THEN Order(a * 10^delta, b) ELSE "None"
    ELSE IF a = 0 THEN Order(0, b) ELSE Order(a, 0)

CmpNormalized(x, y) ==
  IF x.scale <= y.scale
    THEN CompareWidened(x.raw, y.raw, y.scale - x.scale)
    ELSE Opposite(CompareWidened(y.raw, x.raw, x.scale - y.scale))

\* PartialEq, and Ord with its unwrap_or(Equal).
Equal(x, y) == CmpNormalized(x, y) = "Equal"

Cmp(x, y) ==
  IF CmpNormalized(x, y) = "None" THEN "Equal" ELSE CmpNormalized(x, y)

\* What Hash feeds to the hasher: trailing zeros of a raw other than 0 removed.
CanonicalForm(x) ==
  LET zeros == IF x.raw = 0 THEN 0
               ELSE Max({k \in 0 .. x.scale : x.raw % 10^k = 0})
  IN  Number(Quotient(x.raw, 10^zeros), x.scale - zeros)
=============================================================================
