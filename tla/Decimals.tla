------------------------------ MODULE Decimals ------------------------------
(***************************************************************************)
(* Decimal numbers of bounded precision, as the crate rust_decimal keeps    *)
(* them and domain/decimal.rs uses them: an integer mantissa of at most 96  *)
(* bits and a scale of at most 28 digits.  A result that needs more is      *)
(* rounded, half to even, to the largest scale that holds it.               *)
(***************************************************************************)
EXTENDS Integers, FiniteSetsExt

CONSTANTS
  MaxMantissa,   \* 2^96 - 1
  MaxScale       \* 28

Decimal(mantissa, scale) == [mantissa |-> mantissa, scale |-> scale]
Zero == Decimal(0, 0)
One  == Decimal(1, 0)

Magnitude(n) == IF n < 0 THEN -n ELSE n

\* 10^0 .. 10^8, in a table.
Ten == [n \in 0 .. 8 |-> CASE n = 0 -> 1 [] n = 1 -> 10 [] n = 2 -> 100 [] n = 3 -> 1000
                           [] n = 4 -> 10000 [] n = 5 -> 100000 [] n = 6 -> 1000000
                           [] n = 7 -> 10000000 [] n = 8 -> 100000000]

\* n / d for a positive d, rounded half to even.
HalfEven(n, d) ==
  LET q == n \div d
      r == n % d
  IN  IF 2 * r > d \/ (2 * r = d /\ q % 2 = 1) THEN q + 1 ELSE q

\* The number n / (d * 10^scale), at the largest scale up to `scale` that holds it.
Fit(n, d, scale) ==
  LET rounded(k) == HalfEven(n, d * Ten[scale - k])
      holding    == {k \in 0 .. Min({scale, MaxScale}) : Magnitude(rounded(k)) <= MaxMantissa}
  IN  Decimal(rounded(Max(holding)), Max(holding))

Mul(a, b) == Fit(a.mantissa * b.mantissa, 1, a.scale + b.scale)

\* The mantissa of a at a scale that is not smaller.
Aligned(a, scale) == a.mantissa * Ten[scale - a.scale]

Add(a, b) ==
  LET scale == Max({a.scale, b.scale})
  IN  Fit(Aligned(a, scale) + Aligned(b, scale), 1, scale)

Sub(a, b) == Add(a, Decimal(-b.mantissa, b.scale))

\* For a positive b, with all the digits there is room for.
Div(a, b) == Fit(a.mantissa * Ten[MaxScale + b.scale - a.scale], b.mantissa, MaxScale)

Equal(a, b) ==
  LET scale == Max({a.scale, b.scale}) IN Aligned(a, scale) = Aligned(b, scale)
=============================================================================
