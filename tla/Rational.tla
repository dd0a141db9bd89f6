------------------------------ MODULE Rational ------------------------------
(***************************************************************************)
(* Exact fractions <<numerator, denominator>> in lowest terms, the          *)
(* denominator positive.  They stand for the floats of the analytics, whose *)
(* rounding no property is about.                                           *)
(***************************************************************************)
EXTENDS Integers, FiniteSetsExt, Functions

\* n / d, for a positive d: the denominator is the least with a whole numerator.
Ratio(n, d) == LET q == Min({q \in 1..d : (n * q) % d = 0}) IN <<(n * q) \div d, q>>

\* The pairs that are such fractions.
Fraction == {x \in Int \X (Nat \ {0}) : Ratio(x[1], x[2]) = x}

Zero == <<0, 1>>
One == <<1, 1>>
Two == <<2, 1>>

a ++ b == Ratio(a[1] * b[2] + b[1] * a[2], a[2] * b[2])
a -- b == Ratio(a[1] * b[2] - b[1] * a[2], a[2] * b[2])
a ** b == Ratio(a[1] * b[1], a[2] * b[2])

\* b is positive.
a // b == Ratio(a[1] * b[2], a[2] * b[1])

a \preceq b == a[1] * b[2] <= b[1] * a[2]

\* The sum of f[x] over the x of its domain.
Total(f) == FoldFunction(LAMBDA a, b : a ++ b, Zero, f)
=============================================================================
