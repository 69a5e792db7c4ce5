------------------------------ MODULE Fractions ------------------------------
(***************************************************************************)
(* Quantities that are divided are fractions <<numerator, denominator>> in *)
(* lowest terms with a positive denominator: equal fractions are equal     *)
(* values.                                                                 *)
(***************************************************************************)
EXTENDS Integers, FiniteSets, FiniteSetsExt

Abs(n) == IF n < 0 THEN -n ELSE n

Gcd[p \in Nat \X Nat] == IF p[2] = 0 THEN p[1] ELSE Gcd[<<p[2], p[1] % p[2]>>]

Whole(n) == <<n, 1>>

Ratio(n, d) ==
  LET g == Gcd[<<Abs(n), Abs(d)>>]
      s == IF d < 0 THEN -1 ELSE 1
  IN IF d = 1 THEN Whole(n) ELSE <<(s * n) \div g, (s * d) \div g>>

Plus(x, y) == Ratio(x[1] * y[2] + y[1] * x[2], x[2] * y[2])
Minus(x, y) == Ratio(x[1] * y[2] - y[1] * x[2], x[2] * y[2])
Product(x, y) == Ratio(x[1] * y[1], x[2] * y[2])
Over(x, y) == Ratio(x[1] * y[2], x[2] * y[1])

Lesser(x, y) == x[1] * y[2] < y[1] * x[2]
AtMost(x, y) == x[1] * y[2] <= y[1] * x[2]
Least(x, y) == IF AtMost(x, y) THEN x ELSE y

SumOver(f(_), S) == MapThenFoldSet(Plus, Whole(0), f, LAMBDA T : CHOOSE t \in T : TRUE, S)
=============================================================================
