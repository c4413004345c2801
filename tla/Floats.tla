------------------------------- MODULE Floats -------------------------------
(***************************************************************************)
(* Floating-point numbers, as far as the programs here tell them apart: a   *)
(* float is <<"float", p, q>>, the quotient p/q in lowest terms; 1/0, -1/0  *)
(* and 0/0 are the infinities and nan.  There is no rounding, no overflow   *)
(* and only one zero.                                                      *)
(***************************************************************************)
EXTENDS Integers

Abs(n) == IF n < 0 THEN -n ELSE n
Sign(n) == IF n < 0 THEN -1 ELSE IF n = 0 THEN 0 ELSE 1

RECURSIVE GCD(_, _)
GCD(m, n) == IF n = 0 THEN m ELSE GCD(n, m % n)

LowestTerms(p, q, g) == <<"float", (p * Sign(q)) \div g, Abs(q) \div g>>
Quotient(p, q) == IF q = 0 THEN <<"float", Sign(p), 0>> ELSE LowestTerms(p, q, GCD(Abs(p), Abs(q)))
The(S) == CHOOSE v \in S : TRUE
Float(p, q) == The({Quotient(r[1], r[2]) : r \in {<<p, q>>}})
Infinity == <<"float", 1, 0>>
NaN == <<"float", 0, 0>>
Zero == <<"float", 0, 1>>
IsFinite(x) == x[3] # 0

FNeg(x) == [x EXCEPT ![2] = -@]
FAdd(x, y) ==
  IF ~ IsFinite(x) /\ ~ IsFinite(y) THEN IF x = y THEN x ELSE NaN
  ELSE Float(x[2] * y[3] + y[2] * x[3], x[3] * y[3])
FSub(x, y) == FAdd(x, FNeg(y))
FMul(x, y) == Float(x[2] * y[2], x[3] * y[3])
FDiv(x, y) == Float(x[2] * y[3] * (IF y[2] < 0 THEN -1 ELSE 1), x[3] * Abs(y[2]))
FFloor(x) == IF IsFinite(x) THEN <<"float", x[2] \div x[3], 1>> ELSE x
FTrunc(x) == IF IsFinite(x) THEN <<"float", Sign(x[2]) * (Abs(x[2]) \div x[3]), 1>> ELSE x

FEqual(x, y) == x = y /\ x # NaN
FLess(x, y) ==
  /\ x # NaN /\ y # NaN
  /\ IF ~ IsFinite(x) /\ ~ IsFinite(y) THEN x[2] < y[2] ELSE x[2] * y[3] < y[2] * x[3]
FLessEq(x, y) == FLess(x, y) \/ FEqual(x, y)

(* The remainder that has the sign of x (fmod, and % of Rust).             *)
FRem(x, y) ==
  CASE ~ IsFinite(x) \/ y = Zero \/ y = NaN -> NaN
    [] IsFinite(x) /\ ~ IsFinite(y) /\ y # NaN -> x
    [] OTHER -> The({FSub(x, FMul(y, n)) : n \in {FTrunc(FDiv(x, y))}})

(* x to the power y; only integral exponents occur.                        *)
RECURSIVE Power(_, _)
Power(x, n) == IF n = 0 THEN Float(1, 1) ELSE FMul(x, Power(x, n - 1))
Inverted(x, inverted) == IF inverted THEN FDiv(Float(1, 1), x) ELSE x
FPow(x, y) == Inverted(Power(x, Abs(y[2])), y[2] < 0)
=============================================================================
