-------------------------------- MODULE Rat --------------------------------
(***************************************************************************)
(* Extended rationals standing in for the IEEE doubles of the C++ code.    *)
(* A value is a pair <<n, d>> kept in lowest terms with d >= 0.  d = 0     *)
(* encodes the non-finite doubles a division by zero produces:             *)
(* <<1, 0>> is +inf, <<-1, 0>> is -inf and <<0, 0>> is NaN.  Comparisons   *)
(* follow IEEE: every comparison with NaN is FALSE.  Rounding is not       *)
(* modelled: the inputs of the MC modules keep away from exact ties at a   *)
(* threshold, where the double result could round either way.            *)
(***************************************************************************)
EXTENDS Integers

RECURSIVE Gcd(_, _)
Gcd(a, b) == IF b = 0 THEN a ELSE Gcd(b, a % b)

AbsInt(a) == IF a < 0 THEN -a ELSE a
Sign(a) == IF a > 0 THEN 1 ELSE IF a < 0 THEN -1 ELSE 0

\* n / d in lowest terms; a zero denominator gives +inf, -inf or NaN.
Q(n, d) ==
    IF d = 0 THEN <<Sign(n), 0>>
    ELSE LET g == Gcd(AbsInt(n), AbsInt(d))
             s == Sign(d)
         IN  <<s * (n \div g), s * (d \div g)>>

Int2Q(n) == <<n, 1>>
Zero == <<0, 1>>
PosInf == <<1, 0>>
NaN == <<0, 0>>

IsFinite(a) == a[2] # 0
IsNaN(a) == a = NaN

QNeg(a) == <<-a[1], a[2]>>
QAbs(a) == <<AbsInt(a[1]), a[2]>>

\* Finite operands are combined over their least common denominator, and
\* products are cancelled crosswise first, so that intermediate values
\* stay small.
QAdd(a, b) ==
    IF IsFinite(a) /\ IsFinite(b)
    THEN LET g == Gcd(a[2], b[2])
         IN  Q(a[1] * (b[2] \div g) + b[1] * (a[2] \div g), (a[2] \div g) * b[2])
    ELSE IF IsNaN(a) \/ IsNaN(b) THEN NaN
    ELSE IF ~IsFinite(a) /\ ~IsFinite(b) /\ a # b THEN NaN
    ELSE IF ~IsFinite(a) THEN a ELSE b

QSub(a, b) == QAdd(a, QNeg(b))

FiniteMul(a, b) ==
    LET g1 == Gcd(AbsInt(a[1]), b[2])
        g2 == Gcd(AbsInt(b[1]), a[2])
    IN  Q((a[1] \div g1) * (b[1] \div g2), (a[2] \div g2) * (b[2] \div g1))

QMul(a, b) ==
    IF IsFinite(a) /\ IsFinite(b) THEN FiniteMul(a, b)
    ELSE <<Sign(a[1]) * Sign(b[1]), 0>>

\* IEEE division: x / 0 is +-inf for x # 0 and NaN for 0 / 0; inf / 0 keeps
\* the infinity, x / inf is 0, and NaN propagates.
QDiv(a, b) ==
    IF IsNaN(a) \/ IsNaN(b) THEN NaN
    ELSE IF IsFinite(a) /\ IsFinite(b)
    THEN IF b[1] = 0 THEN <<Sign(a[1]), 0>> ELSE FiniteMul(a, Q(b[2], b[1]))
    ELSE IF IsFinite(b) THEN IF b[1] = 0 THEN a ELSE <<Sign(a[1]) * Sign(b[1]), 0>>
    ELSE IF IsFinite(a) THEN Zero
    ELSE NaN

QLeq(a, b) ==
    /\ ~IsNaN(a) /\ ~IsNaN(b)
    /\ \/ a = b
       \/ IF IsFinite(a) /\ IsFinite(b) THEN QAdd(b, QNeg(a))[1] >= 0
          ELSE (~IsFinite(a) /\ a[1] < 0) \/ (~IsFinite(b) /\ b[1] > 0)

QLt(a, b) == QLeq(a, b) /\ a # b

QGeq(a, b) == QLeq(b, a)
QGt(a, b) == QLt(b, a)

\* std::min of two doubles: returns the first unless the second is smaller.
QMin(a, b) == IF QLt(b, a) THEN b ELSE a
=============================================================================
