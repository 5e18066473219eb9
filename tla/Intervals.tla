------------------------------ MODULE Intervals ------------------------------
(***************************************************************************)
(* C integer arithmetic and the interval grid of the frequency histogram,  *)
(* shared by ANALYZE (rangetypes_typanalyze.c) and by the two selectivity  *)
(* estimators (rangetypes_selfuncs.c, geo_selfuncs.c).                     *)
(***************************************************************************)
EXTENDS Integers

CONSTANTS
    IntMax,     \* INT_MAX: an int holds -IntMax-1 .. IntMax
    WeightInv   \* 1 / WEIGHT; the code has WEIGHT = 0.05, so 20

ASSUME IntMaxAssumption == IntMax \in Nat \ {0}
ASSUME WeightInvAssumption == WeightInv \in Nat \ {0}

Int32 == (-IntMax - 1) .. IntMax

(* Assignment of an out-of-range result to an int.  The server is built    *)
(* with -fwrapv, so signed arithmetic wraps instead of being undefined.    *)
Wrap(x) == ((x + IntMax + 1) % (2 * (IntMax + 1))) - IntMax - 1

(* A bound value is a Datum, an unsigned 64-bit word that holds the        *)
(* sign-extended int.  C converts the int operand of a mixed comparison to *)
(* unsigned, which puts every negative value above every non-negative one. *)
DatumLT(x, y) == IF (x < 0) = (y < 0) THEN x < y ELSE y < 0
DatumLE(x, y) == x = y \/ DatumLT(x, y)

(* Division and remainder of C, which truncate toward zero.  Only used     *)
(* with b # 0: the callers model the trap on zero.                         *)
Abs(x) == IF x < 0 THEN -x ELSE x
CDiv(a, b) == LET q == Abs(a) \div Abs(b)
              IN  IF (a < 0) = (b < 0) THEN q ELSE -q
CMod(a, b) == a - b * CDiv(a, b)

(* Mutant: a plain division, which rounds down.                            *)
roundDownDivision(numerator, divider) == CDiv(numerator, divider)

(* The quotient, plus one when the remainder is not zero.                  *)
roundUpDivision(numerator, divider) ==
    CDiv(numerator, divider) + (IF CMod(numerator, divider) # 0 THEN 1 ELSE 0)

(* A && B <=> NOT (A << B OR A >> B), on closed intervals.                 *)
IsInRange(challenge_low, challenge_up, low_bound, up_bound) ==
    ~ (challenge_up < low_bound \/ challenge_low > up_bound)

(* The int conversion of 1 + WEIGHT * length, second argument of the first *)
(* roundUpDivision of ComputeFrequencyHistogram: at most one interval per  *)
(* WEIGHT of the length.                                                   *)
WeightDivider(length) == CDiv(WeightInv + length, WeightInv)

(* The grid ANALYZE chooses for values spanning `length`.                  *)
NbOfIntervals(length) == roundUpDivision(length, WeightDivider(length))
IntervalLength(length) == roundUpDivision(length, NbOfIntervals(length))
=============================================================================
