--------------------------- MODULE AnalyzeEstimate ---------------------------
(***************************************************************************)
(* ANALYZE and then the planner: the frequency histogram of a column       *)
(* (FreqHist) is what rangerestsel (RestSel) finds in pg_statistic, along  *)
(* with the first lower and the last upper bound of the bounds histogram.  *)
(* The calls of rangerestsel are those Plan makes, none of Calls.  The     *)
(* fractions of Stored are those of a column of bounded ranges.            *)
(***************************************************************************)
EXTENDS FreqHist, RestSel

CONSTANT Constants   \* constants of clauses: pairs of bound values

ASSUME ConstantsAssumption ==
    \A c \in Constants : c[1] \in Int32 /\ c[2] \in Int32 /\ c[1] <= c[2]

(* The frequencies with the product of the row lengths as denominator.     *)
Width(r) == uppers[r] - lowers[r]
Unit == LET product[n \in 0 .. rows] == IF n = 0 THEN 1 ELSE product[n - 1] * Width(n - 1)
        IN  product[rows]
Stored(j) == SumFunction([r \in Rows |-> freq[j][r] * (Unit \div Width(r))])

EstimateInit ==
    /\ FreqInit
    /\ pc = "idle" /\ call = <<>> /\ pinned = FALSE
    /\ i = 0 /\ out = 0 /\ added = {} /\ selec = Default

AnalyzeStep ==
    /\ FreqNext
    /\ UNCHANGED vars

(* A query on the analyzed column.                                         *)
Plan ==
    /\ fpc = "done" /\ pc = "idle"
    /\ \E op \in {Left, Overlap}, c \in Constants :
          call' = [operator |-> op, variable |-> TRUE, usable |-> TRUE, empty |-> FALSE,
                   tuple |-> TRUE, histograms |-> TRUE, secure |-> TRUE,
                   lower |-> c[1], upper |-> c[2], min |-> lowers[0], max |-> uppers[rows - 1],
                   rows |-> rows, unit |-> Unit,
                   freq |-> [j \in DOMAIN freq |-> Stored(j)], nonfinite |-> {}]
    /\ pc' = "start"
    /\ UNCHANGED <<freqVars, pinned, i, out, added, selec>>

EstimateStep ==
    /\ Next
    /\ UNCHANGED freqVars

EstimateNext == AnalyzeStep \/ Plan \/ EstimateStep

EstimateEnded == pc = "returned" /\ UNCHANGED <<freqVars, vars>>

EstimateSpec ==
    /\ EstimateInit /\ [][EstimateNext \/ EstimateEnded]_<<freqVars, vars>>
    /\ WF_<<freqVars, vars>>(EstimateNext)
-----------------------------------------------------------------------------
(* Properties.                                                             *)

(* rangerestsel divides the span of the column where ANALYZE divided its   *)
(* length, one more.  The two grids are nevertheless the same unless the   *)
(* number of intervals divides the span.                                   *)
SameGrid == interval_length1 = interval_length

Answered == Estimated /\ Ordered /\ FreqNoWrap /\ NoWrap

(* && is never estimated to select nothing when a histogram range of the   *)
(* column does overlap the constant.                                       *)
NoFalseZero ==
    /\ Answered /\ call.operator = Overlap /\ SameGrid
    /\ \E r \in Rows : lowers[r] < call.upper /\ call.lower < uppers[r]
    => selec.num > 0

(* A constant around the whole column overlaps every row and one beyond    *)
(* its last interval has every row on its left: the estimate is one.       *)
CertainClauses ==
    /\ Answered
    /\ \/ call.operator = Overlap /\ call.lower <= call.min /\ call.max <= call.upper
       \/ call.operator = Left /\ call.lower > y(nb_of_intervals - 1)
    => selec.num = selec.den /\ selec.den # 0
=============================================================================
