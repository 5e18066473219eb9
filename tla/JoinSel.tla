------------------------------ MODULE JoinSel --------------------------------
(***************************************************************************)
(* rangeoverlapsjoinsel (geo_selfuncs.c): the planner's estimate for       *)
(* r1.a && r2.b from the statistics of both columns.  The code has two     *)
(* copies of each local, x_low and y_low, min_val1 and min_val2 and so on; *)
(* here they are functions of the side, 1 or 2.                            *)
(*                                                                         *)
(* The estimate is a sum of products freq_values1[x] * freq_values2[y]     *)
(* over the number of rows; the model keeps the set of pairs <<x, y>>      *)
(* added.  The number of intervals in the statistics is the one ANALYZE    *)
(* chose for the same two bounds (modules FreqHist and TypAnalyze).        *)
(***************************************************************************)
EXTENDS Intervals

Side == {1, 2}
Other(s) == 3 - s

(* ANALYZE stores a frequency histogram only when neither of its divisions *)
(* trapped.                                                                *)
GridExists(lowest, highest) ==
    LET length == Wrap(highest - lowest + 1)
    IN  WeightDivider(length) # 0 /\ NbOfIntervals(length) # 0

(* A call: the operator, and for each side whether the user may see the    *)
(* statistics, whether there are any, and the first lower and last upper   *)
(* bound value of the bounds histogram.                                    *)
CONSTANT Calls

ASSUME CallsAssumption ==
    \A c \in Calls :
        /\ c \in [overlap_op : BOOLEAN,
                  stats : [Side -> [tuple : BOOLEAN, histograms : BOOLEAN, secure : BOOLEAN,
                                    min : Int32, max : Int32]]]
        /\ \A s \in Side : GridExists(c.stats[s].min, c.stats[s].max)

VARIABLES
    pc, call,
    pins,               \* the sides whose statistics tuple is pinned
    low, high,          \* <<x_low, y_low>>, <<x_high, y_high>>
    min_val, max_val,   \* <<min_val1, min_val2>>, <<max_val1, max_val2>>
    idx, at,            \* computeSelectivity: the cursors, <<min1, min2>>
    visited             \* the pairs of intervals in the sum

locals == <<low, high, min_val, max_val, idx, at, visited>>
vars == <<pc, call, pins, low, high, min_val, max_val, idx, at, visited>>

min(s) == call.stats[s].min
max(s) == call.stats[s].max
length(s) == Wrap(max(s) - min(s) + 1)
freq_nb_intervals(s) == NbOfIntervals(length(s))
interval_length(s) == roundUpDivision(length(s), freq_nb_intervals(s))

Init ==
    /\ pc = "variables"
    /\ call \in Calls
    /\ pins = {}
    /\ low = [s \in Side |-> 0] /\ high = [s \in Side |-> 0]
    /\ min_val = [s \in Side |-> 0] /\ max_val = [s \in Side |-> 0]
    /\ idx = [s \in Side |-> 0] /\ at = [s \in Side |-> 0]
    /\ visited = {}
-----------------------------------------------------------------------------
(* rangeoverlapsjoinsel.                                                   *)

(* get_join_variables pins the statistics of both sides.                   *)
JoinVariables ==
    /\ pc = "variables"
    /\ pins' = {s \in Side : call.stats[s].tuple}
    /\ pc' = "checks"
    /\ UNCHANGED <<call, locals>>

(* The default estimate is returned, the pins are kept.                    *)
WrongOperator ==
    /\ pc = "checks"
    /\ ~call.overlap_op
    /\ pc' = "returned"
    /\ UNCHANGED <<call, pins, locals>>

Secure == \A s \in Side : call.stats[s].secure
HaveHistograms == \A s \in Side : call.stats[s].tuple /\ call.stats[s].histograms

(* statistic_proc_security_check fails: the same.                          *)
Insecure ==
    /\ pc = "checks"
    /\ call.overlap_op /\ ~Secure
    /\ pc' = "returned"
    /\ UNCHANGED <<call, pins, locals>>

(* No statistics on a side, or a histogram is missing.                     *)
NoHistograms ==
    /\ pc = "checks"
    /\ call.overlap_op /\ Secure /\ ~HaveHistograms
    /\ pins' = {}
    /\ pc' = "returned"
    /\ UNCHANGED <<call, locals>>

(* Disjoint columns keep the default estimate.                             *)
Disjoint ==
    /\ pc = "checks"
    /\ call.overlap_op /\ Secure /\ HaveHistograms
    /\ ~IsInRange(min(1), max(1), min(2), max(2))
    /\ pins' = {}
    /\ pc' = "returned"
    /\ UNCHANGED <<call, locals>>

(* rangeoverlapsjoinsel_inner is entered.                                  *)
Estimate ==
    /\ pc = "checks"
    /\ call.overlap_op /\ Secure /\ HaveHistograms
    /\ IsInRange(min(1), max(1), min(2), max(2))
    /\ low' = [s \in Side |-> 0]
    /\ high' = [s \in Side |-> freq_nb_intervals(s) - 1]
    /\ min_val' = [s \in Side |-> min(s)]
    /\ max_val' = [s \in Side |-> max(s)]
    /\ pc' = "low"
    /\ UNCHANGED <<call, pins, idx, at, visited>>
-----------------------------------------------------------------------------
(* The LOW loop: skip leading intervals of one side until the intervals at *)
(* x_low and y_low meet.                                                   *)

LowMeet == IsInRange(min_val[1], Wrap(min_val[1] + interval_length(1)),
                     min_val[2], Wrap(min_val[2] + interval_length(2)))

(* Interval low[s] is skipped; running out of intervals is an error.       *)
LowSkip(s) ==
    /\ min_val' = [min_val EXCEPT ![s] = Wrap(@ + interval_length(s))]
    /\ low' = [low EXCEPT ![s] = @ + 1]
    /\ pc' = IF \E t \in Side : low'[t] = freq_nb_intervals(t) THEN "lowerror" ELSE "low"

(* Mutant: the side that is further right is moved.                        *)
LowStepWrongSide(s) ==
    /\ pc = "low" /\ ~LowMeet
    /\ min_val[s] > min_val[Other(s)]
    /\ LowSkip(s)
    /\ UNCHANGED <<call, pins, high, max_val, idx, at, visited>>

(* The side that begins first is moved; intervals that begin together but  *)
(* do not meet are an error.                                               *)
LowStep(s) ==
    /\ pc = "low" /\ ~LowMeet
    /\ \/ min_val[s] < min_val[Other(s)] /\ LowSkip(s)
       \/ min_val[s] = min_val[Other(s)] /\ pc' = "lowerror" /\ UNCHANGED <<low, min_val>>
    /\ UNCHANGED <<call, pins, high, max_val, idx, at, visited>>

LowDone ==
    /\ pc = "low" /\ LowMeet
    /\ pc' = "high"
    /\ UNCHANGED <<call, pins, locals>>
-----------------------------------------------------------------------------
(* The HIGH loop: skip trailing intervals likewise.                        *)

HighMeet == IsInRange(Wrap(max_val[1] - interval_length(1)), max_val[1],
                      Wrap(max_val[2] - interval_length(2)), max_val[2])

(* Mutant: the interval after the one to drop is dropped with it.          *)
HighSkipTwo(s) ==
    /\ max_val' = [max_val EXCEPT ![s] = Wrap(@ - interval_length(s))]
    /\ high' = [high EXCEPT ![s] = @ - 2]
    /\ pc' = IF \E t \in Side : high'[t] = 0 THEN "higherror" ELSE "high"

(* Interval high[s] is skipped; reaching the first one is an error.        *)
HighSkip(s) ==
    /\ max_val' = [max_val EXCEPT ![s] = Wrap(@ - interval_length(s))]
    /\ high' = [high EXCEPT ![s] = @ - 1]
    /\ pc' = IF \E t \in Side : high'[t] = 0 THEN "higherror" ELSE "high"

HighStep(s) ==
    /\ pc = "high" /\ ~HighMeet
    /\ \/ max_val[s] > max_val[Other(s)] /\ HighSkip(s)
       \/ max_val[s] = max_val[Other(s)] /\ pc' = "higherror" /\ UNCHANGED <<high, max_val>>
    /\ UNCHANGED <<call, pins, low, min_val, idx, at, visited>>

HighDone ==
    /\ pc = "high" /\ HighMeet
    /\ idx' = [s \in Side |-> 0]
    /\ at' = min_val
    /\ pc' = "sum"
    /\ UNCHANGED <<call, pins, low, high, min_val, max_val, visited>>
-----------------------------------------------------------------------------
(* computeSelectivity on the intervals that are left.                      *)

size(s) == high[s] - low[s] + 1

(* The cursors of the sides in S move on.                                  *)
MoveOn(S) ==
    /\ idx' = [s \in Side |-> idx[s] + (IF s \in S THEN 1 ELSE 0)]
    /\ at' = [s \in Side |-> IF s \in S THEN Wrap(at[s] + interval_length(s)) ELSE at[s]]

(* Mutant: when they begin together only the first moves on.               *)
SumPairFirst ==
    /\ pc = "sum"
    /\ \A s \in Side : idx[s] < size(s)
    /\ visited' = visited \cup {<<low[1] + idx[1], low[2] + idx[2]>>}
    /\ MoveOn(IF at[1] <= at[2] THEN {1} ELSE {2})
    /\ UNCHANGED <<pc, call, pins, low, high, min_val, max_val>>
(* The side that begins first moves on, both when they begin together.     *)
SumPair ==
    /\ pc = "sum"
    /\ \A s \in Side : idx[s] < size(s)
    /\ visited' = visited \cup {<<low[1] + idx[1], low[2] + idx[2]>>}
    /\ MoveOn({s \in Side : at[s] <= at[Other(s)]})
    /\ UNCHANGED <<pc, call, pins, low, high, min_val, max_val>>

SumDone ==
    /\ pc = "sum"
    /\ \E s \in Side : idx[s] >= size(s)
    /\ pins' = {}
    /\ pc' = "returned"
    /\ UNCHANGED <<call, locals>>

Next == \/ JoinVariables \/ WrongOperator \/ Insecure \/ NoHistograms \/ Disjoint \/ Estimate
        \/ \E s \in Side : LowStep(s) \/ HighStep(s)
        \/ LowDone \/ HighDone
        \/ SumPair \/ SumDone

Ended == pc \in {"returned", "lowerror", "higherror"} /\ UNCHANGED vars

Spec == Init /\ [][Next \/ Ended]_vars /\ WF_vars(Next)
-----------------------------------------------------------------------------
(* Properties.                                                             *)

TypeOK ==
    /\ pc \in {"variables", "checks", "low", "high", "sum", "returned", "lowerror", "higherror"}
    /\ call \in Calls
    /\ pins \subseteq Side
    /\ low \in [Side -> Nat] /\ high \in [Side -> Int] /\ idx \in [Side -> Nat]
    /\ min_val \in [Side -> Int32] /\ max_val \in [Side -> Int32] /\ at \in [Side -> Int32]
    /\ visited \subseteq Nat \X Nat

(* Statistics of columns without infinite bounds, far enough from the ends *)
(* of the integers for the intervals around them not to wrap.              *)
Proper(s) ==
    /\ min(s) < max(s)
    /\ max(s) - min(s) + 1 <= IntMax
    /\ min(s) + freq_nb_intervals(s) * interval_length(s) <= IntMax
    /\ max(s) - freq_nb_intervals(s) * interval_length(s) >= -IntMax - 1
ProperColumns == \A s \in Side : Proper(s)

(* The LOW loop of rangeoverlapsjoinsel_inner never raises its errors:     *)
(* columns whose bounds overlap have intervals that meet.                  *)
LowFindsOverlap == ProperColumns => pc # "lowerror"

(* Both loops leave at least one interval on either side, so the estimate  *)
(* of columns that overlap is never an empty sum, and computeSelectivity   *)
(* only reads frequencies that are there.                                  *)
SumOverIntervals ==
    ProperColumns =>
        /\ pc = "sum" => \A s \in Side : 0 <= low[s] /\ low[s] <= high[s]
                                         /\ high[s] < freq_nb_intervals(s)
        /\ visited \subseteq (0 .. freq_nb_intervals(1) - 1) \X (0 .. freq_nb_intervals(2) - 1)

(* Columns with the same bounds: the products are those of each interval   *)
(* with itself.                                                            *)
SameGridDiagonal ==
    /\ ProperColumns /\ min(1) = min(2) /\ max(1) = max(2)
    /\ pc = "returned" /\ call.overlap_op /\ Secure /\ HaveHistograms
    => visited = {<<j, j>> : j \in 0 .. freq_nb_intervals(1) - 1}

=============================================================================
