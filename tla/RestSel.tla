------------------------------ MODULE RestSel --------------------------------
(***************************************************************************)
(* rangerestsel (rangetypes_selfuncs.c): the planner's estimate for        *)
(* var << const and var && const from the statistics of the column.        *)
(*                                                                         *)
(* A float8 is a fraction [num, den] with den >= 0, rounding left out; den *)
(* is 0 for an infinity, with the sign of num, and for NaN, where num is 0 *)
(* too.  The frequencies of a call are multiples of 1/unit, or not finite; *)
(* the model keeps the set of intervals added to the sum.  The number of   *)
(* intervals is the one ANALYZE chose for the same two bounds (modules     *)
(* FreqHist and TypAnalyze).                                               *)
(***************************************************************************)
EXTENDS Intervals, Functions

Left == "<<"
Overlap == "&&"

(* A call: the operator; whether the clause has a variable, whether the    *)
(* other side is a constant of its type to the right of it, and that       *)
(* constant; the pg_statistic tuple of the variable, and whether the user  *)
(* may see it.  An infinite bound, of a constant or of the column, has the *)
(* value 0, as range_deserialize leaves it: min may be above max.          *)
CONSTANT Calls

(* The length ANALYZE divided, and the intervals it stored.                *)
Stretch(c) == Wrap(c.max - c.min + 1)
Interval(c) == 0 .. NbOfIntervals(Stretch(c)) - 1

(* Any pair of bounds for which ANALYZE lives to store statistics (see     *)
(* ChooseGrid of FreqHist).  A row with two equal bound values, such as    *)
(* [0, infinity), is divided by zero, and the frequencies it is added to   *)
(* are not finite.                                                         *)

CallOK(c) ==
    /\ c.operator \in {Left, Overlap, "other"}
    /\ c.variable \in BOOLEAN /\ c.usable \in BOOLEAN /\ c.empty \in BOOLEAN
    /\ c.tuple \in BOOLEAN /\ c.histograms \in BOOLEAN /\ c.secure \in BOOLEAN
    /\ c.lower \in Int32 /\ c.upper \in Int32
    /\ c.min \in Int32 /\ c.max \in Int32
    /\ WeightDivider(Stretch(c)) # 0 /\ NbOfIntervals(Stretch(c)) \in Nat \ {0}
    /\ c.rows \in Nat \ {0} /\ c.unit \in Nat \ {0}
    /\ c.freq \in [Interval(c) -> Int] /\ c.nonfinite \subseteq Interval(c)

ASSUME CallsAssumption == \A c \in Calls : CallOK(c)

VARIABLES
    pc, call,
    pinned,     \* the statistics tuple is pinned
    i, out,     \* the locals of rangerestsel_inner
    added,      \* the intervals in sum
    selec       \* the estimate

locals == <<i, out, added>>
vars == <<pc, call, pinned, i, out, added, selec>>

freq_nb_intervals1 == NbOfIntervals(Stretch(call))
interval_length1 == roundUpDivision(Wrap(call.max - call.min), freq_nb_intervals1)
x(j) == Wrap(call.min + j * interval_length1)
y(j) == Wrap(call.min + (j + 1) * interval_length1)
a == call.lower
b == call.upper

Fraction(n, d) == [num |-> n, den |-> d]
Quotient(n, d) == IF d < 0 THEN Fraction(-n, -d) ELSE Fraction(n, d)
Times(s, t) == Fraction(s.num * t.num, s.den * t.den)
Default == Fraction(1, 200)

(* DEFAULT_INEQ_SEL is 0.3333333333333333.                                 *)
default_range_selectivity(operator) ==
    IF operator = Overlap THEN Fraction(1, 100) ELSE Fraction(1, 3)

Init ==
    /\ pc = "start"
    /\ call \in Calls
    /\ pinned = FALSE
    /\ i = 0 /\ out = 0 /\ added = {}
    /\ selec = Default
-----------------------------------------------------------------------------
(* rangerestsel up to the call of rangerestsel_inner.                      *)

(* PG_RETURN_FLOAT8(s), with or without ReleaseVariableStats before it.    *)
ReturnReleased(s) ==
    pc' = "returned" /\ selec' = s /\ pinned' = FALSE /\ UNCHANGED <<call, locals>>
ReturnPinned(s) ==
    pc' = "returned" /\ selec' = s /\ UNCHANGED <<call, pinned, locals>>

WrongOperator ==
    /\ pc = "start"
    /\ call.operator \notin {Left, Overlap}
    /\ ReturnPinned(Default)

(* get_restriction_variable finds none, and has pinned nothing.            *)
NoVariable ==
    /\ pc = "start"
    /\ call.operator \in {Left, Overlap} /\ ~call.variable
    /\ ReturnPinned(default_range_selectivity(call.operator))

RestrictionVariable ==
    /\ pc = "start"
    /\ call.operator \in {Left, Overlap} /\ call.variable
    /\ pinned' = call.tuple
    /\ pc' = "checks"
    /\ UNCHANGED <<call, locals, selec>>

(* Not a constant, NULL, on the left of the variable or of another type.   *)
(* The default is the one of <<, whichever the operator.                   *)
NotUsable ==
    /\ pc = "checks"
    /\ ~call.usable
    /\ ReturnReleased(default_range_selectivity(Left))

EmptyConstant ==
    /\ pc = "checks"
    /\ call.usable /\ call.empty
    /\ ReturnReleased(Fraction(0, 1))

(* statistic_proc_security_check fails.                                    *)
Insecure ==
    /\ pc = "checks"
    /\ call.usable /\ ~call.empty /\ ~call.secure
    /\ ReturnPinned(Default)

NoHistograms ==
    /\ pc = "checks"
    /\ call.usable /\ ~call.empty /\ call.secure
    /\ ~ (call.tuple /\ call.histograms)
    /\ ReturnReleased(Default)

Estimate ==
    /\ pc = "checks"
    /\ call.usable /\ ~call.empty /\ call.secure
    /\ call.tuple /\ call.histograms
    /\ pc' = IF call.operator = Left THEN "left" ELSE "overlap"
    /\ UNCHANGED <<call, pinned, locals, selec>>
-----------------------------------------------------------------------------
(* rangerestsel_inner.                                                     *)

InRange(j) == IsInRange(x(j), y(j), a, b)

Add ==
    /\ added' = added \cup {i}
    /\ i' = i + 1
    /\ UNCHANGED <<call, pinned, selec>>

(* Mutant: the interval the constant begins in is added before the break.  *)
LeftStepLate ==
    /\ pc = "left"
    /\ i < freq_nb_intervals1
    /\ pc' = IF InRange(i) THEN "sum" ELSE "left"
    /\ Add
    /\ UNCHANGED out

(* case OID_RANGE_LEFT_OP: the intervals before the constant.              *)
LeftStep ==
    /\ pc = "left"
    /\ i < freq_nb_intervals1 /\ ~InRange(i)
    /\ Add
    /\ UNCHANGED <<pc, out>>

LeftDone ==
    /\ pc = "left"
    /\ i >= freq_nb_intervals1 \/ InRange(i)
    /\ pc' = "sum"
    /\ UNCHANGED <<call, pinned, locals, selec>>

(* case OID_RANGE_OVERLAP_OP: the intervals that meet the constant.        *)
OverlapStep ==
    /\ pc = "overlap"
    /\ i < freq_nb_intervals1 /\ InRange(i)
    /\ out' = out + 1
    /\ Add
    /\ UNCHANGED pc

OverlapSkip ==
    /\ pc = "overlap"
    /\ i < freq_nb_intervals1 /\ ~InRange(i) /\ out = 0
    /\ i' = i + 1
    /\ UNCHANGED <<pc, call, pinned, out, added, selec>>

(* Mutant: the break does not wait for the first overlap.                  *)
OverlapDoneEager ==
    /\ pc = "overlap"
    /\ i >= freq_nb_intervals1 \/ ~InRange(i)
    /\ pc' = "sum"
    /\ UNCHANGED <<call, pinned, locals, selec>>

OverlapDone ==
    /\ pc = "overlap"
    /\ i >= freq_nb_intervals1 \/ (~InRange(i) /\ out # 0)
    /\ pc' = "sum"
    /\ UNCHANGED <<call, pinned, locals, selec>>

freq_values1(j) == Fraction(call.freq[j], IF j \in call.nonfinite THEN 0 ELSE call.unit)

(* Terms that are infinite with one sign make the sum infinite, any other  *)
(* terms that are not finite make it NaN.                                  *)
sum ==
    LET odd == added \cap call.nonfinite
        Sign(n) == \A j \in odd : n * call.freq[j] > 0
    IN  IF odd = {} THEN Fraction(SumFunctionOnSet(call.freq, added), call.unit)
        ELSE Fraction(IF Sign(1) THEN 1 ELSE IF Sign(-1) THEN -1 ELSE 0, 0)

(* selec = sum / rows1.  A sum below one of << is replaced by a share of   *)
(* the first frequency; the length that divides a can be zero or negative  *)
(* when a bound of the column is infinite or their distance wraps.         *)
Share ==
    Times(IF call.operator = Left /\ sum.num < sum.den
          THEN Times(freq_values1(0), Quotient(a, interval_length1))
          ELSE sum,
          Fraction(1, call.rows))

(* Mutant: only values above one are clamped.                              *)
ClampHigh(s) == IF s.num > s.den THEN Fraction(1, 1) ELSE s

(* CLAMP_PROBABILITY.  Neither comparison is true of NaN.                  *)
Clamp(s) == IF s.num < 0 THEN Fraction(0, 1)
            ELSE IF s.num > s.den THEN Fraction(1, 1) ELSE s

Sum ==
    /\ pc = "sum"
    /\ ReturnReleased(Clamp(Share))

Next == \/ WrongOperator \/ NoVariable \/ RestrictionVariable
        \/ NotUsable \/ EmptyConstant \/ Insecure \/ NoHistograms \/ Estimate
        \/ LeftStep \/ LeftDone
        \/ OverlapStep \/ OverlapSkip \/ OverlapDone
        \/ Sum

Ended == pc = "returned" /\ UNCHANGED vars

Spec == Init /\ [][Next \/ Ended]_vars /\ WF_vars(Next)
-----------------------------------------------------------------------------
(* Properties.                                                             *)

TypeOK ==
    /\ pc \in {"start", "checks", "left", "overlap", "sum", "returned"}
    /\ CallOK(call)
    /\ pinned \in BOOLEAN
    /\ i \in Nat /\ out \in Nat
    /\ added \subseteq Interval(call)
    /\ selec \in [num : Int, den : Nat]

(* The bounds are in order, as those of every bounded column are, and      *)
(* neither their distance nor the planner's intervals wrap.                *)
NoWrap ==
    /\ call.min < call.max /\ call.max - call.min < IntMax
    /\ call.min + (freq_nb_intervals1 + 1) * interval_length1 <= IntMax

(* The statistics were used.                                               *)
Estimated ==
    /\ pc = "returned"
    /\ call.operator \in {Left, Overlap} /\ call.variable /\ call.usable /\ ~call.empty
    /\ call.secure /\ call.tuple /\ call.histograms

(* rangerestsel_inner, &&, on a bounded column: leaving the loop at the    *)
(* first interval past the constant loses nothing, the sum is over every   *)
(* interval that meets it.                                                 *)
OverlapComplete ==
    Estimated /\ call.operator = Overlap /\ NoWrap /\ a <= b =>
        added = {j \in Interval(call) : InRange(j)}

(* rangerestsel_inner, <<, on a bounded column: unless the constant ends   *)
(* before the column begins, the sum is over the intervals that end before *)
(* it.                                                                     *)
LeftPrefix ==
    Estimated /\ call.operator = Left /\ NoWrap /\ a <= b /\ b >= call.min =>
        added = {j \in Interval(call) : y(j) < a}

(* rangerestsel, CLAMP_PROBABILITY: the estimate is between zero and one   *)
(* (restriction_selectivity in plancat.c raises an error for less and for  *)
(* more), or it is NaN; and NaN only comes from statistics that have a     *)
(* frequency that is not finite, or bounds at which the planner's          *)
(* intervals have length zero.                                             *)
Probability ==
    pc = "returned" =>
        /\ 0 <= selec.num /\ selec.num <= selec.den
        /\ selec.den = 0 => call.nonfinite # {} \/ interval_length1 = 0

=============================================================================
