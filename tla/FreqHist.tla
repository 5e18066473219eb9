------------------------------ MODULE FreqHist -------------------------------
(***************************************************************************)
(* ComputeFrequencyHistogram and its sweep count_frequencies               *)
(* (rangetypes_typanalyze.c).  The caller passes the bound values of the   *)
(* histogram ranges, lowers and uppers each in ascending order; the sweep  *)
(* walks the intervals from left to right with two cursors: rows below u   *)
(* have ended, rows from l on have not begun.                              *)
(*                                                                         *)
(* The float count of an interval is a sum of fractions                    *)
(* mult / (uppers[k] - lowers[k]), at most one for each row k.  The model  *)
(* keeps the numerators: count[k] is the mult that row k added, 0 when it  *)
(* added none.  Rounding of the float sum is left out.                     *)
(***************************************************************************)
EXTENDS Intervals, Functions

CONSTANT Inputs  \* the calls: records [rows, lowers, uppers]

ASSUME InputsAssumption ==
    \A c \in Inputs : /\ c.rows \in Nat \ {0}
                      /\ c.lowers \in [0 .. c.rows - 1 -> Int32]
                      /\ c.uppers \in [0 .. c.rows - 1 -> Int32]

VARIABLES
    fpc,                    \* the point the sweep has reached
    rows, lowers, uppers,   \* the parameters
    nb_of_intervals, interval_length,
    fi, l, u, k, sup,       \* the locals of count_frequencies
    count,                  \* numerators added to the current interval
    freq                    \* normalized_frequencies_vals, as numerators

params == <<rows, lowers, uppers>>
geometry == <<nb_of_intervals, interval_length>>
freqVars == <<fpc, rows, lowers, uppers, nb_of_intervals, interval_length,
              fi, l, u, k, sup, count, freq>>

Rows == 0 .. rows - 1
min == lowers[0]
max == uppers[rows - 1]

(* The state in which ComputeFrequencyHistogram is entered.                *)
FreqInit ==
    /\ fpc = "geometry"
    /\ \E c \in Inputs : rows = c.rows /\ lowers = c.lowers /\ uppers = c.uppers
    /\ nb_of_intervals = 0 /\ interval_length = 0
    /\ fi = 0 /\ l = 0 /\ u = 0 /\ k = 0 /\ sup = 0
    /\ count = <<>> /\ freq = <<>>

(* The prologue of ComputeFrequencyHistogram: the grid.  Either division   *)
(* may have a zero divider, and then the backend gets SIGFPE.              *)
ChooseGrid(lowest, highest) ==
    LET length == Wrap(highest - lowest + 1) IN
    IF WeightDivider(length) = 0 \/ NbOfIntervals(length) = 0
    THEN /\ fpc' = "sigfpe"
         /\ UNCHANGED <<nb_of_intervals, interval_length, sup>>
    ELSE /\ fpc' = "interval"
         /\ nb_of_intervals' = NbOfIntervals(length)
         /\ interval_length' = IntervalLength(length)
         /\ sup' = Wrap(lowest - 1)

Geometry ==
    /\ fpc = "geometry"
    /\ ChooseGrid(min, max)
    /\ UNCHANGED <<params, fi, l, u, k, count, freq>>

(* Head of the for loop over the intervals.                                *)
NextInterval ==
    /\ fpc = "interval"
    /\ fi < nb_of_intervals
    /\ count' = [r \in Rows |-> 0]
    /\ sup' = Wrap(sup + interval_length)
    /\ k' = u
    /\ fpc' = "carry"
    /\ UNCHANGED <<params, geometry, fi, l, u, freq>>

(* Mutants: no partial count for a row that ends in the interval; the loop *)
(* over the carried rows runs one row too far.                             *)
CarriedMultWhole(r) == interval_length
CarryRowTooFar ==
    /\ fpc = "carry"
    /\ k <= l
    /\ k' = k + 1
    /\ UNCHANGED <<fpc, params, geometry, fi, l, u, sup, count, freq>>

(* A row that began in an earlier interval and has not ended before this.  *)
CarriedMult(r) ==
    IF DatumLT(uppers[r], sup)
    THEN Wrap(uppers[r] - (sup - interval_length + 1))
    ELSE interval_length

CarryRow ==
    /\ fpc = "carry"
    /\ k < l
    /\ count' = [count EXCEPT ![k] = CarriedMult(k)]
    /\ k' = k + 1
    /\ UNCHANGED <<fpc, params, geometry, fi, l, u, sup, freq>>

CarryDone ==
    /\ fpc = "carry"
    /\ k >= l
    /\ fpc' = "enter"
    /\ UNCHANGED <<params, geometry, fi, l, u, k, sup, count, freq>>

(* Mutant: the first value of the row is not counted.                      *)
EnteredMultShort(r) ==
    IF DatumLE(sup, uppers[r]) THEN Wrap(sup - lowers[r]) ELSE Wrap(uppers[r] - lowers[r])

(* A row that begins in this interval.                                     *)
EnteredMult(r) ==
    IF DatumLE(sup, uppers[r])
    THEN Wrap(1 + sup - lowers[r])
    ELSE Wrap(uppers[r] - lowers[r])

EnterRow ==
    /\ fpc = "enter"
    /\ l < rows
    /\ lowers[l] <= sup
    /\ count' = [count EXCEPT ![l] = EnteredMult(l)]
    /\ l' = l + 1
    /\ UNCHANGED <<fpc, params, geometry, fi, u, k, sup, freq>>

(* The loop condition reads lowers[l] before it tests l < rows; the value  *)
(* read past the end cannot change the outcome.                            *)
EnterDone ==
    /\ fpc = "enter"
    /\ l < rows => lowers[l] > sup
    /\ freq' = [j \in 0 .. fi |-> IF j = fi THEN count ELSE freq[j]]
    /\ fpc' = "retire"
    /\ UNCHANGED <<params, geometry, fi, l, u, k, sup, count>>

(* Mutant: a row is retired one value early.                               *)
RetireRowEarly ==
    /\ fpc = "retire"
    /\ u < rows
    /\ uppers[u] <= Wrap(sup + 2)
    /\ u' = u + 1
    /\ UNCHANGED <<fpc, params, geometry, fi, l, k, sup, count, freq>>
(* A row that ends in this interval or right at its end.                   *)
RetireRow ==
    /\ fpc = "retire"
    /\ u < rows
    /\ uppers[u] <= Wrap(sup + 1)
    /\ u' = u + 1
    /\ UNCHANGED <<fpc, params, geometry, fi, l, k, sup, count, freq>>

RetireDone ==
    /\ fpc = "retire"
    /\ u < rows => uppers[u] > Wrap(sup + 1)
    /\ fi' = fi + 1
    /\ fpc' = "interval"
    /\ UNCHANGED <<params, geometry, l, u, k, sup, count, freq>>

(* The loop is over; the caller stores freq in the statistics slot.        *)
Finish ==
    /\ fpc = "interval"
    /\ fi >= nb_of_intervals
    /\ fpc' = "done"
    /\ UNCHANGED <<params, geometry, fi, l, u, k, sup, count, freq>>

FreqNext == \/ Geometry \/ NextInterval \/ CarryRow \/ CarryDone
            \/ EnterRow \/ EnterDone \/ RetireRow \/ RetireDone \/ Finish

Returned == fpc \in {"done", "sigfpe"} /\ UNCHANGED freqVars

FreqSpec == FreqInit /\ [][FreqNext \/ Returned]_freqVars /\ WF_freqVars(FreqNext)
-----------------------------------------------------------------------------
(* Properties.                                                             *)

FreqTypeOK ==
    /\ fpc \in {"geometry", "interval", "carry", "enter", "retire", "done", "sigfpe"}
    /\ rows \in Nat \ {0}
    /\ lowers \in [Rows -> Int32] /\ uppers \in [Rows -> Int32]
    /\ nb_of_intervals \in Int /\ interval_length \in Int
    /\ fi \in Nat /\ l \in 0 .. rows /\ u \in 0 .. rows /\ k \in 0 .. rows
    /\ sup \in Int32
    /\ fpc \in {"carry", "enter", "retire"} => count \in [Rows -> Int]
    /\ freq \in [0 .. (IF fpc = "retire" THEN fi ELSE fi - 1) -> [Rows -> Int]]

(* The arguments ComputeFrequencyHistogram gets for a column without       *)
(* infinite bounds: both arrays ascending, and each row a non-empty range. *)
Ordered ==
    /\ \A r, s \in Rows : r <= s => lowers[r] <= lowers[s] /\ uppers[r] <= uppers[s]
    /\ \A r \in Rows : lowers[r] < uppers[r]

(* The last value of sup plus one is still an int, so nothing wraps.       *)
Length == max - min + 1
FreqNoWrap == /\ Length <= IntMax
              /\ min > -IntMax - 1
              /\ min - 1 + NbOfIntervals(Length) * IntervalLength(Length) < IntMax

(* The values of the half-open row r in the interval that ends at s.       *)
Least(x, y) == IF x <= y THEN x ELSE y
Greatest(x, y) == IF x >= y THEN x ELSE y
Shared(r, s) ==
    Greatest(0, Least(uppers[r], s + 1) - Greatest(lowers[r], s - interval_length + 1))

(* The row's upper bound is exclusive, but when it equals the end of the   *)
(* interval the code counts that value too (unless the row was retired     *)
(* before, which is so when intervals hold one value).                     *)
UpperCounted(r, s) == IF uppers[r] = s /\ interval_length > 1 THEN 1 ELSE 0

Sup(j) == min - 1 + (j + 1) * interval_length

(* count_frequencies: the two-cursor sweep gives every finished interval   *)
(* what comparing it with every row would give: the number of values of    *)
(* the row inside it, plus the value at an upper bound that coincides with *)
(* its end.  Holds for columns without negative values, whose Datum        *)
(* comparisons agree with the integer ones.                                *)
SweepExact ==
    Ordered /\ FreqNoWrap /\ min >= 0 =>
        \A j \in DOMAIN freq, r \in Rows :
            freq[j][r] = Shared(r, Sup(j)) + UpperCounted(r, Sup(j))

(* count_frequencies: with negative values the unsigned comparisons choose *)
(* the wrong branch, but never one that misses a value of a row.           *)
NeverUndercounts ==
    Ordered /\ FreqNoWrap =>
        \A j \in DOMAIN freq, r \in Rows : freq[j][r] >= Shared(r, Sup(j))

(* ComputeFrequencyHistogram: on such a column the grid exists (neither    *)
(* division traps) and covers it: when the sweep ends every row has been   *)
(* entered and retired.                                                    *)
GridCovers ==
    Ordered /\ FreqNoWrap =>
        /\ fpc # "sigfpe"
        /\ fpc = "done" => l = rows /\ u = rows

(* count_frequencies: over all the intervals a row adds its own length,    *)
(* plus one when its upper bound is the end of an interval of more than    *)
(* one value: it weighs one in the histogram, or 1 + 1/length.             *)
Mass(r) == SumFunction([j \in DOMAIN freq |-> freq[j][r]])
RowMass ==
    fpc = "done" /\ Ordered /\ FreqNoWrap /\ min >= 0 =>
        \A r \in Rows :
            Mass(r) = uppers[r] - lowers[r]
                      + (IF \E j \in DOMAIN freq : UpperCounted(r, Sup(j)) = 1 THEN 1 ELSE 0)

(* The inductive invariant behind the four properties above.  Between     *)
(* intervals the cursors split the rows at the end of the last interval;   *)
(* inside one, the counts added so far are the right ones.                 *)
CountOK(r, s, c) ==
    /\ c >= Shared(r, s)
    /\ min >= 0 => c = Shared(r, s) + UpperCounted(r, s)

LowerCursor(s) == \A r \in Rows : r < l <=> lowers[r] <= s
UpperCursor(s) == \A r \in Rows : r < u <=> uppers[r] <= s + 1

GridChosen ==
    /\ nb_of_intervals = NbOfIntervals(Length)
    /\ interval_length = IntervalLength(Length)

AtGeometry == fi = 0 /\ l = 0 /\ u = 0 /\ DOMAIN freq = {}

AtInterval ==
    /\ fi <= nb_of_intervals
    /\ sup = Sup(fi - 1)
    /\ LowerCursor(sup) /\ UpperCursor(sup)
    /\ DOMAIN freq = 0 .. fi - 1

InInterval ==
    /\ fi < nb_of_intervals
    /\ sup = Sup(fi)

AtCarry ==
    /\ InInterval
    /\ LowerCursor(sup - interval_length) /\ UpperCursor(sup - interval_length)
    /\ u <= k /\ k <= l
    /\ \A r \in Rows : IF r \in u .. k - 1 THEN CountOK(r, sup, count[r]) ELSE count[r] = 0
    /\ DOMAIN freq = 0 .. fi - 1

AtEnter ==
    /\ InInterval
    /\ UpperCursor(sup - interval_length)
    /\ \A r \in Rows : IF r < l THEN lowers[r] <= sup ELSE lowers[r] > sup - interval_length
    /\ \A r \in Rows : IF r < l THEN CountOK(r, sup, count[r]) ELSE count[r] = 0
    /\ DOMAIN freq = 0 .. fi - 1

AtRetire ==
    /\ InInterval
    /\ LowerCursor(sup)
    /\ \A r \in Rows : IF r < u THEN uppers[r] <= sup + 1
                                  ELSE uppers[r] > sup - interval_length + 1
    /\ DOMAIN freq = 0 .. fi

SweepInv ==
    Ordered /\ FreqNoWrap =>
        /\ fpc # "sigfpe"
        /\ fpc = "geometry" => AtGeometry
        /\ fpc # "geometry" => GridChosen
        /\ fpc \in {"interval", "done"} => AtInterval
        /\ fpc = "carry" => AtCarry
        /\ fpc = "enter" => AtEnter
        /\ fpc = "retire" => AtRetire
        /\ fpc = "done" => fi = nb_of_intervals
        /\ \A j \in DOMAIN freq, r \in Rows : CountOK(r, Sup(j), freq[j][r])

=============================================================================
