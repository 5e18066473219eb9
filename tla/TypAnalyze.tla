----------------------------- MODULE TypAnalyze ------------------------------
(***************************************************************************)
(* compute_range_stats (rangetypes_typanalyze.c): ANALYZE of one range     *)
(* column.  It scans the sample, sorts the lower and the upper bounds      *)
(* independently, picks evenly spaced bounds and lengths for two           *)
(* histograms, and ends with ComputeFrequencyHistogram (module FreqHist).  *)
(*                                                                         *)
(* The subtype is an integer, as for int4range.  Widths (stawidth),        *)
(* stadistinct and the memory contexts are left out.                       *)
(***************************************************************************)
EXTENDS RangeBounds, Intervals, FiniteSets

CONSTANTS
    Null,           \* a NULL of the column
    Samples,        \* the samples: records [samplerows, value]
    Targets,        \* attstattarget of the column, negative when not set
    DefaultTarget,  \* default_statistics_target
    Garbage         \* what reading an uninitialized bound value may give

(* What range_serialize stores: a non-empty range has a value between its  *)
(* bounds, and an absent bound has no value.                               *)
RangeValue ==
    {v \in [empty : BOOLEAN, lower : RangeBound, upper : RangeBound] :
        ~v.empty => /\ v.lower.lower /\ ~v.upper.lower
                    /\ range_cmp_bounds(v.lower, v.upper) <= 0
                    /\ v.lower.val \in Int32 /\ v.upper.val \in Int32
                    /\ v.lower = StoredBound(v.lower) /\ v.upper = StoredBound(v.upper)}

(* A target of zero keeps do_analyze_rel from analyzing the column, and it *)
(* calls compute_stats only for a sample that is not empty.                *)
ASSUME TargetsAssumption == DefaultTarget \in Nat \ {0} /\ Targets \subseteq Int \ {0}
ASSUME NullAssumption == Null \notin RangeValue
ASSUME SamplesAssumption ==
    \A s \in Samples : /\ s.samplerows \in Nat \ {0}
                       /\ DOMAIN s.value = 0 .. s.samplerows - 1
                       /\ \A r \in DOMAIN s.value :
                             s.value[r] # Null => s.value[r] \in RangeValue
ASSUME GarbageAssumption == Garbage \subseteq Int32

VARIABLES
    pc,
    samplerows, sample, num_bins, has_subdiff,      \* the arguments
    range_no, null_cnt, empty_cnt, non_empty_cnt,
    lowers, uppers, lengths,        \* of the non-empty ranges
    num_hist, i, pos, posfrac,      \* the two histogram loops
    temp_lowers, temp_uppers,       \* the bounds picked
    hist,                           \* bound_hist_values, length_hist_values
    stats_valid, stanullfrac, slot_idx, slots,      \* filled in VacAttrStats
    fpc, frows, flowers, fuppers, nb_of_intervals, interval_length,
    fi, fl, fu, fk, sup, count, freq                \* the call of FreqHist

FH == INSTANCE FreqHist WITH
          Inputs <- {}, rows <- frows, lowers <- flowers, uppers <- fuppers,
          l <- fl, u <- fu, k <- fk

input == <<samplerows, sample, num_bins, has_subdiff>>
scanned == <<range_no, null_cnt, empty_cnt, non_empty_cnt>>
loop == <<num_hist, i, pos, posfrac, hist>>
temps == <<temp_lowers, temp_uppers>>
slotvars == <<slot_idx, slots>>
stats == <<stats_valid, stanullfrac, slotvars>>
fvars == <<fpc, frows, flowers, fuppers, nb_of_intervals, interval_length,
           fi, fl, fu, fk, sup, count, freq>>
vars == <<pc, input, scanned, lowers, uppers, lengths, loop, temps, stats, fvars>>

(* An array with one more element, f holding the elements before n.        *)
Put(f, n, v) == [j \in 0 .. n |-> IF j = n THEN v ELSE f[j]]

non_null_cnt == empty_cnt + non_empty_cnt

(* range_typanalyze: the target compute_range_stats finds in the column.   *)
AttStatTarget(t) == IF t < 0 THEN DefaultTarget ELSE t

Init ==
    /\ pc = "scan"
    /\ \E s \in Samples : samplerows = s.samplerows /\ sample = s.value
    /\ \E t \in Targets : num_bins = AttStatTarget(t)
    /\ has_subdiff \in BOOLEAN
    /\ range_no = 0 /\ null_cnt = 0 /\ empty_cnt = 0 /\ non_empty_cnt = 0
    /\ lowers = <<>> /\ uppers = <<>> /\ lengths = <<>>
    /\ num_hist = 0 /\ i = 0 /\ pos = 0 /\ posfrac = 0 /\ hist = <<>>
    /\ temp_lowers = <<>> /\ temp_uppers = <<>>
    /\ stats_valid = FALSE /\ stanullfrac = <<0, 1>> /\ slot_idx = 0 /\ slots = <<>>
    /\ fpc = "idle" /\ frows = 0 /\ flowers = <<>> /\ fuppers = <<>>
    /\ nb_of_intervals = 0 /\ interval_length = 0
    /\ fi = 0 /\ fl = 0 /\ fu = 0 /\ fk = 0 /\ sup = 0 /\ count = <<>> /\ freq = <<>>
-----------------------------------------------------------------------------
(* The loop over the sample.                                               *)

ScanNull ==
    /\ pc = "scan" /\ range_no < samplerows
    /\ sample[range_no] = Null
    /\ null_cnt' = null_cnt + 1
    /\ range_no' = range_no + 1
    /\ UNCHANGED <<pc, input, empty_cnt, non_empty_cnt, lowers, uppers, lengths,
                   loop, temps, stats, fvars>>

ScanEmpty ==
    /\ pc = "scan" /\ range_no < samplerows
    /\ sample[range_no] # Null /\ sample[range_no].empty
    /\ empty_cnt' = empty_cnt + 1
    /\ range_no' = range_no + 1
    /\ UNCHANGED <<pc, input, null_cnt, non_empty_cnt, lowers, uppers, lengths,
                   loop, temps, stats, fvars>>

(* get_float8_infinity: above the difference of any two ints.              *)
InfiniteLength == 2 * (IntMax + 1)

(* subdiff of the bound values (int4range_subdiff), or 1.0 without one.    *)
RangeLength(range) ==
    IF range.lower.infinite \/ range.upper.infinite THEN InfiniteLength
    ELSE IF has_subdiff THEN range.upper.val - range.lower.val ELSE 1

ScanRange ==
    /\ pc = "scan" /\ range_no < samplerows
    /\ sample[range_no] # Null /\ ~sample[range_no].empty
    /\ lowers' = Put(lowers, non_empty_cnt, sample[range_no].lower)
    /\ uppers' = Put(uppers, non_empty_cnt, sample[range_no].upper)
    /\ lengths' = Put(lengths, non_empty_cnt, RangeLength(sample[range_no]))
    /\ non_empty_cnt' = non_empty_cnt + 1
    /\ range_no' = range_no + 1
    /\ UNCHANGED <<pc, input, null_cnt, empty_cnt, loop, temps, stats, fvars>>
-----------------------------------------------------------------------------
(* The histograms.                                                         *)

range_bound_qsort_cmp(b1, b2) == range_cmp_bounds(b1, b2)
float8_qsort_cmp(f1, f2) == CmpVal(f1, f2)

(* qsort: any ascending rearrangement of the n elements of the array.      *)
Permutation(n) ==
    {p \in [0 .. n - 1 -> 0 .. n - 1] :
        /\ \A r, s \in 0 .. n - 1 : p[r] = p[s] => r = s
        /\ \A s \in 0 .. n - 1 : \E r \in 0 .. n - 1 : p[r] = s}
Rearranged(n, f) == {[r \in 0 .. n - 1 |-> f[p[r]]] : p \in Permutation(n)}
AscendingBounds(n, f) ==
    \A r, s \in 0 .. n - 1 : r <= s => range_bound_qsort_cmp(f[r], f[s]) <= 0
AscendingLengths(n, f) ==
    \A r, s \in 0 .. n - 1 : r <= s => float8_qsort_cmp(f[r], f[s]) <= 0

delta == (non_empty_cnt - 1) \div (num_hist - 1)
deltafrac == (non_empty_cnt - 1) % (num_hist - 1)

(* Mutant: no carry from the fractional to the integral part.              *)
AdvanceNoCarry ==
    /\ i' = i + 1
    /\ pos' = pos + delta
    /\ posfrac' = posfrac + deltafrac

(* The start of either loop, and its step: i (nvals - 1) / (num_hist - 1)  *)
(* is kept as an integral and a fractional part.                           *)
StartLoop ==
    /\ num_hist' = IF non_empty_cnt > num_bins THEN num_bins + 1 ELSE non_empty_cnt
    /\ i' = 0 /\ pos' = 0 /\ posfrac' = 0
    /\ hist' = <<>>

Advance ==
    LET carry == posfrac + deltafrac >= num_hist - 1 IN
    /\ i' = i + 1
    /\ pos' = pos + delta + (IF carry THEN 1 ELSE 0)
    /\ posfrac' = posfrac + deltafrac - (IF carry THEN num_hist - 1 ELSE 0)

SimpleStats ==
    /\ stats_valid' = TRUE
    /\ stanullfrac' = <<null_cnt, samplerows>>

Slot(kind, values, numbers) == [kind |-> kind, values |-> values, numbers |-> numbers]
Store(slot) ==
    /\ slots' = Put(slots, slot_idx, slot)
    /\ slot_idx' = slot_idx + 1

(* Mutant: the upper bounds are left in the order of the sample.           *)
SortBoundsLowersOnly ==
    /\ pc = "scan" /\ range_no = samplerows
    /\ non_empty_cnt >= 2
    /\ lowers' \in Rearranged(non_empty_cnt, lowers) /\ AscendingBounds(non_empty_cnt, lowers')
    /\ SimpleStats
    /\ StartLoop
    /\ pc' = "bounds"
    /\ UNCHANGED <<input, scanned, uppers, lengths, temps, slotvars, fvars>>

(* At least two non-empty ranges: the bounds are sorted, lowers and uppers *)
(* each on their own.                                                      *)
SortBounds ==
    /\ pc = "scan" /\ range_no = samplerows
    /\ non_empty_cnt >= 2
    /\ lowers' \in Rearranged(non_empty_cnt, lowers) /\ AscendingBounds(non_empty_cnt, lowers')
    /\ uppers' \in Rearranged(non_empty_cnt, uppers) /\ AscendingBounds(non_empty_cnt, uppers')
    /\ SimpleStats
    /\ StartLoop
    /\ pc' = "bounds"
    /\ UNCHANGED <<input, scanned, lengths, temps, slotvars, fvars>>

(* One range of the bounds histogram.  range_serialize may raise an error. *)
PickBound ==
    /\ pc = "bounds" /\ i < num_hist
    /\ temp_lowers' = Put(temp_lowers, i, lowers[pos])
    /\ temp_uppers' = Put(temp_uppers, i, uppers[pos])
    /\ IF SerializeError(lowers[pos], uppers[pos])
       THEN pc' = "error" /\ UNCHANGED loop
       ELSE /\ hist' = Put(hist, i, range_serialize(lowers[pos], uppers[pos]))
            /\ Advance
            /\ UNCHANGED <<pc, num_hist>>
    /\ UNCHANGED <<input, scanned, lowers, uppers, lengths, stats, fvars>>

(* Mutant: the lengths are left in the order of the sample.                *)
SortLengthsSkipped ==
    /\ pc = "bounds" /\ i >= num_hist
    /\ Store(Slot("bounds", hist, <<>>))
    /\ StartLoop
    /\ pc' = "lengths"
    /\ UNCHANGED <<input, scanned, lowers, uppers, lengths, temps, stats_valid, stanullfrac, fvars>>

(* The bounds histogram is stored and the lengths are sorted.              *)
SortLengths ==
    /\ pc = "bounds" /\ i >= num_hist
    /\ Store(Slot("bounds", hist, <<>>))
    /\ lengths' \in Rearranged(non_empty_cnt, lengths) /\ AscendingLengths(non_empty_cnt, lengths')
    /\ StartLoop
    /\ pc' = "lengths"
    /\ UNCHANGED <<input, scanned, lowers, uppers, temps, stats_valid, stanullfrac, fvars>>

PickLength ==
    /\ pc = "lengths" /\ i < num_hist
    /\ hist' = Put(hist, i, lengths[pos])
    /\ Advance
    /\ UNCHANGED <<pc, input, scanned, lowers, uppers, lengths, num_hist, temps, stats, fvars>>

emptyfrac == <<empty_cnt, non_null_cnt>>
-----------------------------------------------------------------------------
(* The call of ComputeFrequencyHistogram.                                  *)

(* The length histogram is stored; the values of the picked bounds go to   *)
(* the frequency histogram, the value 0 for an infinite one.               *)
CallFrequency ==
    /\ pc = "lengths" /\ i >= num_hist
    /\ Store(Slot("lengths", hist, emptyfrac))
    /\ pc' = "frequency"
    /\ fpc' = "geometry"
    /\ frows' = num_hist
    /\ flowers' = [r \in 0 .. num_hist - 1 |-> temp_lowers[r].val]
    /\ fuppers' = [r \in 0 .. num_hist - 1 |-> temp_uppers[r].val]
    /\ UNCHANGED <<input, scanned, lowers, uppers, lengths, loop, temps, stats_valid, stanullfrac,
                   nb_of_intervals, interval_length, fi, fl, fu, fk, sup, count, freq>>

(* Fewer than two non-empty ranges: an empty length histogram is stored,   *)
(* and then the same call is made with num_hist = 0 and with temp_lowers   *)
(* and temp_uppers never assigned.  Reading through them is undefined:     *)
(* the backend dies, or two arbitrary values are the ends of the grid.     *)
FewValues ==
    /\ pc = "scan" /\ range_no = samplerows
    /\ non_empty_cnt < 2 /\ non_null_cnt > 0
    /\ SimpleStats
    /\ Store(Slot("lengths", <<>>, emptyfrac))
    /\ \/ /\ pc' = "segv"
          /\ UNCHANGED fvars
       \/ /\ pc' = "frequency"
          /\ \E lowest, highest \in Garbage :
                FH!ChooseGrid(lowest, highest)
          /\ UNCHANGED <<frows, flowers, fuppers, fi, fl, fu, fk, count, freq>>
    /\ UNCHANGED <<input, scanned, lowers, uppers, lengths, loop, temps>>

(* Only NULLs in the sample.                                               *)
OnlyNulls ==
    /\ pc = "scan" /\ range_no = samplerows
    /\ non_null_cnt = 0 /\ null_cnt > 0
    /\ stats_valid' = TRUE
    /\ stanullfrac' = <<1, 1>>
    /\ pc' = "done"
    /\ UNCHANGED <<input, scanned, lowers, uppers, lengths, loop, temps, slotvars, fvars>>

Frequency ==
    /\ pc = "frequency"
    /\ FH!FreqNext
    /\ UNCHANGED <<pc, input, scanned, lowers, uppers, lengths, loop, temps, stats>>

StoreFrequency ==
    /\ pc = "frequency" /\ fpc = "done"
    /\ Store(Slot("frequency", freq, <<>>))
    /\ pc' = "done"
    /\ UNCHANGED <<input, scanned, lowers, uppers, lengths, loop, temps, stats_valid, stanullfrac,
                   fvars>>

Next == \/ ScanNull \/ ScanEmpty \/ ScanRange
        \/ SortBounds \/ PickBound \/ SortLengths \/ PickLength
        \/ CallFrequency \/ FewValues \/ OnlyNulls \/ Frequency \/ StoreFrequency

(* The function has returned, or the backend is gone.                      *)
Crashed == pc \in {"segv", "error"} \/ fpc = "sigfpe"
Returned == (pc = "done" \/ Crashed) /\ UNCHANGED vars

Spec == Init /\ [][Next \/ Returned]_vars /\ WF_vars(Next)
-----------------------------------------------------------------------------
(* Properties.                                                             *)

RangeNos == 0 .. samplerows - 1
Array(n) == 0 .. n - 1

TypeOK ==
    /\ pc \in {"scan", "bounds", "lengths", "frequency", "done", "error", "segv"}
    /\ samplerows \in Nat \ {0} /\ num_bins \in Nat \ {0} /\ has_subdiff \in BOOLEAN
    /\ range_no \in 0 .. samplerows /\ null_cnt \in Nat /\ empty_cnt \in Nat
    /\ non_empty_cnt \in 0 .. samplerows
    /\ lowers \in [Array(non_empty_cnt) -> RangeBound]
    /\ uppers \in [Array(non_empty_cnt) -> RangeBound]
    /\ lengths \in [Array(non_empty_cnt) -> Nat]
    /\ pc \in {"bounds", "lengths"} => /\ num_hist \in 2 .. non_empty_cnt
                                       /\ i \in 0 .. num_hist
                                       /\ pos \in Nat /\ posfrac \in 0 .. num_hist - 2
    /\ slot_idx \in 0 .. 3 /\ DOMAIN slots = 0 .. slot_idx - 1

(* The two histogram loops: the subscript kept as pos and posfrac is the   *)
(* i (nvals - 1) / (num_hist - 1) of the comment, so it stays inside the   *)
(* arrays and the last entry taken is the last of the array.               *)
EvenlySpaced ==
    pc \in {"bounds", "lengths"} =>
        /\ pos = (i * (non_empty_cnt - 1)) \div (num_hist - 1)
        /\ i < num_hist => pos \in Array(non_empty_cnt)
        /\ i = num_hist - 1 => pos = non_empty_cnt - 1

(* Sorting the bounds independently pairs a lower bound with the upper     *)
(* bound of another range; every such pair is still a non-empty range, so  *)
(* range_serialize raises no error and calc_hist_selectivity never meets   *)
(* the "bounds histogram contains an empty range" it raises an error for.  *)
NoEmptyHistogramRange ==
    /\ pc # "error"
    /\ \A n \in DOMAIN slots : slots[n].kind = "bounds" =>
          \A j \in DOMAIN slots[n].values : ~slots[n].values[j].empty

(* The values of the arrays in the sample itself, for comparison.          *)
RangeRows == {r \in RangeNos : sample[r] # Null /\ ~sample[r].empty}
LowersOf == [r \in RangeRows |-> sample[r].lower]
UppersOf == [r \in RangeRows |-> sample[r].upper]
LengthsOf == [r \in RangeRows |-> RangeLength(sample[r])]

(* Entry j of a histogram of the given size is a quantile of the n values: *)
(* too few of them are below it for it to be a later one, and enough are   *)
(* up to it for it not to be an earlier one.                               *)
IsQuantile(below, upto, n, j, size) ==
    /\ Cardinality(below) * (size - 1) <= j * (n - 1)
    /\ Cardinality(upto) * (size - 1) > j * (n - 1)
BoundQuantile(f, x, j, size) ==
    IsQuantile({r \in DOMAIN f : range_cmp_bounds(f[r], x) < 0},
               {r \in DOMAIN f : range_cmp_bounds(f[r], x) <= 0}, Cardinality(DOMAIN f), j, size)
LengthQuantile(f, x, j, size) ==
    IsQuantile({r \in DOMAIN f : f[r] < x}, {r \in DOMAIN f : f[r] <= x},
               Cardinality(DOMAIN f), j, size)

(* compute_range_stats: the entries of both histograms are evenly spaced   *)
(* quantiles of the sample as it was read, the first and last entries its  *)
(* least and greatest values.                                              *)
BoundsPicked(v, size) ==
    \A j \in DOMAIN v : /\ BoundQuantile(LowersOf, v[j].lower, j, size)
                        /\ BoundQuantile(UppersOf, v[j].upper, j, size)
LengthsPicked(v, size) == \A j \in DOMAIN v : LengthQuantile(LengthsOf, v[j], j, size)
Quantiles ==
    \A n \in DOMAIN slots :
        LET v == slots[n].values IN
        /\ slots[n].kind = "bounds" => BoundsPicked(v, Cardinality(DOMAIN v))
        /\ slots[n].kind = "lengths" => LengthsPicked(v, Cardinality(DOMAIN v))

(* The inductive invariant behind EvenlySpaced and NoEmptyHistogramRange.  *)
(* Before and after the sorts, lowers[r] and uppers[r] bound a non-empty   *)
(* range, first that of a row and then of the r-th smallest bounds.        *)
RowsAreRanges ==
    \A r \in Array(non_empty_cnt) :
        /\ lowers[r].lower = TRUE /\ uppers[r].lower = FALSE
        /\ range_cmp_bounds(lowers[r], uppers[r]) <= 0

SampleRead ==
    /\ \A r \in RangeNos : sample[r] # Null => sample[r] \in RangeValue
    /\ null_cnt + empty_cnt + non_empty_cnt = range_no

Spacing ==
    pc \in {"bounds", "lengths"} =>
        pos * (num_hist - 1) + posfrac = i * (non_empty_cnt - 1)

SlotsSoFar ==
    /\ pc \in {"scan", "bounds", "error"} => slot_idx = 0
    /\ pc = "lengths" => slot_idx = 1
    /\ pc \in {"frequency", "segv"} => slot_idx <= 2
    /\ pc = "bounds" => /\ DOMAIN hist = Array(i)
                        /\ \A j \in Array(i) : ~hist[j].empty

AnalyzeInv ==
    /\ SampleRead
    /\ RowsAreRanges
    /\ Spacing
    /\ SlotsSoFar
    /\ NoEmptyHistogramRange

(* "compute statistics (if not empty) for (a) range(s) column(s)", says    *)
(* the comment on compute_range_stats: the backend survives it.            *)
StatisticsComputed == ~Crashed

=============================================================================
