-------------------------- MODULE TypAnalyzeProofs ---------------------------
(***************************************************************************)
(* compute_range_stats picks its histograms right for every sample and     *)
(* every statistics target.                                                *)
(***************************************************************************)
EXTENDS TypAnalyze, BasicsProofs, FiniteSetTheorems

(* A quotient is known by its remainder.                                   *)
LEMMA QuotientUnique ==
    ASSUME NEW a \in Int, NEW b \in Nat \ {0}, NEW q \in Int, NEW r \in 0 .. b - 1,
           q * b + r = a
    PROVE  a \div b = q
OBVIOUS

(* The division of the subscript step: delta and deltafrac.                *)
LEMMA Division ==
    ASSUME NEW a \in Nat, NEW b \in Nat \ {0}
    PROVE  /\ a \div b \in Nat /\ a % b \in 0 .. b - 1
           /\ (a \div b) * b + (a % b) = a
OBVIOUS

(* One step of either histogram loop moves the subscript by exactly        *)
(* (nvals - 1) / (num_hist - 1).                                           *)
LEMMA SubscriptStep ==
    ASSUME NEW n \in Nat, NEW h \in 1 .. n, NEW p \in Nat, NEW f \in 0 .. h - 1, NEW j \in Nat,
           p * h + f = j * n,
           NEW d \in Nat, NEW e \in 0 .. h - 1, d * h + e = n,
           NEW p2, NEW f2,
           p2 = p + d + (IF f + e >= h THEN 1 ELSE 0),
           f2 = f + e - (IF f + e >= h THEN h ELSE 0)
    PROVE  p2 \in Nat /\ f2 \in 0 .. h - 1 /\ p2 * h + f2 = (j + 1) * n
  <1>1. CASE f + e >= h
    <2>1. p2 = p + d + 1 /\ f2 = f + e - h
      BY <1>1, Zenon
    <2>2. (p + d + 1) * h = p * h + d * h + h
      OBVIOUS
    <2>. QED  BY <1>1, <2>1, <2>2
  <1>2. CASE f + e < h
    <2>1. p2 = p + d /\ f2 = f + e
      BY <1>2
    <2>2. (p + d) * h = p * h + d * h
      OBVIOUS
    <2>. QED  BY <1>2, <2>1, <2>2
  <1>. QED  BY <1>1, <1>2

(* An array of n elements has n subscripts, one fewer than 0 .. n.         *)
LEMMA IntervalSize ==
    ASSUME NEW n \in Nat
    PROVE  /\ IsFiniteSet(0 .. n) /\ Cardinality(0 .. n) = n + 1
           /\ IsFiniteSet(0 .. n - 1) /\ Cardinality(0 .. n - 1) = n
  <1>1. 0 \in Int /\ n \in Int /\ n - 1 \in Int
    OBVIOUS
  <1>2. IsFiniteSet(0 .. n) /\ Cardinality(0 .. n) = IF 0 > n THEN 0 ELSE n - 0 + 1
    BY <1>1, FS_Interval, Zenon
  <1>3. IsFiniteSet(0 .. n - 1) /\ Cardinality(0 .. n - 1) = IF 0 > n - 1 THEN 0 ELSE n - 1 - 0 + 1
    BY <1>1, FS_Interval, Zenon
  <1>. QED  BY <1>2, <1>3

(* The heart of the bounds histogram.  Rows with a lower bound at or below *)
(* the upper one keep that property when lowers and uppers are sorted each *)
(* on their own: of the n rows, n - k have a lower bound ranked k or later *)
(* and k + 1 an upper bound ranked k or earlier, so some row has both.     *)
LEMMA SortedPairs ==
    ASSUME NEW n \in Nat,
           NEW lo \in [Array(n) -> RangeBound], NEW up \in [Array(n) -> RangeBound],
           \A r \in Array(n) : range_cmp_bounds(lo[r], up[r]) <= 0,
           NEW p \in Permutation(n), NEW q \in Permutation(n),
           AscendingBounds(n, [r \in Array(n) |-> lo[p[r]]]),
           AscendingBounds(n, [r \in Array(n) |-> up[q[r]]]),
           NEW k \in Array(n)
    PROVE  range_cmp_bounds(lo[p[k]], up[q[k]]) <= 0
  <1>. DEFINE f == [x \in 0 .. n |-> IF x <= k THEN q[x] ELSE p[x - 1]]
  <1>1. /\ p \in [Array(n) -> Array(n)] /\ q \in [Array(n) -> Array(n)]
        /\ \A r, s \in Array(n) : (p[r] = p[s] => r = s) /\ (q[r] = q[s] => r = s)
    BY Zenon DEF Permutation, Array
  <1>2. f \in [0 .. n -> Array(n)]
    <2>1. \A x \in 0 .. n : IF x <= k THEN x \in Array(n) ELSE x - 1 \in Array(n)
      BY DEF Array
    <2>2. \A x \in 0 .. n : (IF x <= k THEN q[x] ELSE p[x - 1]) \in Array(n)
      BY <1>1, <2>1, Zenon
    <2>. QED  BY <2>2, Zenon
  <1>3. PICK x, y \in 0 .. n : x # y /\ f[x] = f[y]
    <2>1. /\ IsFiniteSet(0 .. n) /\ Cardinality(0 .. n) = n + 1
          /\ IsFiniteSet(0 .. n - 1) /\ Cardinality(0 .. n - 1) = n
      BY IntervalSize, Zenon
    <2>2. IsFiniteSet(Array(n)) /\ Cardinality(Array(n)) < Cardinality(0 .. n)
      BY <2>1 DEF Array
    <2>. HIDE DEF f
    <2>. QED  BY <1>2, <2>1, <2>2, FS_PigeonHole, Zenon
  <1>4. PICK a \in 0 .. k, b \in k .. n - 1 : q[a] = p[b]
    <2>. DEFINE Crosses(v, w) == v \in 0 .. k /\ w - 1 \in k .. n - 1 /\ q[v] = p[w - 1]
    <2>1. ASSUME NEW v \in 0 .. n, NEW w \in 0 .. n, v < w, f[v] = f[w]
          PROVE  Crosses(v, w)
      <3>1. CASE w <= k
        <4>1. f[v] = q[v] /\ f[w] = q[w] /\ v \in Array(n) /\ w \in Array(n)
          BY <2>1, <3>1 DEF Array
        <4>. QED  BY <1>1, <2>1, <4>1
      <3>2. CASE v > k
        <4>1. f[v] = p[v - 1] /\ f[w] = p[w - 1] /\ v - 1 \in Array(n) /\ w - 1 \in Array(n)
          BY <2>1, <3>2 DEF Array
        <4>2. v - 1 = w - 1
          BY <1>1, <2>1, <4>1, Zenon
        <4>. QED  BY <2>1, <4>2
      <3>3. CASE v <= k /\ w > k
        BY <2>1, <3>3 DEF Array
      <3>. QED  BY <3>1, <3>2, <3>3 DEF Array
    <2>2. Crosses(x, y) \/ Crosses(y, x)
      <3>. HIDE DEF f, Crosses
      <3>. QED  BY <1>3, <2>1
    <2>. QED  BY <2>2, Zenon
  <1>5. a \in Array(n) /\ b \in Array(n) /\ a <= k /\ k <= b
    BY DEF Array
  <1>6. range_cmp_bounds(lo[p[k]], lo[p[b]]) <= 0
    BY <1>5, Zenon DEF AscendingBounds, range_bound_qsort_cmp, Array
  <1>7. range_cmp_bounds(lo[p[b]], up[q[a]]) <= 0
    BY <1>1, <1>4, <1>5, Zenon
  <1>8. range_cmp_bounds(up[q[a]], up[q[k]]) <= 0
    BY <1>5, Zenon DEF AscendingBounds, range_bound_qsort_cmp, Array
  <1>9. /\ lo[p[k]] \in RangeBound /\ lo[p[b]] \in RangeBound
        /\ up[q[a]] \in RangeBound /\ up[q[k]] \in RangeBound
    BY <1>1, <1>5, Zenon
  <1>. QED  BY <1>6, <1>7, <1>8, <1>9, CmpBoundsTransitive, Zenon

(* An array with one more element.                                         *)
LEMMA PutType ==
    ASSUME NEW S, NEW n \in Nat, NEW f \in [Array(n) -> S], NEW v \in S
    PROVE  Put(f, n, v) \in [Array(n + 1) -> S]
  <1>1. 0 .. n = 0 .. (n + 1) - 1
    OBVIOUS
  <1>2. \A j \in 0 .. n : j # n => j \in 0 .. n - 1
    OBVIOUS
  <1>. QED  BY <1>1, <1>2, Zenon DEF Put, Array

(* Finite bounds in order have values in order.                            *)
LEMMA OrderedValues ==
    ASSUME NEW a \in RangeBound, NEW b \in RangeBound,
           a.infinite = FALSE, b.infinite = FALSE, range_cmp_bounds(a, b) <= 0
    PROVE  a.val <= b.val
BY DEF range_cmp_bounds, CmpVal, RangeBound

(* A range of the sample has bounds of the right kind and a length.        *)
LEMMA RangeValueFacts ==
    ASSUME NEW v \in RangeValue, ~v.empty
    PROVE  /\ v.lower \in RangeBound /\ v.upper \in RangeBound
           /\ v.lower.lower = TRUE /\ v.upper.lower = FALSE
           /\ range_cmp_bounds(v.lower, v.upper) <= 0
           /\ RangeLength(v) \in Nat
  <1>1. /\ v.lower \in RangeBound /\ v.upper \in RangeBound
        /\ v.lower.lower /\ ~v.upper.lower
        /\ range_cmp_bounds(v.lower, v.upper) <= 0
    BY Zenon DEF RangeValue
  <1>2. v.lower.lower = TRUE /\ v.upper.lower = FALSE
    BY <1>1, Zenon DEF RangeBound
  <1>3. ~v.lower.infinite /\ ~v.upper.infinite => v.lower.val <= v.upper.val
    BY <1>1, OrderedValues, Zenon DEF RangeBound
  <1>4. RangeLength(v) \in Nat
    BY <1>1, <1>3, IntMaxAssumption DEF RangeLength, InfiniteLength, RangeBound
  <1>. QED  BY <1>1, <1>2, <1>4, Zenon

(* The loop counters at the start, for a histogram of h of n values.       *)
LEMMA StartFacts ==
    ASSUME NEW n \in Int, NEW h \in 2 .. n
    PROVE  /\ 0 \in 0 .. h /\ 0 \in 0 .. h - 2
           /\ 0 * (h - 1) + 0 = 0 * (n - 1)
OBVIOUS

(* What both histogram loops start from.                                   *)
LEMMA LoopStarts ==
    ASSUME TypeOK, non_empty_cnt >= 2, StartLoop
    PROVE  /\ num_hist' \in 2 .. non_empty_cnt
           /\ i' = 0 /\ pos' = 0 /\ posfrac' = 0
           /\ 0 \in 0 .. num_hist' /\ 0 \in 0 .. num_hist' - 2
           /\ 0 * (num_hist' - 1) + 0 = 0 * (non_empty_cnt - 1)
  <1>1. non_empty_cnt \in Int /\ num_bins \in Nat \ {0}
    BY DEF TypeOK
  <1>2. PICK h \in 2 .. non_empty_cnt : num_hist' = h
    BY <1>1 DEF StartLoop
  <1>3. 0 \in 0 .. h /\ 0 \in 0 .. h - 2 /\ 0 * (h - 1) + 0 = 0 * (non_empty_cnt - 1)
    BY <1>1, StartFacts, Zenon
  <1>. QED  BY <1>2, <1>3, Zenon DEF StartLoop

(* A step of either loop keeps the subscript exact and inside the arrays.  *)
LEMMA LoopSteps ==
    ASSUME TypeOK, Spacing, pc \in {"bounds", "lengths"}, i < num_hist
    PROVE  /\ pos \in Array(non_empty_cnt)
           /\ Advance => /\ i' = i + 1
                         /\ pos' \in Nat /\ posfrac' \in 0 .. num_hist - 2
                         /\ pos' * (num_hist - 1) + posfrac' = (i + 1) * (non_empty_cnt - 1)
  <1>. DEFINE n == non_empty_cnt - 1
             h == num_hist - 1
  <1>1. /\ n \in Nat /\ h \in 1 .. n /\ i \in 0 .. h /\ pos \in Nat /\ posfrac \in 0 .. h - 1
        /\ pos * h + posfrac = i * n
    BY DEF TypeOK, Spacing
  <1>2. /\ delta \in Nat /\ deltafrac \in 0 .. h - 1
        /\ delta * h + deltafrac = n
    <2>1. delta = n \div h /\ deltafrac = n % h
      BY Zenon DEF delta, deltafrac
    <2>. HIDE DEF n, h
    <2>2. h \in Nat \ {0}
      BY <1>1
    <2>. QED  BY <1>1, <2>1, <2>2, Division, Zenon
  <1>3. Advance =>
            /\ i' = i + 1
            /\ pos' = pos + delta + (IF posfrac + deltafrac >= h THEN 1 ELSE 0)
            /\ posfrac' = posfrac + deltafrac - (IF posfrac + deltafrac >= h THEN h ELSE 0)
    BY Zenon DEF Advance
  <1>4. pos <= n
    <2>. HIDE DEF n, h
    <2>1. i * n <= h * n
      BY <1>1
    <2>2. pos * h <= n * h
      BY <1>1, <2>1
    <2>. QED  BY <1>1, <2>2
  <1>5. pos \in Array(non_empty_cnt)
    BY <1>1, <1>4 DEF Array
  <1>. HIDE DEF n
  <1>6. ASSUME Advance PROVE pos' \in Nat /\ posfrac' \in 0 .. h - 1 /\ pos' * h + posfrac' = (i + 1) * n
    <2>. HIDE DEF h
    <2>1. i \in Nat
      BY <1>1
    <2>. QED  BY <1>1, <1>2, <1>3, <1>6, <2>1, SubscriptStep
  <1>7. h - 1 = num_hist - 2
    BY <1>1 DEF TypeOK
  <1>. QED  BY <1>3, <1>5, <1>6, <1>7, Zenon DEF n

(* What a sort leaves: the same number of bounds, each of the same kind.   *)
LEMMA RearrangedFacts ==
    ASSUME NEW S, NEW n \in Nat, NEW f \in [Array(n) -> S], NEW g \in Rearranged(n, f)
    PROVE  g \in [Array(n) -> S]
  <1>1. PICK p \in Permutation(n) : g = [r \in Array(n) |-> f[p[r]]]
    BY Zenon DEF Rearranged, Array
  <1>2. p \in [Array(n) -> Array(n)]
    BY Zenon DEF Permutation, Array
  <1>. QED  BY <1>1, <1>2, Zenon

(* After the sorts of SortBounds, the r-th lower and upper bounds are the  *)
(* bounds of a non-empty range.                                            *)
LEMMA SortKeepsRanges ==
    ASSUME TypeOK, RowsAreRanges, SortBounds
    PROVE  /\ lowers' \in [Array(non_empty_cnt) -> RangeBound]
           /\ uppers' \in [Array(non_empty_cnt) -> RangeBound]
           /\ \A r \in Array(non_empty_cnt) :
                 /\ lowers'[r].lower = TRUE /\ uppers'[r].lower = FALSE
                 /\ range_cmp_bounds(lowers'[r], uppers'[r]) <= 0
  <1>. DEFINE n == non_empty_cnt
  <1>1. /\ n \in Nat /\ lowers \in [Array(n) -> RangeBound] /\ uppers \in [Array(n) -> RangeBound]
        /\ lowers' \in Rearranged(n, lowers) /\ uppers' \in Rearranged(n, uppers)
        /\ AscendingBounds(n, lowers') /\ AscendingBounds(n, uppers')
    BY DEF TypeOK, SortBounds
  <1>2. \A r \in Array(n) : /\ lowers[r].lower = TRUE /\ uppers[r].lower = FALSE
                            /\ range_cmp_bounds(lowers[r], uppers[r]) <= 0
    BY Zenon DEF RowsAreRanges
  <1>. HIDE DEF n
  <1>3. PICK p \in Permutation(n) : lowers' = [r \in Array(n) |-> lowers[p[r]]]
    BY <1>1, Zenon DEF Rearranged, Array
  <1>4. PICK q \in Permutation(n) : uppers' = [r \in Array(n) |-> uppers[q[r]]]
    BY <1>1, Zenon DEF Rearranged, Array
  <1>5. lowers' \in [Array(n) -> RangeBound] /\ uppers' \in [Array(n) -> RangeBound]
    BY <1>1, RearrangedFacts, Zenon
  <1>6. p \in [Array(n) -> Array(n)] /\ q \in [Array(n) -> Array(n)]
    BY Zenon DEF Permutation, Array
  <1>7. ASSUME NEW r \in Array(n)
        PROVE  /\ lowers'[r].lower = TRUE /\ uppers'[r].lower = FALSE
               /\ range_cmp_bounds(lowers'[r], uppers'[r]) <= 0
    <2>1. lowers'[r] = lowers[p[r]] /\ uppers'[r] = uppers[q[r]]
      BY <1>3, <1>4, Zenon
    <2>2. p[r] \in Array(n) /\ q[r] \in Array(n)
      BY <1>6, Zenon
    <2>3. range_cmp_bounds(lowers[p[r]], uppers[q[r]]) <= 0
      BY <1>1, <1>2, <1>3, <1>4, SortedPairs, Zenon
    <2>. QED  BY <1>2, <2>1, <2>2, <2>3, Zenon
  <1>. QED  BY <1>5, <1>7, Zenon DEF n

(* The arrays of the sample grow by one range.                             *)
LEMMA ScanKeepsRanges ==
    ASSUME TypeOK, SampleRead, RowsAreRanges, ScanRange
    PROVE  /\ lowers' \in [Array(non_empty_cnt') -> RangeBound]
           /\ uppers' \in [Array(non_empty_cnt') -> RangeBound]
           /\ lengths' \in [Array(non_empty_cnt') -> Nat]
           /\ RowsAreRanges'
  <1>. DEFINE v == sample[range_no]
  <1>1. v \in RangeValue /\ ~v.empty
    BY DEF TypeOK, SampleRead, ScanRange, RangeNos
  <1>2. /\ v.lower \in RangeBound /\ v.upper \in RangeBound
        /\ v.lower.lower = TRUE /\ v.upper.lower = FALSE
        /\ range_cmp_bounds(v.lower, v.upper) <= 0
        /\ RangeLength(v) \in Nat
    BY <1>1, RangeValueFacts, Zenon
  <1>3. /\ non_empty_cnt \in Nat
        /\ lowers' = Put(lowers, non_empty_cnt, v.lower)
        /\ uppers' = Put(uppers, non_empty_cnt, v.upper)
        /\ lengths' = Put(lengths, non_empty_cnt, RangeLength(v))
        /\ non_empty_cnt' = non_empty_cnt + 1
    BY DEF TypeOK, ScanRange
  <1>. HIDE DEF v
  <1>4. /\ lowers \in [Array(non_empty_cnt) -> RangeBound]
        /\ uppers \in [Array(non_empty_cnt) -> RangeBound]
        /\ lengths \in [Array(non_empty_cnt) -> Nat]
    BY Zenon DEF TypeOK
  <1>5. /\ lowers' \in [Array(non_empty_cnt') -> RangeBound]
        /\ uppers' \in [Array(non_empty_cnt') -> RangeBound]
        /\ lengths' \in [Array(non_empty_cnt') -> Nat]
    BY <1>2, <1>3, <1>4, PutType, Zenon
  <1>6. /\ \A r \in Array(non_empty_cnt) : lowers'[r] = lowers[r] /\ uppers'[r] = uppers[r]
        /\ lowers'[non_empty_cnt] = v.lower /\ uppers'[non_empty_cnt] = v.upper
    BY <1>3 DEF Put, Array
  <1>7. \A r \in Array(non_empty_cnt') : r \in Array(non_empty_cnt) \/ r = non_empty_cnt
    BY <1>3 DEF Array
  <1>8. RowsAreRanges'
    BY <1>2, <1>6, <1>7, Zenon DEF RowsAreRanges
  <1>. QED  BY <1>5, <1>8, Zenon

(* A slot that holds no bounds histogram, or one of non-empty ranges,      *)
(* keeps the slots so.                                                     *)
LEMMA StoreKeeps ==
    ASSUME TypeOK, NoEmptyHistogramRange, pc' # "error",
           NEW slot, Store(slot),
           slot.kind = "bounds" => \A j \in DOMAIN slot.values : ~slot.values[j].empty
    PROVE  /\ DOMAIN slots' = 0 .. slot_idx' - 1 /\ slot_idx' = slot_idx + 1
           /\ NoEmptyHistogramRange'
  <1>1. slot_idx \in Nat /\ DOMAIN slots = 0 .. slot_idx - 1
    BY DEF TypeOK
  <1>2. slot_idx' = slot_idx + 1 /\ DOMAIN slots' = 0 .. slot_idx
    BY Zenon DEF Store, Put
  <1>3. \A n \in DOMAIN slots' : slots'[n] = slot \/ (n \in DOMAIN slots /\ slots'[n] = slots[n])
    BY <1>1, <1>2 DEF Store, Put
  <1>. QED  BY <1>1, <1>2, <1>3 DEF NoEmptyHistogramRange

(* Every step of compute_range_stats keeps the types and the invariant.    *)
LEMMA AnalyzeStep ==
    ASSUME TypeOK, AnalyzeInv, [Next \/ Returned]_vars
    PROVE  TypeOK' /\ AnalyzeInv'
  <1>. USE DEF input, scanned, loop, temps, stats, slotvars
  <1>1. CASE ScanNull
    BY <1>1 DEF ScanNull, TypeOK, AnalyzeInv, SampleRead, RowsAreRanges, Spacing, SlotsSoFar,
                NoEmptyHistogramRange, RangeNos
  <1>2. CASE ScanEmpty
    BY <1>2 DEF ScanEmpty, TypeOK, AnalyzeInv, SampleRead, RowsAreRanges, Spacing, SlotsSoFar,
                NoEmptyHistogramRange, RangeNos
  <1>3. CASE ScanRange
    <2>1. /\ lowers' \in [Array(non_empty_cnt') -> RangeBound]
          /\ uppers' \in [Array(non_empty_cnt') -> RangeBound]
          /\ lengths' \in [Array(non_empty_cnt') -> Nat]
          /\ RowsAreRanges'
      BY <1>3, ScanKeepsRanges, Zenon DEF AnalyzeInv
    <2>2. SampleRead' /\ non_empty_cnt' \in 0 .. samplerows /\ range_no' \in 0 .. samplerows
      BY <1>3 DEF ScanRange, TypeOK, AnalyzeInv, SampleRead, RangeNos
    <2>. QED  BY <1>3, <2>1, <2>2, Zenon DEF ScanRange, TypeOK, AnalyzeInv, Spacing, SlotsSoFar, NoEmptyHistogramRange
  <1>4. CASE SortBounds
    <2>1. /\ lowers' \in [Array(non_empty_cnt) -> RangeBound]
          /\ uppers' \in [Array(non_empty_cnt) -> RangeBound]
          /\ \A r \in Array(non_empty_cnt) :
                /\ lowers'[r].lower = TRUE /\ uppers'[r].lower = FALSE
                /\ range_cmp_bounds(lowers'[r], uppers'[r]) <= 0
      BY <1>4, SortKeepsRanges, Zenon DEF AnalyzeInv
    <2>2. /\ num_hist' \in 2 .. non_empty_cnt
          /\ i' = 0 /\ pos' = 0 /\ posfrac' = 0
          /\ 0 \in 0 .. num_hist' /\ 0 \in 0 .. num_hist' - 2
          /\ 0 * (num_hist' - 1) + 0 = 0 * (non_empty_cnt - 1)
      BY <1>4, LoopStarts, Zenon DEF SortBounds
    <2>3. /\ pc = "scan" /\ pc' = "bounds"
          /\ UNCHANGED <<samplerows, sample, num_bins, has_subdiff>>
          /\ UNCHANGED <<range_no, null_cnt, empty_cnt, non_empty_cnt, lengths, slot_idx, slots>>
      BY <1>4, Zenon DEF SortBounds
    <2>8. DOMAIN hist' = {}
      BY <1>4 DEF SortBounds, StartLoop
    <2>4. TypeOK'
      <3>1. /\ num_hist' \in 2 .. non_empty_cnt' /\ i' \in 0 .. num_hist'
            /\ pos' \in Nat /\ posfrac' \in 0 .. num_hist' - 2
        BY <2>2, <2>3, Zenon
      <3>. QED  BY <2>1, <2>3, <3>1, Zenon DEF TypeOK
    <2>5. SampleRead' /\ RowsAreRanges'
      BY <2>1, <2>3, Zenon DEF AnalyzeInv, SampleRead, RowsAreRanges, RangeNos
    <2>6. Spacing'
      BY <2>2, <2>3, Zenon DEF Spacing
    <2>7. SlotsSoFar' /\ NoEmptyHistogramRange'
      BY <2>2, <2>3, <2>8 DEF AnalyzeInv, SlotsSoFar, NoEmptyHistogramRange, Array
    <2>. QED  BY <2>4, <2>5, <2>6, <2>7, Zenon DEF AnalyzeInv
  <1>5. CASE PickBound
    <2>1. pos \in Array(non_empty_cnt)
      BY <1>5, LoopSteps, Zenon DEF PickBound, AnalyzeInv
    <2>2. ~SerializeError(lowers[pos], uppers[pos]) /\ ~range_serialize(lowers[pos], uppers[pos]).empty
      BY <2>1, OrderedPairSerializes, Zenon DEF TypeOK, AnalyzeInv, RowsAreRanges
    <2>3. /\ hist' = Put(hist, i, range_serialize(lowers[pos], uppers[pos]))
          /\ Advance /\ pc' = pc /\ num_hist' = num_hist
      BY <1>5, <2>2, Zenon DEF PickBound
    <2>4. /\ i' = i + 1 /\ pos' \in Nat /\ posfrac' \in 0 .. num_hist - 2
          /\ pos' * (num_hist - 1) + posfrac' = (i + 1) * (non_empty_cnt - 1)
      BY <1>5, <2>3, LoopSteps, Zenon DEF PickBound, AnalyzeInv
    <2>5. TypeOK' /\ SampleRead' /\ RowsAreRanges' /\ Spacing'
      <3>1. pc = "bounds" /\ i < num_hist
            /\ UNCHANGED <<input, scanned, lowers, uppers, lengths, stats>>
        BY <1>5, Zenon DEF PickBound
      <3>2. TypeOK'
        <4>1. i \in 0 .. num_hist /\ num_hist \in 2 .. non_empty_cnt /\ non_empty_cnt \in Nat
          BY <3>1 DEF TypeOK
        <4>2. /\ num_hist' \in 2 .. non_empty_cnt' /\ i' \in 0 .. num_hist'
              /\ pos' \in Nat /\ posfrac' \in 0 .. num_hist' - 2
          BY <2>3, <2>4, <3>1, <4>1
        <4>. QED  BY <2>3, <3>1, <4>2, Zenon DEF TypeOK
      <3>3. SampleRead' /\ RowsAreRanges'
        BY <3>1, Zenon DEF AnalyzeInv, SampleRead, RowsAreRanges, RangeNos
      <3>4. Spacing'
        BY <2>3, <2>4, <3>1, Zenon DEF Spacing
      <3>. QED  BY <3>2, <3>3, <3>4, Zenon
    <2>6. SlotsSoFar'
      <3>1. i \in Nat /\ \A j \in Array(i) : ~hist[j].empty
        BY <1>5 DEF PickBound, TypeOK, AnalyzeInv, SlotsSoFar
      <3>2. DOMAIN hist' = Array(i + 1)
        BY <2>3, <3>1 DEF Put, Array
      <3>3. \A j \in Array(i + 1) : ~hist'[j].empty
        BY <2>2, <2>3, <3>1 DEF Put, Array
      <3>. QED  BY <1>5, <2>3, <2>4, <3>2, <3>3, Zenon DEF PickBound, AnalyzeInv, SlotsSoFar
    <2>7. NoEmptyHistogramRange'
      BY <1>5, <2>3, Zenon DEF PickBound, AnalyzeInv, NoEmptyHistogramRange
    <2>. QED  BY <2>5, <2>6, <2>7, Zenon DEF AnalyzeInv
  <1>6. CASE SortLengths
    <2>. DEFINE slot == Slot("bounds", hist, <<>>)
    <2>1. Store(slot) /\ StartLoop /\ pc = "bounds" /\ pc' = "lengths" /\ i >= num_hist
      BY <1>6, Zenon DEF SortLengths
    <2>2. non_empty_cnt >= 2 /\ i = num_hist /\ slot_idx = 0
      BY <2>1 DEF TypeOK, AnalyzeInv, SlotsSoFar
    <2>3. /\ num_hist' \in 2 .. non_empty_cnt
          /\ i' = 0 /\ pos' = 0 /\ posfrac' = 0
          /\ 0 \in 0 .. num_hist' /\ 0 \in 0 .. num_hist' - 2
          /\ 0 * (num_hist' - 1) + 0 = 0 * (non_empty_cnt - 1)
      BY <2>1, <2>2, LoopStarts, Zenon
    <2>4. \A j \in DOMAIN slot.values : ~slot.values[j].empty
      BY <2>1, Zenon DEF Slot, AnalyzeInv, SlotsSoFar
    <2>. HIDE DEF slot
    <2>5. DOMAIN slots' = 0 .. slot_idx' - 1 /\ slot_idx' = slot_idx + 1 /\ NoEmptyHistogramRange'
      BY <2>1, <2>4, StoreKeeps, Zenon DEF AnalyzeInv
    <2>6. lengths' \in [Array(non_empty_cnt) -> Nat]
      <3>1. /\ non_empty_cnt \in Nat /\ lengths \in [Array(non_empty_cnt) -> Nat]
            /\ lengths' \in Rearranged(non_empty_cnt, lengths)
        BY <1>6 DEF SortLengths, TypeOK
      <3>. QED  BY <3>1, RearrangedFacts, Zenon
    <2>7. /\ UNCHANGED <<samplerows, sample, num_bins, has_subdiff>>
          /\ UNCHANGED <<range_no, null_cnt, empty_cnt, non_empty_cnt, lowers, uppers>>
      BY <1>6, Zenon DEF SortLengths
    <2>8. TypeOK' /\ Spacing'
      <3>3. /\ num_hist' \in 2 .. non_empty_cnt' /\ i' \in 0 .. num_hist'
            /\ pos' \in Nat /\ posfrac' \in 0 .. num_hist' - 2
        BY <2>3, <2>7, Zenon
      <3>4. Spacing'
        BY <2>3, <2>7, Zenon DEF Spacing
      <3>5. slot_idx' \in 0 .. 3 /\ DOMAIN slots' = 0 .. slot_idx' - 1
        BY <2>2, <2>5
      <3>6. TypeOK'
        BY <2>1, <2>6, <2>7, <3>3, <3>5, Zenon DEF TypeOK
      <3>. QED  BY <3>4, <3>6, Zenon
    <2>9. SampleRead' /\ RowsAreRanges'
      BY <2>7, Zenon DEF AnalyzeInv, SampleRead, RowsAreRanges, RangeNos
    <2>10. SlotsSoFar'
      BY <2>1, <2>2, <2>5 DEF SlotsSoFar
    <2>. QED  BY <2>5, <2>8, <2>9, <2>10, Zenon DEF AnalyzeInv
  <1>7. CASE PickLength
    <2>1. Advance /\ pc = "lengths" /\ pc' = pc /\ num_hist' = num_hist /\ i < num_hist
      BY <1>7, Zenon DEF PickLength
    <2>2. /\ i' = i + 1 /\ pos' \in Nat /\ posfrac' \in 0 .. num_hist - 2
          /\ pos' * (num_hist - 1) + posfrac' = (i + 1) * (non_empty_cnt - 1)
      BY <2>1, LoopSteps, Zenon DEF AnalyzeInv
    <2>3. /\ UNCHANGED <<samplerows, sample, num_bins, has_subdiff>>
          /\ UNCHANGED <<range_no, null_cnt, empty_cnt, non_empty_cnt, lowers, uppers, lengths>>
          /\ UNCHANGED <<slot_idx, slots>>
      BY <1>7, Zenon DEF PickLength
    <2>4. TypeOK'
      <3>1. num_hist \in 2 .. non_empty_cnt /\ i \in 0 .. num_hist
        BY <2>1, Zenon DEF TypeOK
      <3>2. i + 1 \in 0 .. num_hist
        BY <2>1, <3>1
      <3>3. /\ num_hist' \in 2 .. non_empty_cnt' /\ i' \in 0 .. num_hist'
            /\ pos' \in Nat /\ posfrac' \in 0 .. num_hist' - 2
        BY <2>1, <2>2, <2>3, <3>1, <3>2, Zenon
      <3>. QED  BY <2>1, <2>3, <3>3, Zenon DEF TypeOK
    <2>5. SampleRead' /\ RowsAreRanges' /\ NoEmptyHistogramRange'
      BY <2>1, <2>3, Zenon DEF AnalyzeInv, SampleRead, RowsAreRanges, RangeNos, NoEmptyHistogramRange
    <2>6. Spacing' /\ SlotsSoFar'
      BY <2>1, <2>2, <2>3, Zenon DEF AnalyzeInv, Spacing, SlotsSoFar
    <2>. QED  BY <2>4, <2>5, <2>6, Zenon DEF AnalyzeInv
  <1>8. CASE CallFrequency \/ FewValues
    <2>1. PICK values \in {hist, <<>>} : Store(Slot("lengths", values, emptyfrac))
      BY <1>8, Zenon DEF CallFrequency, FewValues
    <2>2. pc \in {"scan", "lengths"} /\ pc' \in {"frequency", "segv"} /\ slot_idx <= 1
      <3>1. pc \in {"scan", "lengths"} /\ pc' \in {"frequency", "segv"}
        BY <1>8, Zenon DEF CallFrequency, FewValues
      <3>. QED  BY <3>1 DEF AnalyzeInv, SlotsSoFar
    <2>3. DOMAIN slots' = 0 .. slot_idx' - 1 /\ slot_idx' = slot_idx + 1 /\ NoEmptyHistogramRange'
      BY <2>1, <2>2, StoreKeeps, Zenon DEF AnalyzeInv, Slot
    <2>4. UNCHANGED <<input, scanned, lowers, uppers, lengths, loop>>
      BY <1>8, Zenon DEF CallFrequency, FewValues
    <2>5. TypeOK'
      <3>1. slot_idx' \in 0 .. 3
        BY <2>2, <2>3 DEF TypeOK
      <3>. QED  BY <2>2, <2>3, <2>4, <3>1, Zenon DEF TypeOK
    <2>6. SampleRead' /\ RowsAreRanges'
      BY <2>4, Zenon DEF AnalyzeInv, SampleRead, RowsAreRanges, RangeNos
    <2>7. Spacing' /\ SlotsSoFar'
      BY <2>2, <2>3 DEF TypeOK, Spacing, SlotsSoFar
    <2>. QED  BY <2>3, <2>5, <2>6, <2>7, Zenon DEF AnalyzeInv
  <1>9. CASE OnlyNulls \/ Frequency \/ Returned \/ UNCHANGED vars
    <2>1. /\ UNCHANGED <<input, scanned, lowers, uppers, lengths, loop, slotvars>>
          /\ pc' = pc \/ pc' = "done"
      BY <1>9, Zenon DEF OnlyNulls, Frequency, Returned, vars
    <2>. QED
      BY <2>1, Zenon DEF TypeOK, AnalyzeInv, SampleRead, RowsAreRanges, Spacing, SlotsSoFar, RangeNos,
                  NoEmptyHistogramRange
  <1>10. CASE StoreFrequency
    <2>1. Store(Slot("frequency", freq, <<>>)) /\ pc = "frequency" /\ pc' = "done"
      BY <1>10, Zenon DEF StoreFrequency
    <2>2. DOMAIN slots' = 0 .. slot_idx' - 1 /\ slot_idx' = slot_idx + 1 /\ NoEmptyHistogramRange'
      BY <2>1, StoreKeeps, Zenon DEF AnalyzeInv, Slot
    <2>3. UNCHANGED <<input, scanned, lowers, uppers, lengths, loop>>
      BY <1>10, Zenon DEF StoreFrequency
    <2>4. TypeOK'
      <3>1. slot_idx' \in 0 .. 3
        BY <2>1, <2>2 DEF TypeOK, AnalyzeInv, SlotsSoFar
      <3>. QED  BY <2>1, <2>2, <2>3, <3>1, Zenon DEF TypeOK
    <2>5. SampleRead' /\ RowsAreRanges'
      BY <2>3, Zenon DEF AnalyzeInv, SampleRead, RowsAreRanges, RangeNos
    <2>6. Spacing' /\ SlotsSoFar'
      BY <2>1, Zenon DEF Spacing, SlotsSoFar
    <2>. QED  BY <2>2, <2>4, <2>5, <2>6, Zenon DEF AnalyzeInv
  <1>. QED
    BY <1>1, <1>2, <1>3, <1>4, <1>5, <1>6, <1>7, <1>8, <1>9, <1>10, Zenon DEF Next

(* The invariant holds initially: nothing has been read.                   *)
LEMMA AnalyzeInit == Init => TypeOK /\ AnalyzeInv
  <1>. SUFFICES ASSUME Init PROVE TypeOK /\ AnalyzeInv
    BY Zenon
  <1>1. PICK s \in Samples : samplerows = s.samplerows /\ sample = s.value
    BY Zenon DEF Init
  <1>2. samplerows \in Nat \ {0} /\ \A r \in RangeNos : sample[r] # Null => sample[r] \in RangeValue
    BY <1>1, SamplesAssumption, Zenon DEF RangeNos
  <1>3. num_bins \in Nat \ {0}
    BY TargetsAssumption DEF Init, AttStatTarget
  <1>4. TypeOK
    <2>1. /\ pc = "scan" /\ has_subdiff \in BOOLEAN
          /\ range_no = 0 /\ null_cnt = 0 /\ empty_cnt = 0 /\ non_empty_cnt = 0
          /\ slot_idx = 0
      BY Zenon DEF Init
    <2>2. DOMAIN lowers = {} /\ DOMAIN uppers = {} /\ DOMAIN lengths = {} /\ DOMAIN slots = {}
      BY DEF Init
    <2>3. /\ lowers = [r \in {} |-> lowers[r]] /\ uppers = [r \in {} |-> uppers[r]]
          /\ lengths = [r \in {} |-> lengths[r]]
      BY DEF Init
    <2>. QED
      BY <1>2, <1>3, <2>1, <2>2, <2>3 DEF TypeOK, Array
  <1>5. AnalyzeInv
    <2>1. pc = "scan" /\ slot_idx = 0 /\ DOMAIN slots = {}
      BY DEF Init
    <2>2. SampleRead /\ RowsAreRanges
      BY <1>2 DEF Init, SampleRead, RowsAreRanges, Array
    <2>3. Spacing /\ SlotsSoFar /\ NoEmptyHistogramRange
      BY <2>1, Zenon DEF Spacing, SlotsSoFar, NoEmptyHistogramRange
    <2>. QED  BY <2>2, <2>3, Zenon DEF AnalyzeInv
  <1>. QED  BY <1>4, <1>5, Zenon

(* compute_range_stats keeps its counters, arrays and slots well formed.   *)
THEOREM AnalyzeInvariant == Spec => [](TypeOK /\ AnalyzeInv)
  <1>1. TypeOK /\ AnalyzeInv /\ [Next \/ Returned]_vars => (TypeOK /\ AnalyzeInv)'
    BY AnalyzeStep, Zenon
  <1>. QED  BY <1>1, AnalyzeInit, PTL DEF Spec

(* For every sample and target: no pair of bounds picked for the bounds    *)
(* histogram makes range_serialize fail or gives an empty range, although  *)
(* lowers and uppers are sorted independently of each other.               *)
THEOREM HistogramRangesNonEmpty == Spec => []NoEmptyHistogramRange
  <1>1. AnalyzeInv => NoEmptyHistogramRange
    BY Zenon DEF AnalyzeInv
  <1>. QED  BY <1>1, AnalyzeInvariant, PTL

(* For every sample and target: the subscript tracked in two parts is the  *)
(* quotient it stands for, never leaves the arrays, and ends at the last   *)
(* element.                                                                *)
THEOREM HistogramEvenlySpaced == Spec => []EvenlySpaced
  <1>1. TypeOK /\ AnalyzeInv => EvenlySpaced
    <2>. SUFFICES ASSUME TypeOK, AnalyzeInv, pc \in {"bounds", "lengths"}
                  PROVE  /\ pos = (i * (non_empty_cnt - 1)) \div (num_hist - 1)
                         /\ i < num_hist => pos \in Array(non_empty_cnt)
                         /\ i = num_hist - 1 => pos = non_empty_cnt - 1
      BY Zenon DEF EvenlySpaced
    <2>. DEFINE n == non_empty_cnt - 1
               h == num_hist - 1
    <2>1. /\ n \in Nat /\ h \in Nat \ {0} /\ i \in Nat /\ pos \in Nat /\ posfrac \in 0 .. h - 1
          /\ pos * h + posfrac = i * n
      <3>1. /\ non_empty_cnt \in Nat /\ num_hist \in 2 .. non_empty_cnt /\ i \in 0 .. num_hist
            /\ pos \in Nat /\ posfrac \in 0 .. num_hist - 2
        BY DEF TypeOK
      <3>2. pos * (num_hist - 1) + posfrac = i * (non_empty_cnt - 1)
        BY Zenon DEF AnalyzeInv, Spacing
      <3>. QED  BY <3>1, <3>2
    <2>2. i < num_hist => pos \in Array(non_empty_cnt)
      BY LoopSteps, Zenon DEF AnalyzeInv
    <2>. HIDE DEF n, h
    <2>3. pos = (i * n) \div h
      <3>1. i * n \in Int
        BY <2>1
      <3>. QED  BY <2>1, <3>1, QuotientUnique
    <2>4. i = h => pos = n
      <3>1. ASSUME i = h PROVE n * h + 0 = i * n /\ 0 \in 0 .. h - 1
        BY <2>1, <3>1
      <3>. QED  BY <2>1, <2>3, <3>1, QuotientUnique
    <2>. QED  BY <2>2, <2>3, <2>4, Zenon DEF n, h
  <1>. QED  BY <1>1, AnalyzeInvariant, PTL

-----------------------------------------------------------------------------
(* The histograms hold quantiles of the sample.                            *)

(* The array f holds the g of the n elements of R, in some order.          *)
InOrder(f, n, R, g) == \E p \in Bijection(Array(n), R) : f = [r \in Array(n) |-> g[p[r]]]

(* The arrays hold the rows read so far.                                   *)
RowsRead == {r \in RangeRows : r < range_no}
FromSample ==
    /\ InOrder(lowers, non_empty_cnt, RowsRead, LowersOf)
    /\ InOrder(uppers, non_empty_cnt, RowsRead, UppersOf)
    /\ InOrder(lengths, non_empty_cnt, RowsRead, LengthsOf)

(* The arrays are sorted while they are picked from.                       *)
Sorted ==
    /\ pc # "scan" => range_no = samplerows
    /\ pc = "bounds" => /\ AscendingBounds(non_empty_cnt, lowers)
                        /\ AscendingBounds(non_empty_cnt, uppers)
    /\ pc = "lengths" => AscendingLengths(non_empty_cnt, lengths)

(* What has been picked.                                                   *)
Picked ==
    /\ pc \in {"bounds", "lengths"} => DOMAIN hist = Array(i)
    /\ pc = "bounds" => BoundsPicked(hist, num_hist)
    /\ pc = "lengths" => LengthsPicked(hist, num_hist)

(* The inductive invariant behind Quantiles.                               *)
QuantileInv == FromSample /\ Sorted /\ Picked /\ Quantiles
-----------------------------------------------------------------------------
(* Ranks in a sorted array.                                                *)

(* The first m elements of an array without repetitions are m elements.    *)
Prefix(p, m) == {p[s] : s \in 0 .. m - 1}
LEMMA PrefixSize ==
    ASSUME NEW n \in Nat, NEW R, NEW p \in Bijection(Array(n), R), NEW m \in 0 .. n
    PROVE  Prefix(p, m) \in SUBSET R /\ IsFiniteSet(Prefix(p, m)) /\ Cardinality(Prefix(p, m)) = m
  <1>. DEFINE g == [s \in 0 .. m - 1 |-> p[s]]
             T == Prefix(p, m)
  <1>1. p \in [Array(n) -> R] /\ \A s, t \in Array(n) : p[s] = p[t] => s = t
    BY Zenon DEF Bijection, Injection, IsInjective
  <1>2. m \in Nat /\ \A s \in 0 .. m - 1 : s \in Array(n)
    BY DEF Array
  <1>3. T \in SUBSET R
    BY <1>1, <1>2, Zenon DEF Prefix
  <1>4. g \in Bijection(0 .. m - 1, T)
    <2>1. g \in [0 .. m - 1 -> T] /\ \A t \in T : \E s \in 0 .. m - 1 : g[s] = t
      BY Zenon DEF Prefix
    <2>2. IsInjective(g)
      BY <1>1, <1>2, Zenon DEF IsInjective
    <2>. QED  BY <2>1, <2>2, Zenon DEF Bijection, Injection, Surjection
  <1>5. IsFiniteSet(0 .. m - 1) /\ Cardinality(0 .. m - 1) = m
    BY <1>2, IntervalSize, Zenon
  <1>6. ExistsBijection(0 .. m - 1, T)
    BY <1>4, Zenon DEF ExistsBijection
  <1>. QED  BY <1>3, <1>5, <1>6, FS_Bijection, Zenon

(* Nothing of B comes at or after position q and all up to it is in U.     *)
LEMMA Rank ==
    ASSUME NEW n \in Nat, NEW R, NEW p \in Bijection(Array(n), R), NEW q \in Array(n),
           NEW B \in SUBSET R, NEW U \in SUBSET R,
           \A s \in Array(n) : p[s] \in B => s < q,
           \A s \in Array(n) : s <= q => p[s] \in U
    PROVE  /\ Cardinality(R) = n
           /\ Cardinality(B) \in Nat /\ Cardinality(B) <= q
           /\ Cardinality(U) \in Nat /\ q + 1 <= Cardinality(U)
  <1>1. /\ p \in [Array(n) -> R] /\ \A t \in R : \E s \in Array(n) : p[s] = t
    BY Zenon DEF Bijection, Injection, Surjection
  <1>2. /\ q \in Nat /\ q \in 0 .. n /\ q + 1 \in 0 .. n /\ n \in 0 .. n
        /\ \A s \in Array(n) : s < q => s \in 0 .. q - 1
        /\ \A s \in 0 .. (q + 1) - 1 : s \in Array(n) /\ s <= q
    BY DEF Array
  <1>3. /\ IsFiniteSet(Prefix(p, q)) /\ Cardinality(Prefix(p, q)) = q
        /\ IsFiniteSet(Prefix(p, q + 1)) /\ Cardinality(Prefix(p, q + 1)) = q + 1
        /\ IsFiniteSet(Prefix(p, n)) /\ Cardinality(Prefix(p, n)) = n
    <2>1. IsFiniteSet(Prefix(p, q)) /\ Cardinality(Prefix(p, q)) = q
      BY <1>2, PrefixSize
    <2>2. IsFiniteSet(Prefix(p, q + 1)) /\ Cardinality(Prefix(p, q + 1)) = q + 1
      BY <1>2, PrefixSize
    <2>3. IsFiniteSet(Prefix(p, n)) /\ Cardinality(Prefix(p, n)) = n
      BY <1>2, PrefixSize
    <2>. QED  BY <2>1, <2>2, <2>3, Zenon
  <1>4. Prefix(p, n) = R
    BY <1>1, Zenon DEF Prefix, Array
  <1>5. B \in SUBSET Prefix(p, q)
    BY <1>1, <1>2, Zenon DEF Prefix
  <1>6. Prefix(p, q + 1) \in SUBSET U
    BY <1>2, Zenon DEF Prefix
  <1>7. Cardinality(R) = n /\ IsFiniteSet(U)
    BY <1>3, <1>4, FS_Subset, Zenon
  <1>8. IsFiniteSet(B) /\ Cardinality(B) <= q
    BY <1>3, <1>5, FS_Subset, Zenon
  <1>9. q + 1 <= Cardinality(U)
    BY <1>3, <1>6, <1>7, FS_Subset, Zenon
  <1>10. Cardinality(B) \in Nat /\ Cardinality(U) \in Nat
    BY <1>7, <1>8, FS_CardinalityType, Zenon
  <1>. QED  BY <1>7, <1>8, <1>9, <1>10, Zenon

(* The element at the subscript of the loops is the quantile.              *)
LEMMA RankIsQuantile ==
    ASSUME NEW n \in Nat \ {0}, NEW h \in Nat, h >= 2, NEW q \in Nat, NEW e \in 0 .. h - 2, NEW j \in Nat,
           q * (h - 1) + e = j * (n - 1),
           NEW B, NEW U, Cardinality(B) \in Nat, Cardinality(B) <= q,
           Cardinality(U) \in Nat, q + 1 <= Cardinality(U)
    PROVE  IsQuantile(B, U, n, j, h)
  <1>1. PICK m \in Nat : m = h - 1 /\ e < m
    OBVIOUS
  <1>2. Cardinality(B) * m <= q * m /\ (q + 1) * m <= Cardinality(U) * m
    BY <1>1, MultipleMonotone
  <1>3. PICK b \in Int, u \in Int, t \in Int, w \in Int :
          /\ b = Cardinality(B) * m /\ u = Cardinality(U) * m /\ t = q * m /\ w = j * (n - 1)
    OBVIOUS
  <1>4. (q + 1) * m = q * m + m
    OBVIOUS
  <1>5. b <= w /\ u > w
    BY <1>1, <1>2, <1>3, <1>4
  <1>. QED  BY <1>1, <1>3, <1>5, Zenon DEF IsQuantile

(* The same of the bounds, and of the lengths.                             *)
LEMMA SortedBoundIsQuantile ==
    ASSUME NEW n \in Nat \ {0}, NEW R, NEW f \in [R -> RangeBound], NEW p \in Bijection(Array(n), R),
           AscendingBounds(n, [r \in Array(n) |-> f[p[r]]]),
           NEW h \in Nat, h >= 2, NEW q \in Array(n), NEW e \in 0 .. h - 2, NEW j \in Nat,
           q * (h - 1) + e = j * (n - 1)
    PROVE  BoundQuantile(f, f[p[q]], j, h)
  <1>. DEFINE B == {r \in R : range_cmp_bounds(f[r], f[p[q]]) < 0}
             U == {r \in R : range_cmp_bounds(f[r], f[p[q]]) <= 0}
  <1>1. p \in [Array(n) -> R] /\ n \in Nat /\ q \in Nat /\ Array(n) \in SUBSET Int
    BY DEF Bijection, Injection, Array
  <1>2. \A s, t \in Array(n) : s <= t => range_cmp_bounds(f[p[s]], f[p[t]]) <= 0
    BY Zenon DEF AscendingBounds, range_bound_qsort_cmp, Array
  <1>3. ASSUME NEW s \in Array(n), p[s] \in B PROVE s < q
    <2>1. f[p[s]] \in RangeBound /\ f[p[q]] \in RangeBound
      BY <1>1, Zenon
    <2>2. range_cmp_bounds(f[p[s]], f[p[q]]) < 0
      BY <1>3, Zenon
    <2>3. ~ (range_cmp_bounds(f[p[q]], f[p[s]]) <= 0)
      BY <2>1, <2>2, CmpBoundsAntisymmetric, CmpBoundsType
    <2>4. ~ (q <= s)
      BY <1>2, <2>3, Zenon
    <2>. QED  BY <1>1, <2>4
  <1>4. ASSUME NEW s \in Array(n), s <= q PROVE p[s] \in U
    BY <1>1, <1>2, <1>4, Zenon
  <1>. B \in SUBSET R /\ U \in SUBSET R
    BY Zenon
  <1>5. BoundQuantile(f, f[p[q]], j, h) = IsQuantile(B, U, Cardinality(R), j, h)
    BY Zenon DEF BoundQuantile
  <1>. HIDE DEF B, U
  <1>6. /\ Cardinality(R) = n
        /\ Cardinality(B) \in Nat /\ Cardinality(B) <= q
        /\ Cardinality(U) \in Nat /\ q + 1 <= Cardinality(U)
    <2>1. \A s \in Array(n) : p[s] \in B => s < q
      BY <1>3, Zenon
    <2>2. \A s \in Array(n) : s <= q => p[s] \in U
      BY <1>4, Zenon
    <2>. QED  BY <1>1, <2>1, <2>2, Rank
  <1>7. IsQuantile(B, U, n, j, h)
    BY <1>1, <1>6, RankIsQuantile, Zenon
  <1>. QED  BY <1>5, <1>6, <1>7, Zenon

LEMMA SortedLengthIsQuantile ==
    ASSUME NEW n \in Nat \ {0}, NEW R, NEW f \in [R -> Nat], NEW p \in Bijection(Array(n), R),
           AscendingLengths(n, [r \in Array(n) |-> f[p[r]]]),
           NEW h \in Nat, h >= 2, NEW q \in Array(n), NEW e \in 0 .. h - 2, NEW j \in Nat,
           q * (h - 1) + e = j * (n - 1)
    PROVE  LengthQuantile(f, f[p[q]], j, h)
  <1>. DEFINE B == {r \in R : f[r] < f[p[q]]}
             U == {r \in R : f[r] <= f[p[q]]}
  <1>1. p \in [Array(n) -> R] /\ n \in Nat /\ q \in Nat /\ Array(n) \in SUBSET Int
    BY DEF Bijection, Injection, Array
  <1>2. \A s, t \in Array(n) : s <= t => CmpVal(f[p[s]], f[p[t]]) <= 0
    BY Zenon DEF AscendingLengths, float8_qsort_cmp, Array
  <1>3. \A s, t \in Array(n) : s <= t => f[p[s]] <= f[p[t]]
    <2>1. \A c, d \in Nat : CmpVal(c, d) <= 0 => c <= d
      BY DEF CmpVal
    <2>. QED  BY <1>1, <1>2, <2>1, Zenon
  <1>4. ASSUME NEW s \in Array(n), p[s] \in B PROVE s < q
    <2>1. f[p[s]] \in Nat /\ f[p[q]] \in Nat /\ f[p[s]] < f[p[q]]
      BY <1>1, <1>4, Zenon
    <2>2. ~ (f[p[q]] <= f[p[s]])
      BY <2>1
    <2>3. ~ (q <= s)
      BY <1>3, <2>2, Zenon
    <2>. QED  BY <1>1, <2>3
  <1>5. ASSUME NEW s \in Array(n), s <= q PROVE p[s] \in U
    BY <1>1, <1>3, <1>5, Zenon
  <1>. B \in SUBSET R /\ U \in SUBSET R
    BY Zenon
  <1>6. LengthQuantile(f, f[p[q]], j, h) = IsQuantile(B, U, Cardinality(R), j, h)
    BY Zenon DEF LengthQuantile
  <1>. HIDE DEF B, U
  <1>7. /\ Cardinality(R) = n
        /\ Cardinality(B) \in Nat /\ Cardinality(B) <= q
        /\ Cardinality(U) \in Nat /\ q + 1 <= Cardinality(U)
    <2>1. \A s \in Array(n) : p[s] \in B => s < q
      BY <1>4, Zenon
    <2>2. \A s \in Array(n) : s <= q => p[s] \in U
      BY <1>5, Zenon
    <2>. QED  BY <1>1, <2>1, <2>2, Rank
  <1>8. IsQuantile(B, U, n, j, h)
    BY <1>1, <1>7, RankIsQuantile, Zenon
  <1>. QED  BY <1>6, <1>7, <1>8, Zenon

-----------------------------------------------------------------------------
(* The arrays hold the sample.                                             *)

(* An array that holds R in some order, with one more element.             *)
LEMMA OrderGrows ==
    ASSUME NEW n \in Nat, NEW R, NEW p \in Bijection(Array(n), R), NEW x, x \notin R
    PROVE  Put(p, n, x) \in Bijection(Array(n + 1), R \cup {x})
  <1>. DEFINE g == Put(p, n, x)
  <1>1. /\ p \in [Array(n) -> R] /\ \A s, t \in Array(n) : p[s] = p[t] => s = t
        /\ \A t \in R : \E s \in Array(n) : p[s] = t
    BY Zenon DEF Bijection, Injection, Surjection, IsInjective
  <1>2. /\ n \in Array(n + 1) /\ n \notin Array(n)
        /\ \A s \in Array(n) : s \in Array(n + 1)
        /\ \A s \in Array(n + 1) : s = n \/ s \in Array(n)
    BY DEF Array
  <1>3. Array(n + 1) = 0 .. n
    BY DEF Array
  <1>4. /\ DOMAIN g = Array(n + 1) /\ g[n] = x /\ \A s \in Array(n) : g[s] = p[s]
        /\ g = [s \in Array(n + 1) |-> g[s]]
    BY <1>2, <1>3, Zenon DEF Put
  <1>. HIDE DEF g
  <1>5. g \in [Array(n + 1) -> R \cup {x}]
    <2>1. \A s \in Array(n + 1) : g[s] \in R \cup {x}
      BY <1>1, <1>2, <1>4, Zenon
    <2>. QED  BY <1>4, <2>1, Zenon
  <1>6. IsInjective(g)
    <2>. SUFFICES ASSUME NEW s \in Array(n + 1), NEW t \in Array(n + 1), g[s] = g[t]
                  PROVE  s = t
      BY <1>4, Zenon DEF IsInjective
    <2>1. CASE s = n
      <3>1. t \in Array(n) => g[t] \in R
        BY <1>1, <1>4, Zenon
      <3>. QED  BY <2>1, <3>1, <1>2, <1>4, Zenon
    <2>2. CASE t = n
      <3>1. s \in Array(n) => g[s] \in R
        BY <1>1, <1>4, Zenon
      <3>. QED  BY <2>2, <3>1, <1>2, <1>4, Zenon
    <2>3. CASE s \in Array(n) /\ t \in Array(n)
      BY <2>3, <1>1, <1>4, Zenon
    <2>. QED  BY <1>2, <2>1, <2>2, <2>3, Zenon
  <1>7. \A t \in R \cup {x} : \E s \in Array(n + 1) : g[s] = t
    BY <1>1, <1>2, <1>4, Zenon
  <1>. QED  BY <1>5, <1>6, <1>7, Zenon DEF Bijection, Injection, Surjection, g

(* A sorted array holds the same rows.                                     *)
LEMMA SortKeepsOrder ==
    ASSUME NEW n \in Nat, NEW R, NEW g, NEW f, InOrder(f, n, R, g), NEW h \in Rearranged(n, f)
    PROVE  InOrder(h, n, R, g)
  <1>1. PICK p \in Bijection(Array(n), R) : f = [r \in Array(n) |-> g[p[r]]]
    BY Zenon DEF InOrder
  <1>2. PICK q \in Permutation(n) : h = [r \in Array(n) |-> f[q[r]]]
    BY Zenon DEF Rearranged, Array
  <1>3. /\ p \in [Array(n) -> R] /\ \A s, t \in Array(n) : p[s] = p[t] => s = t
        /\ \A t \in R : \E s \in Array(n) : p[s] = t
    BY Zenon DEF Bijection, Injection, Surjection, IsInjective
  <1>4. /\ q \in [Array(n) -> Array(n)] /\ \A s, t \in Array(n) : q[s] = q[t] => s = t
        /\ \A t \in Array(n) : \E s \in Array(n) : q[s] = t
    BY Zenon DEF Permutation, Array
  <1>. DEFINE c == [r \in Array(n) |-> p[q[r]]]
  <1>5. c \in [Array(n) -> R] /\ IsInjective(c)
    <2>1. \A s \in Array(n) : q[s] \in Array(n)
      BY <1>4, Zenon
    <2>4. \A s \in Array(n) : p[q[s]] \in R
      BY <1>3, <2>1, Zenon
    <2>2. c \in [Array(n) -> R]
      BY <2>4, Zenon
    <2>3. \A s, t \in Array(n) : c[s] = c[t] => s = t
      <3>. SUFFICES ASSUME NEW s \in Array(n), NEW t \in Array(n), p[q[s]] = p[q[t]]
                    PROVE  s = t
        BY Zenon
      <3>1. q[s] = q[t]
        BY <1>3, <2>1
      <3>. QED  BY <1>4, <3>1, Zenon
    <2>. QED  BY <2>2, <2>3, Zenon DEF IsInjective
  <1>6. \A t \in R : \E s \in Array(n) : c[s] = t
    <2>. TAKE t \in R
    <2>1. PICK u \in Array(n) : p[u] = t
      BY <1>3, Zenon
    <2>2. PICK s \in Array(n) : q[s] = u
      BY <1>4, Zenon
    <2>. QED  BY <2>1, <2>2, Zenon
  <1>7. h = [r \in Array(n) |-> g[c[r]]]
    <2>1. \A r \in Array(n) : f[q[r]] = g[c[r]]
      BY <1>1, <1>4, Zenon
    <2>. QED  BY <1>2, <2>1, Zenon
  <1>8. c \in Bijection(Array(n), R)
    BY <1>5, <1>6, Zenon DEF Bijection, Injection, Surjection
  <1>. QED  BY <1>7, <1>8, Zenon DEF InOrder

(* A new element of the sample, in the array that holds its g.             *)
LEMMA ScanKeepsOrder ==
    ASSUME NEW n \in Nat, NEW R, NEW g, NEW f, InOrder(f, n, R, g), NEW x, x \notin R
    PROVE  InOrder(Put(f, n, g[x]), n + 1, R \cup {x}, g)
  <1>1. PICK p \in Bijection(Array(n), R) : f = [r \in Array(n) |-> g[p[r]]]
    BY Zenon DEF InOrder
  <1>2. Put(p, n, x) \in Bijection(Array(n + 1), R \cup {x})
    BY OrderGrows, Zenon
  <1>3. Array(n + 1) = 0 .. n /\ \A r \in 0 .. n : r # n => r \in Array(n)
    BY DEF Array
  <1>4. Put(f, n, g[x]) = [r \in Array(n + 1) |-> g[Put(p, n, x)[r]]]
    <2>1. \A r \in 0 .. n : (IF r = n THEN g[x] ELSE f[r]) = g[Put(p, n, x)[r]]
      BY <1>1, <1>3, Zenon DEF Put
    <2>. QED  BY <1>3, <2>1, Zenon DEF Put
  <1>. QED  BY <1>2, <1>4, Zenon DEF InOrder

(* The ranges of the sample have bounds and lengths.                       *)
LEMMA SampleFacts ==
    ASSUME SampleRead
    PROVE  /\ LowersOf \in [RangeRows -> RangeBound] /\ UppersOf \in [RangeRows -> RangeBound]
           /\ LengthsOf \in [RangeRows -> Nat]
           /\ \A r \in RangeRows : /\ LowersOf[r] = StoredBound(LowersOf[r])
                                   /\ UppersOf[r] = StoredBound(UppersOf[r])
  <1>1. \A r \in RangeRows : sample[r] \in RangeValue /\ ~sample[r].empty
    BY Zenon DEF SampleRead, RangeRows
  <1>2. \A r \in RangeRows : /\ sample[r].lower \in RangeBound /\ sample[r].upper \in RangeBound
                             /\ RangeLength(sample[r]) \in Nat
    BY <1>1, RangeValueFacts, Zenon
  <1>3. \A r \in RangeRows : /\ sample[r].lower = StoredBound(sample[r].lower)
                             /\ sample[r].upper = StoredBound(sample[r].upper)
    BY <1>1, Zenon DEF RangeValue
  <1>. QED  BY <1>2, <1>3, Zenon DEF LowersOf, UppersOf, LengthsOf

(* Nothing changes the sample.                                             *)
LEMMA SampleKept ==
    ASSUME UNCHANGED input
    PROVE  /\ RangeRows' = RangeRows /\ LowersOf' = LowersOf
           /\ UppersOf' = UppersOf /\ LengthsOf' = LengthsOf
  <1>1. samplerows' = samplerows /\ sample' = sample /\ has_subdiff' = has_subdiff
    BY Zenon DEF input
  <1>2. RangeRows' = RangeRows
    BY <1>1, Zenon DEF RangeRows, RangeNos
  <1>. QED  BY <1>1, <1>2, Zenon DEF LowersOf, UppersOf, LengthsOf, RangeLength

(* A row that is read.                                                     *)
LEMMA RowRead ==
    ASSUME TypeOK, pc = "scan", range_no < samplerows, range_no' = range_no + 1, UNCHANGED input
    PROVE  /\ range_no \notin RowsRead
           /\ range_no \in RangeRows => RowsRead' = RowsRead \cup {range_no}
           /\ range_no \notin RangeRows => RowsRead' = RowsRead
  <1>1. range_no \in Nat /\ RangeRows' = RangeRows /\ RangeRows \in SUBSET Int
    <2>1. range_no \in Nat /\ RangeNos \in SUBSET Int
      BY DEF TypeOK, RangeNos
    <2>2. RangeRows \in SUBSET RangeNos
      BY Zenon DEF RangeRows
    <2>. QED  BY <2>1, <2>2, SampleKept, Zenon
  <1>2. \A r \in RangeRows : r < range_no + 1 <=> r < range_no \/ r = range_no
    BY <1>1
  <1>3. ~ (range_no < range_no)
    BY <1>1
  <1>4. RowsRead' = {r \in RangeRows : r < range_no + 1}
    BY <1>1, Zenon DEF RowsRead
  <1>5. range_no \notin RowsRead
    BY <1>3, Zenon DEF RowsRead
  <1>6. ASSUME range_no \in RangeRows PROVE RowsRead' = RowsRead \cup {range_no}
    BY <1>2, <1>4, <1>6, Zenon DEF RowsRead
  <1>7. ASSUME range_no \notin RangeRows PROVE RowsRead' = RowsRead
    BY <1>2, <1>4, <1>7, Zenon DEF RowsRead
  <1>. QED  BY <1>5, <1>6, <1>7, Zenon

(* All of the sample has been read when the scan is over.                  *)
LEMMA AllRead ==
    ASSUME TypeOK, range_no = samplerows
    PROVE  RowsRead = RangeRows
  <1>1. \A r \in RangeNos : r < range_no
    BY DEF TypeOK, RangeNos
  <1>. QED  BY <1>1, Zenon DEF RowsRead, RangeRows

(* What is not touched stays as it was.                                    *)
LEMMA FromSampleKept ==
    ASSUME FromSample, UNCHANGED <<input, scanned, lowers, uppers, lengths>>
    PROVE  FromSample'
  <1>1. RangeRows' = RangeRows /\ LowersOf' = LowersOf /\ UppersOf' = UppersOf /\ LengthsOf' = LengthsOf
    BY SampleKept, Zenon
  <1>2. RowsRead' = RowsRead
    BY <1>1, Zenon DEF RowsRead, scanned
  <1>3. /\ non_empty_cnt' = non_empty_cnt
        /\ lowers' = lowers /\ uppers' = uppers /\ lengths' = lengths
    BY Zenon DEF scanned
  <1>. QED  BY <1>1, <1>2, <1>3, Zenon DEF FromSample

LEMMA QuantilesKept ==
    ASSUME Quantiles, UNCHANGED <<input, slots>>
    PROVE  Quantiles'
  <1>1. LowersOf' = LowersOf /\ UppersOf' = UppersOf /\ LengthsOf' = LengthsOf
    BY SampleKept, Zenon
  <1>. QED  BY <1>1, Zenon DEF Quantiles, BoundsPicked, LengthsPicked

(* A histogram of quantiles is stored.                                     *)
LEMMA StoreQuantiles ==
    ASSUME TypeOK, Quantiles, UNCHANGED input, NEW slot, Store(slot),
           slot.kind = "bounds" => BoundsPicked(slot.values, Cardinality(DOMAIN slot.values)),
           slot.kind = "lengths" => LengthsPicked(slot.values, Cardinality(DOMAIN slot.values))
    PROVE  Quantiles'
  <1>1. LowersOf' = LowersOf /\ UppersOf' = UppersOf /\ LengthsOf' = LengthsOf
    BY SampleKept, Zenon
  <1>2. \A n \in DOMAIN slots' : slots'[n] = slot \/ (n \in DOMAIN slots /\ slots'[n] = slots[n])
    BY DEF TypeOK, Store, Put
  <1>3. ASSUME NEW n \in DOMAIN slots'
        PROVE  LET v == slots'[n].values IN
               /\ slots'[n].kind = "bounds" => BoundsPicked(v, Cardinality(DOMAIN v))
               /\ slots'[n].kind = "lengths" => LengthsPicked(v, Cardinality(DOMAIN v))
    <2>1. CASE slots'[n] = slot
      BY <2>1, Zenon
    <2>2. CASE n \in DOMAIN slots /\ slots'[n] = slots[n]
      BY <2>2, Zenon DEF Quantiles
    <2>. QED  BY <1>2, <2>1, <2>2, Zenon
  <1>. QED  BY <1>1, <1>3, Zenon DEF Quantiles, BoundsPicked, LengthsPicked

(* The scan reads a range.                                                 *)
LEMMA ScanFromSample ==
    ASSUME TypeOK, FromSample, ScanRange
    PROVE  FromSample'
  <1>. DEFINE n == non_empty_cnt
  <1>1. /\ n \in Nat /\ range_no \in RangeRows /\ non_empty_cnt' = n + 1 /\ UNCHANGED input
        /\ range_no' = range_no + 1 /\ pc = "scan" /\ range_no < samplerows
    <2>1. range_no \in RangeNos /\ n \in Nat
      BY DEF TypeOK, ScanRange, RangeNos
    <2>. QED  BY <2>1, Zenon DEF ScanRange, RangeRows
  <1>2. range_no \notin RowsRead /\ RowsRead' = RowsRead \cup {range_no}
    BY <1>1, RowRead, Zenon
  <1>3. /\ lowers' = Put(lowers, n, LowersOf[range_no])
        /\ uppers' = Put(uppers, n, UppersOf[range_no])
        /\ lengths' = Put(lengths, n, LengthsOf[range_no])
    BY <1>1, Zenon DEF ScanRange, LowersOf, UppersOf, LengthsOf
  <1>4. LowersOf' = LowersOf /\ UppersOf' = UppersOf /\ LengthsOf' = LengthsOf
    BY <1>1, SampleKept, Zenon
  <1>5. InOrder(lowers, n, RowsRead, LowersOf) /\ InOrder(uppers, n, RowsRead, UppersOf)
        /\ InOrder(lengths, n, RowsRead, LengthsOf)
    BY Zenon DEF FromSample
  <1>. HIDE DEF n
  <1>6. /\ InOrder(lowers', n + 1, RowsRead', LowersOf)
        /\ InOrder(uppers', n + 1, RowsRead', UppersOf)
        /\ InOrder(lengths', n + 1, RowsRead', LengthsOf)
    BY <1>1, <1>2, <1>3, <1>5, ScanKeepsOrder, Zenon
  <1>. QED  BY <1>1, <1>4, <1>6, Zenon DEF FromSample

(* What the loops pick is the quantile of the sample.                      *)
LEMMA PickIsQuantile ==
    ASSUME TypeOK, AnalyzeInv, QuantileInv, pc \in {"bounds", "lengths"}, i < num_hist
    PROVE  /\ pos \in Array(non_empty_cnt) /\ i \in Nat
           /\ pc = "bounds" => /\ BoundQuantile(LowersOf, lowers[pos], i, num_hist)
                               /\ BoundQuantile(UppersOf, uppers[pos], i, num_hist)
                               /\ lowers[pos] = StoredBound(lowers[pos])
                               /\ uppers[pos] = StoredBound(uppers[pos])
           /\ pc = "lengths" => LengthQuantile(LengthsOf, lengths[pos], i, num_hist)
  <1>. DEFINE n == non_empty_cnt
  <1>1. /\ n \in Nat \ {0} /\ num_hist \in Nat /\ num_hist >= 2 /\ i \in Nat
        /\ posfrac \in 0 .. num_hist - 2
    BY DEF TypeOK
  <1>2. pos \in Array(n) /\ pos * (num_hist - 1) + posfrac = i * (n - 1)
    BY LoopSteps, Zenon DEF AnalyzeInv, Spacing
  <1>3. /\ InOrder(lowers, n, RangeRows, LowersOf) /\ InOrder(uppers, n, RangeRows, UppersOf)
        /\ InOrder(lengths, n, RangeRows, LengthsOf)
    BY AllRead, Zenon DEF QuantileInv, Sorted, FromSample
  <1>4. /\ LowersOf \in [RangeRows -> RangeBound] /\ UppersOf \in [RangeRows -> RangeBound]
        /\ LengthsOf \in [RangeRows -> Nat]
        /\ \A r \in RangeRows : /\ LowersOf[r] = StoredBound(LowersOf[r])
                                /\ UppersOf[r] = StoredBound(UppersOf[r])
    BY SampleFacts, Zenon DEF AnalyzeInv
  <1>5. PICK p \in Bijection(Array(n), RangeRows) : lowers = [r \in Array(n) |-> LowersOf[p[r]]]
    BY <1>3, Zenon DEF InOrder
  <1>6. PICK q \in Bijection(Array(n), RangeRows) : uppers = [r \in Array(n) |-> UppersOf[q[r]]]
    BY <1>3, Zenon DEF InOrder
  <1>7. PICK w \in Bijection(Array(n), RangeRows) : lengths = [r \in Array(n) |-> LengthsOf[w[r]]]
    BY <1>3, Zenon DEF InOrder
  <1>8. /\ lowers[pos] = LowersOf[p[pos]] /\ p[pos] \in RangeRows
        /\ uppers[pos] = UppersOf[q[pos]] /\ q[pos] \in RangeRows
        /\ lengths[pos] = LengthsOf[w[pos]]
    <2>1. p \in [Array(n) -> RangeRows] /\ q \in [Array(n) -> RangeRows]
      BY Zenon DEF Bijection, Injection
    <2>. QED  BY <1>2, <1>5, <1>6, <1>7, <2>1, Zenon
  <1>9. ASSUME pc = "bounds"
        PROVE  /\ AscendingBounds(n, [r \in Array(n) |-> LowersOf[p[r]]])
               /\ AscendingBounds(n, [r \in Array(n) |-> UppersOf[q[r]]])
    BY <1>5, <1>6, <1>9, Zenon DEF QuantileInv, Sorted
  <1>10. ASSUME pc = "lengths"
         PROVE  AscendingLengths(n, [r \in Array(n) |-> LengthsOf[w[r]]])
    BY <1>7, <1>10, Zenon DEF QuantileInv, Sorted
  <1>. HIDE DEF n
  <1>11. ASSUME pc = "bounds"
         PROVE  /\ BoundQuantile(LowersOf, lowers[pos], i, num_hist)
                /\ BoundQuantile(UppersOf, uppers[pos], i, num_hist)
    <2>1. BoundQuantile(LowersOf, LowersOf[p[pos]], i, num_hist)
      BY <1>1, <1>2, <1>4, <1>9, <1>11, SortedBoundIsQuantile, Zenon
    <2>2. BoundQuantile(UppersOf, UppersOf[q[pos]], i, num_hist)
      BY <1>1, <1>2, <1>4, <1>9, <1>11, SortedBoundIsQuantile, Zenon
    <2>. QED  BY <1>8, <2>1, <2>2, Zenon
  <1>12. ASSUME pc = "lengths" PROVE LengthQuantile(LengthsOf, lengths[pos], i, num_hist)
    <2>1. LengthQuantile(LengthsOf, LengthsOf[w[pos]], i, num_hist)
      BY <1>1, <1>2, <1>4, <1>10, <1>12, SortedLengthIsQuantile, Zenon
    <2>. QED  BY <1>8, <2>1, Zenon
  <1>. QED  BY <1>1, <1>2, <1>4, <1>8, <1>11, <1>12, Zenon DEF n

(* A histogram is stored when all of it has been picked.                   *)
LEMMA WholeHistogram ==
    ASSUME TypeOK, Picked, pc \in {"bounds", "lengths"}, i >= num_hist
    PROVE  Cardinality(DOMAIN hist) = num_hist
  <1>1. num_hist \in Nat /\ i = num_hist
    BY DEF TypeOK
  <1>2. DOMAIN hist = 0 .. num_hist - 1
    BY <1>1, Zenon DEF Picked, Array
  <1>. QED  BY <1>1, <1>2, IntervalSize

(* Every step of compute_range_stats keeps the arrays orders of the sample *)
(* and what is picked from them quantiles of it.                           *)
LEMMA QuantileStep ==
    ASSUME TypeOK, AnalyzeInv, QuantileInv, [Next \/ Returned]_vars
    PROVE  QuantileInv'
  <1>. FromSample /\ Sorted /\ Picked /\ Quantiles
    BY Zenon DEF QuantileInv
  <1>1. CASE ScanNull \/ ScanEmpty
    <2>1. /\ pc = "scan" /\ pc' = pc /\ range_no < samplerows /\ range_no' = range_no + 1
          /\ UNCHANGED <<input, non_empty_cnt, lowers, uppers, lengths, slots>>
          /\ sample[range_no] = Null \/ sample[range_no].empty
      BY <1>1, Zenon DEF ScanNull, ScanEmpty, stats, slotvars
    <2>2. RowsRead' = RowsRead
      BY <2>1, RowRead, Zenon DEF RangeRows
    <2>3. LowersOf' = LowersOf /\ UppersOf' = UppersOf /\ LengthsOf' = LengthsOf
      BY <2>1, SampleKept, Zenon
    <2>4. FromSample'
      BY <2>1, <2>2, <2>3, Zenon DEF FromSample
    <2>5. Quantiles'
      BY <2>1, QuantilesKept, Zenon
    <2>. QED  BY <2>1, <2>4, <2>5, Zenon DEF QuantileInv, Sorted, Picked
  <1>2. CASE ScanRange
    <2>1. pc' = "scan" /\ UNCHANGED <<input, slots>>
      BY <1>2, Zenon DEF ScanRange, stats, slotvars
    <2>2. FromSample' /\ Quantiles'
      BY <1>2, <2>1, ScanFromSample, QuantilesKept, Zenon
    <2>. QED  BY <2>1, <2>2, Zenon DEF QuantileInv, Sorted, Picked
  <1>3. CASE SortBounds
    <2>1. /\ pc' = "bounds" /\ range_no = samplerows /\ UNCHANGED <<input, scanned, lengths, slots>>
          /\ lowers' \in Rearranged(non_empty_cnt, lowers) /\ AscendingBounds(non_empty_cnt, lowers')
          /\ uppers' \in Rearranged(non_empty_cnt, uppers) /\ AscendingBounds(non_empty_cnt, uppers')
      BY <1>3, Zenon DEF SortBounds, slotvars
    <2>2. non_empty_cnt' = non_empty_cnt /\ range_no' = range_no /\ samplerows' = samplerows
      BY <2>1, Zenon DEF scanned, input
    <2>3. RowsRead' = RowsRead /\ LowersOf' = LowersOf /\ UppersOf' = UppersOf /\ LengthsOf' = LengthsOf
      BY <2>1, <2>2, SampleKept, Zenon DEF RowsRead
    <2>4. FromSample'
      <3>1. non_empty_cnt \in Nat
        BY DEF TypeOK
      <3>2. /\ InOrder(lowers', non_empty_cnt, RowsRead, LowersOf)
            /\ InOrder(uppers', non_empty_cnt, RowsRead, UppersOf)
        BY <2>1, <3>1, SortKeepsOrder, Zenon DEF FromSample
      <3>. QED  BY <2>1, <2>2, <2>3, <3>2, Zenon DEF FromSample
    <2>5. Quantiles'
      BY <2>1, QuantilesKept, Zenon
    <2>6. Sorted'
      BY <2>1, <2>2, Zenon DEF Sorted
    <2>7. Picked'
      <3>1. i' = 0 /\ DOMAIN hist' = {} /\ Array(0) = {}
        BY <1>3 DEF SortBounds, StartLoop, Array
      <3>. QED  BY <2>1, <3>1, Zenon DEF Picked, BoundsPicked
    <2>. QED  BY <2>4, <2>5, <2>6, <2>7, Zenon DEF QuantileInv
  <1>4. CASE PickBound
    <2>1. pc = "bounds" /\ i < num_hist /\ UNCHANGED <<input, scanned, lowers, uppers, lengths, slots>>
      BY <1>4, Zenon DEF PickBound, stats, slotvars
    <2>2. /\ pos \in Array(non_empty_cnt) /\ i \in Nat
          /\ BoundQuantile(LowersOf, lowers[pos], i, num_hist)
          /\ BoundQuantile(UppersOf, uppers[pos], i, num_hist)
          /\ lowers[pos] = StoredBound(lowers[pos]) /\ uppers[pos] = StoredBound(uppers[pos])
      BY <2>1, PickIsQuantile, Zenon
    <2>. DEFINE v == range_serialize(lowers[pos], uppers[pos])
    <2>3. ~SerializeError(lowers[pos], uppers[pos]) /\ ~v.empty
      BY <2>2, OrderedPairSerializes, Zenon DEF TypeOK, AnalyzeInv, RowsAreRanges
    <2>4. v.lower = lowers[pos] /\ v.upper = uppers[pos]
      BY <2>2, <2>3 DEF range_serialize, EmptyRange
    <2>5. hist' = Put(hist, i, v) /\ i' = i + 1 /\ pc' = pc /\ num_hist' = num_hist
      BY <1>4, <2>3, Zenon DEF PickBound, Advance
    <2>. HIDE DEF v
    <2>6. FromSample' /\ Quantiles'
      BY <2>1, FromSampleKept, QuantilesKept, Zenon
    <2>7. Sorted'
      BY <2>1, <2>5, Zenon DEF Sorted, scanned, input
    <2>8. Picked'
      <3>1. /\ DOMAIN hist' = Array(i') /\ hist'[i] = v
            /\ \A j \in DOMAIN hist' : j = i \/ (j \in Array(i) /\ hist'[j] = hist[j])
        BY <2>2, <2>5 DEF Put, Array
      <3>2. DOMAIN hist = Array(i) /\ BoundsPicked(hist, num_hist)
        BY <2>1, Zenon DEF Picked
      <3>3. \A j \in DOMAIN hist' : /\ BoundQuantile(LowersOf, hist'[j].lower, j, num_hist)
                                    /\ BoundQuantile(UppersOf, hist'[j].upper, j, num_hist)
        BY <2>2, <2>4, <3>1, <3>2, Zenon DEF BoundsPicked
      <3>4. LowersOf' = LowersOf /\ UppersOf' = UppersOf
        BY <2>1, SampleKept, Zenon
      <3>. QED  BY <2>1, <2>5, <3>1, <3>3, <3>4, Zenon DEF Picked, BoundsPicked
    <2>. QED  BY <2>6, <2>7, <2>8, Zenon DEF QuantileInv
  <1>5. CASE SortLengths
    <2>1. /\ pc = "bounds" /\ pc' = "lengths" /\ i >= num_hist
          /\ UNCHANGED <<input, scanned, lowers, uppers>>
          /\ lengths' \in Rearranged(non_empty_cnt, lengths) /\ AscendingLengths(non_empty_cnt, lengths')
          /\ Store(Slot("bounds", hist, <<>>))
      BY <1>5, Zenon DEF SortLengths
    <2>2. non_empty_cnt' = non_empty_cnt /\ range_no' = range_no /\ samplerows' = samplerows
      BY <2>1, Zenon DEF scanned, input
    <2>3. RowsRead' = RowsRead /\ LowersOf' = LowersOf /\ UppersOf' = UppersOf /\ LengthsOf' = LengthsOf
      BY <2>1, <2>2, SampleKept, Zenon DEF RowsRead
    <2>4. FromSample'
      <3>1. non_empty_cnt \in Nat
        BY DEF TypeOK
      <3>2. InOrder(lengths', non_empty_cnt, RowsRead, LengthsOf)
        BY <2>1, <3>1, SortKeepsOrder, Zenon DEF FromSample
      <3>. QED  BY <2>1, <2>2, <2>3, <3>2, Zenon DEF FromSample
    <2>5. Quantiles'
      <3>1. BoundsPicked(hist, Cardinality(DOMAIN hist))
        BY <2>1, WholeHistogram, Zenon DEF Picked
      <3>. DEFINE slot == Slot("bounds", hist, <<>>)
      <3>2. slot.kind = "bounds" /\ slot.values = hist
        BY Zenon DEF Slot
      <3>3. "bounds" # "lengths"
        OBVIOUS
      <3>. HIDE DEF slot
      <3>. QED  BY <2>1, <3>1, <3>2, <3>3, StoreQuantiles, Zenon DEF slot
    <2>6. Sorted'
      BY <2>1, <2>2, Zenon DEF Sorted
    <2>7. Picked'
      <3>1. i' = 0 /\ DOMAIN hist' = {} /\ Array(0) = {}
        BY <1>5 DEF SortLengths, StartLoop, Array
      <3>. QED  BY <2>1, <3>1, Zenon DEF Picked, LengthsPicked
    <2>. QED  BY <2>4, <2>5, <2>6, <2>7, Zenon DEF QuantileInv
  <1>6. CASE PickLength
    <2>1. /\ pc = "lengths" /\ pc' = pc /\ i < num_hist /\ num_hist' = num_hist /\ i' = i + 1
          /\ UNCHANGED <<input, scanned, lowers, uppers, lengths, slots>>
          /\ hist' = Put(hist, i, lengths[pos])
      BY <1>6, Zenon DEF PickLength, Advance, stats, slotvars
    <2>2. i \in Nat /\ LengthQuantile(LengthsOf, lengths[pos], i, num_hist)
      BY <2>1, PickIsQuantile, Zenon
    <2>3. FromSample' /\ Quantiles'
      BY <2>1, FromSampleKept, QuantilesKept, Zenon
    <2>4. Sorted'
      BY <2>1, Zenon DEF Sorted, scanned, input
    <2>5. Picked'
      <3>1. /\ DOMAIN hist' = Array(i') /\ hist'[i] = lengths[pos]
            /\ \A j \in DOMAIN hist' : j = i \/ (j \in Array(i) /\ hist'[j] = hist[j])
        BY <2>1, <2>2 DEF Put, Array
      <3>2. DOMAIN hist = Array(i) /\ LengthsPicked(hist, num_hist)
        BY <2>1, Zenon DEF Picked
      <3>3. \A j \in DOMAIN hist' : LengthQuantile(LengthsOf, hist'[j], j, num_hist)
        BY <2>2, <3>1, <3>2, Zenon DEF LengthsPicked
      <3>4. LengthsOf' = LengthsOf
        BY <2>1, SampleKept, Zenon
      <3>. QED  BY <2>1, <3>1, <3>3, <3>4, Zenon DEF Picked, LengthsPicked
    <2>. QED  BY <2>3, <2>4, <2>5, Zenon DEF QuantileInv
  <1>7. CASE CallFrequency \/ FewValues \/ StoreFrequency
    <2>1. /\ UNCHANGED <<input, scanned, lowers, uppers, lengths>>
          /\ pc' \in {"frequency", "segv", "done"}
          /\ pc # "scan" \/ range_no = samplerows
      BY <1>7, Zenon DEF CallFrequency, FewValues, StoreFrequency
    <2>2. FromSample'
      BY <2>1, FromSampleKept, Zenon
    <2>3. Sorted' /\ Picked'
      BY <2>1, Zenon DEF Sorted, Picked, scanned, input
    <2>4. PICK kind, values, numbers :
            /\ kind \in {"lengths", "frequency"} /\ Store(Slot(kind, values, numbers))
            /\ kind = "lengths" => LengthsPicked(values, Cardinality(DOMAIN values))
      <3>1. CASE CallFrequency
        <4>1. LengthsPicked(hist, Cardinality(DOMAIN hist))
          BY <3>1, WholeHistogram, Zenon DEF CallFrequency, Picked
        <4>. QED  BY <3>1, <4>1, Zenon DEF CallFrequency
      <3>2. CASE FewValues
        <4>1. DOMAIN <<>> = {}
          OBVIOUS
        <4>2. LengthsPicked(<<>>, Cardinality(DOMAIN <<>>))
          BY <4>1, Zenon DEF LengthsPicked
        <4>. QED  BY <3>2, <4>2, Zenon DEF FewValues
      <3>3. CASE StoreFrequency
        <4>1. "frequency" # "lengths"
          OBVIOUS
        <4>2. Store(Slot("frequency", freq, <<>>))
          BY <3>3, Zenon DEF StoreFrequency
        <4>. QED  BY <4>1, <4>2, Zenon
      <3>. QED  BY <1>7, <3>1, <3>2, <3>3, Zenon
    <2>5. Quantiles'
      <3>. DEFINE slot == Slot(kind, values, numbers)
      <3>1. slot.kind = kind /\ slot.values = values
        BY Zenon DEF Slot
      <3>2. "bounds" # "lengths" /\ "bounds" # "frequency"
        OBVIOUS
      <3>. HIDE DEF slot
      <3>. QED  BY <2>1, <2>4, <3>1, <3>2, StoreQuantiles, Zenon DEF slot
    <2>. QED  BY <2>2, <2>3, <2>5, Zenon DEF QuantileInv
  <1>8. CASE OnlyNulls \/ Frequency \/ Returned \/ UNCHANGED vars
    <2>1. /\ UNCHANGED <<input, scanned, lowers, uppers, lengths, loop, slots>>
          /\ pc' = pc \/ (pc' = "done" /\ range_no = samplerows)
      BY <1>8, Zenon DEF OnlyNulls, Frequency, Returned, vars, stats, slotvars
    <2>2. FromSample' /\ Quantiles'
      BY <2>1, FromSampleKept, QuantilesKept, Zenon
    <2>3. Sorted'
      BY <2>1, Zenon DEF Sorted, scanned, input
    <2>4. Picked'
      <3>1. LowersOf' = LowersOf /\ UppersOf' = UppersOf /\ LengthsOf' = LengthsOf
        BY <2>1, SampleKept, Zenon
      <3>. QED  BY <2>1, <3>1, Zenon DEF Picked, BoundsPicked, LengthsPicked, loop
    <2>. QED  BY <2>2, <2>3, <2>4, Zenon DEF QuantileInv
  <1>. QED  BY <1>1, <1>2, <1>3, <1>4, <1>5, <1>6, <1>7, <1>8, Zenon DEF Next

(* Nothing has been read at first.                                         *)
LEMMA QuantileInit ==
    ASSUME Init
    PROVE  QuantileInv
  <1>1. /\ pc = "scan" /\ range_no = 0 /\ non_empty_cnt = 0 /\ Array(0) = {}
        /\ DOMAIN slots = {} /\ RowsRead = {}
    <2>1. \A r \in RangeNos : ~ (r < 0)
      BY AnalyzeInit DEF TypeOK, RangeNos
    <2>2. pc = "scan" /\ range_no = 0 /\ non_empty_cnt = 0 /\ DOMAIN slots = {} /\ Array(0) = {}
      BY DEF Init, Array
    <2>. QED  BY <2>1, <2>2, Zenon DEF RowsRead, RangeRows
  <1>2. \A g : <<>> = [r \in {} |-> g[<<>>[r]]]
    OBVIOUS
  <1>3. <<>> \in Bijection({}, {})
    BY DEF Bijection, Injection, Surjection, IsInjective
  <1>4. lowers = <<>> /\ uppers = <<>> /\ lengths = <<>>
    BY Zenon DEF Init
  <1>5. FromSample
    BY <1>1, <1>2, <1>3, <1>4, Zenon DEF FromSample, InOrder
  <1>6. Sorted /\ Picked /\ Quantiles
    BY <1>1, Zenon DEF Sorted, Picked, Quantiles
  <1>. QED  BY <1>5, <1>6, Zenon DEF QuantileInv

(* For every sample and target: each entry of the bounds and of the length *)
(* histogram compute_range_stats stores is the evenly spaced quantile of   *)
(* the sample it is stored for, whatever order qsort leaves equals in.     *)
THEOREM HistogramQuantiles == Spec => []Quantiles
  <1>1. QuantileInv /\ (TypeOK /\ AnalyzeInv) /\ [Next \/ Returned]_vars => QuantileInv'
    BY QuantileStep, Zenon
  <1>2. Init => QuantileInv
    BY QuantileInit, Zenon
  <1>3. QuantileInv => Quantiles
    BY Zenon DEF QuantileInv
  <1>. QED  BY <1>1, <1>2, <1>3, AnalyzeInvariant, PTL DEF Spec
=============================================================================
