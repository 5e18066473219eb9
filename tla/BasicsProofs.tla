----------------------------- MODULE BasicsProofs ----------------------------
(***************************************************************************)
(* Facts about C arithmetic and the interval grid, for every IntMax and    *)
(* WeightInv; and about range bounds: range_cmp_bounds is a total preorder, *)
(* and what it says about a pair of bounds decides what range_serialize    *)
(* does.  Last, what the keys of the range operator class promise: a key   *)
(* covers what is below it through any number of levels, range_super_union *)
(* gives the least key that covers both, and a search that skips a page by *)
(* its key misses nothing.                                                 *)
(***************************************************************************)
EXTENDS Intervals, RangeGist, WellFoundedInduction, TLAPS

(* An int keeps a value that fits.                                         *)
LEMMA WrapIdentity == \A x \in Int32 : Wrap(x) = x
  BY IntMaxAssumption DEF Int32, Wrap

(* Whatever is assigned to an int is an int.                               *)
LEMMA WrapType == \A x \in Int : Wrap(x) \in Int32
  BY IntMaxAssumption DEF Int32, Wrap

(* C division of ints by a nonzero int is an int.                          *)
LEMMA DivisionType ==
    ASSUME NEW a \in Int, NEW b \in Int \ {0}
    PROVE  CDiv(a, b) \in Int /\ roundUpDivision(a, b) \in Int
  <1>1. CDiv(a, b) \in Int
    BY DEF CDiv, Abs
  <1>2. CMod(a, b) \in Int
    BY <1>1 DEF CMod
  <1>. QED  BY <1>1, <1>2 DEF roundUpDivision

(* When neither division traps the grid consists of ints.                  *)
LEMMA GridType ==
    ASSUME NEW length \in Int, WeightDivider(length) # 0, NbOfIntervals(length) # 0
    PROVE  NbOfIntervals(length) \in Int /\ IntervalLength(length) \in Int
  <1>1. WeightDivider(length) \in Int
    BY DivisionType, WeightInvAssumption DEF WeightDivider
  <1>2. NbOfIntervals(length) \in Int
    BY <1>1, DivisionType, Zenon DEF NbOfIntervals
  <1>. QED  BY <1>2, DivisionType, Zenon DEF IntervalLength

(* Multiples of a step grow with the multiplier.                           *)
LEMMA MultipleMonotone == \A a, b, c \in Nat : a <= b => a * c <= b * c
  OBVIOUS

(* roundUpDivision is the ceiling of the quotient of two positive ints:    *)
(* the least number of dividers that reach the numerator.                  *)
LEMMA RoundUpDivision ==
    ASSUME NEW n \in Nat \ {0}, NEW d \in Nat \ {0}
    PROVE  /\ roundUpDivision(n, d) \in Nat \ {0}
           /\ roundUpDivision(n, d) * d >= n
           /\ (roundUpDivision(n, d) - 1) * d < n
           /\ roundUpDivision(n, d) <= n
  <1>1. /\ roundUpDivision(n, d) \in Nat \ {0}
        /\ roundUpDivision(n, d) * d >= n
        /\ (roundUpDivision(n, d) - 1) * d < n
    BY DEF roundUpDivision, CDiv, CMod, Abs
  <1>2. roundUpDivision(n, d) <= n
    <2>1. SUFFICES ASSUME NEW q \in Nat \ {0}, (q - 1) * d < n PROVE q <= n
      BY <1>1, Zenon
    <2>2. (q - 1) <= (q - 1) * d
      BY MultipleMonotone
    <2>. QED  BY <2>1, <2>2
  <1>. QED  BY <1>1, <1>2, Zenon

(* The divider ComputeFrequencyHistogram derives from WEIGHT is positive   *)
(* for a positive length, and WeightInv of them exceed the length.         *)
LEMMA WeightDividerPositive ==
    ASSUME NEW length \in Nat \ {0}
    PROVE  /\ WeightDivider(length) \in Nat \ {0}
           /\ WeightInv * WeightDivider(length) > length
  BY WeightInvAssumption DEF WeightDivider, CDiv, Abs

(* The grid of a positive length: neither division traps, the intervals    *)
(* are not empty, and together they cover the length.  There are never     *)
(* more than WeightInv (20) of them, whatever the column holds.            *)
THEOREM GridOfLength ==
    ASSUME NEW length \in Nat \ {0}
    PROVE  /\ WeightDivider(length) # 0
           /\ NbOfIntervals(length) \in 1 .. WeightInv
           /\ IntervalLength(length) \in 1 .. length
           /\ NbOfIntervals(length) * IntervalLength(length) >= length
  <1>1. /\ WeightDivider(length) \in Nat \ {0}
        /\ WeightInv * WeightDivider(length) > length
    BY WeightDividerPositive, Zenon
  <1>2. /\ NbOfIntervals(length) \in Nat \ {0}
        /\ (NbOfIntervals(length) - 1) * WeightDivider(length) < length
    BY <1>1, RoundUpDivision, Zenon DEF NbOfIntervals
  <1>3. NbOfIntervals(length) <= WeightInv
    <2>1. SUFFICES ASSUME NEW n \in Nat \ {0}, NEW d \in Nat \ {0},
                          (n - 1) * d < length, WeightInv * d > length, n > WeightInv
                   PROVE  FALSE
      BY <1>1, <1>2, WeightInvAssumption
    <2>2. WeightInv * d <= (n - 1) * d
      BY <2>1, MultipleMonotone, WeightInvAssumption
    <2>. QED  BY <2>1, <2>2, WeightInvAssumption
  <1>4. /\ IntervalLength(length) \in Nat \ {0}
        /\ IntervalLength(length) * NbOfIntervals(length) >= length
        /\ IntervalLength(length) <= length
    BY <1>2, RoundUpDivision, Zenon DEF IntervalLength
  <1>. QED  BY <1>1, <1>2, <1>3, <1>4, WeightInvAssumption

(* A multiple that reaches a bound which the one before it does not reach  *)
(* is the only one.                                                        *)
LEMMA CeilingUnique ==
    ASSUME NEW n \in Nat \ {0}, NEW d \in Nat \ {0}, NEW p \in Nat \ {0}, NEW q \in Nat \ {0},
           p * d >= n, (p - 1) * d < n, q * d >= n, (q - 1) * d < n
    PROVE  p = q
  <1>1. ASSUME p < q PROVE FALSE
    <2>1. p * d <= (q - 1) * d
      BY <1>1, MultipleMonotone
    <2>. QED  BY <2>1
  <1>2. ASSUME q < p PROVE FALSE
    <2>1. q * d <= (p - 1) * d
      BY <1>2, MultipleMonotone
    <2>. QED  BY <2>1
  <1>. QED  BY <1>1, <1>2

(* rangerestsel divides max1 - min1 where ANALYZE divided one more.  The   *)
(* planner's intervals have the length of ANALYZE's, unless their number   *)
(* divides max1 - min1; then they are one value shorter, and interval j of *)
(* the planner begins j values before the one its frequency was counted on.*)
THEOREM PlannerGridLength ==
    ASSUME NEW span \in Nat \ {0}, NEW n \in Nat \ {0}
    PROVE  roundUpDivision(span + 1, n)
             = roundUpDivision(span, n) + (IF span % n = 0 THEN 1 ELSE 0)
  <1>. DEFINE p == roundUpDivision(span + 1, n)
              q == roundUpDivision(span, n)
  <1>1. /\ p \in Nat \ {0} /\ p * n >= span + 1 /\ (p - 1) * n < span + 1
        /\ q \in Nat \ {0} /\ q * n >= span /\ (q - 1) * n < span
    BY RoundUpDivision
  <1>2. CASE span % n = 0
    <2>1. q * n = span
      BY <1>2 DEF roundUpDivision, CDiv, CMod, Abs
    <2>. HIDE DEF p, q
    <2>2. (q + 1) * n >= span + 1 /\ ((q + 1) - 1) * n < span + 1
      BY <1>1, <2>1
    <2>3. q + 1 = p
      BY <1>1, <2>2, CeilingUnique
    <2>. QED  BY <1>2, <2>3, <1>1, Zenon DEF p, q
  <1>3. CASE span % n # 0
    <2>1. q * n # span
      <3>1. \A m \in Nat : (m * n) % n = 0
        OBVIOUS
      <3>. HIDE DEF q
      <3>. QED  BY <1>1, <1>3, <3>1, Zenon
    <2>. HIDE DEF p, q
    <2>2. q * n >= span + 1 /\ (q - 1) * n < span + 1
      BY <1>1, <2>1
    <2>3. q = p
      BY <1>1, <2>2, CeilingUnique
    <2>. QED  BY <1>3, <2>3, <1>1 DEF p, q
  <1>. QED  BY <1>2, <1>3, Zenon

-----------------------------------------------------------------------------
(* Range bounds.                                                           *)

(* range_cmp_bounds answers -1, 0 or 1.                                    *)
LEMMA CmpBoundsType ==
    ASSUME NEW a \in RangeBound, NEW b \in RangeBound
    PROVE  range_cmp_bounds(a, b) \in {-1, 0, 1}
BY Zenon DEF range_cmp_bounds, CmpInfinite, CmpVal, RangeBound

(* Swapping the arguments of range_cmp_bounds changes the sign, which      *)
(* qsort relies on.                                                        *)
THEOREM CmpBoundsAntisymmetric ==
    ASSUME NEW a \in RangeBound, NEW b \in RangeBound
    PROVE  range_cmp_bounds(b, a) = -range_cmp_bounds(a, b)
BY DEF range_cmp_bounds, CmpInfinite, CmpVal, RangeBound

(* range_cmp_bounds is transitive over all four kinds of bounds, infinite  *)
(* or not, lower or upper, which qsort and the binary searches rely on.    *)
THEOREM CmpBoundsTransitive ==
    ASSUME NEW a \in RangeBound, NEW b \in RangeBound, NEW c \in RangeBound,
           range_cmp_bounds(a, b) <= 0, range_cmp_bounds(b, c) <= 0
    PROVE  range_cmp_bounds(a, c) <= 0
BY SMTT(60) DEF range_cmp_bounds, CmpInfinite, CmpVal, RangeBound

(* A lower bound that range_cmp_bounds puts at or below an upper bound     *)
(* gives a range: range_serialize neither raises an error nor stores the   *)
(* empty range.                                                            *)
THEOREM OrderedPairSerializes ==
    ASSUME NEW a \in RangeBound, NEW b \in RangeBound,
           a.lower = TRUE, b.lower = FALSE, range_cmp_bounds(a, b) <= 0
    PROVE  /\ ~SerializeError(a, b)
           /\ ~range_serialize(a, b).empty
<1>1. range_cmp_bound_values(a, b) <= 0
  BY DEF range_cmp_bound_values, range_cmp_bounds, CmpInfinite, CmpVal, RangeBound
<1>2. ~(range_cmp_bound_values(a, b) = 0 /\ ~(a.inclusive /\ b.inclusive))
  BY DEF range_cmp_bound_values, range_cmp_bounds, CmpInfinite, CmpVal, RangeBound
<1>3. range_cmp_bound_values(a, b) \in Int
  BY DEF range_cmp_bound_values, CmpInfinite, CmpVal, RangeBound
<1> QED
  BY <1>1, <1>2, <1>3 DEF SerializeError, range_serialize

-----------------------------------------------------------------------------
(* The range operator class for GiST.                                      *)

(* A range value as range_serialize stores it, with the flag of a key.     *)
KeyType == [empty : BOOLEAN, lower : RangeBound, upper : RangeBound, contain : BOOLEAN]
WellFormed(key) ==
    /\ key.lower.lower = TRUE /\ key.upper.lower = FALSE
    /\ ~key.empty => range_cmp_bounds(key.lower, key.upper) <= 0
ProperKey == {key \in KeyType : WellFormed(key)}

(* range_cmp_bounds of a bound with itself is 0.                           *)
LEMMA CmpReflexive == \A b \in RangeBound : range_cmp_bounds(b, b) = 0
  BY Zenon DEF range_cmp_bounds, CmpInfinite, CmpVal, RangeBound

(* The order of bounds as a relation, in the forms the proofs below use.   *)
LEMMA BoundOrder ==
    ASSUME NEW a \in RangeBound, NEW b \in RangeBound, NEW c \in RangeBound
    PROVE  /\ range_cmp_bounds(a, b) \in Int
           /\ range_cmp_bounds(a, a) = 0
           /\ range_cmp_bounds(b, a) = -range_cmp_bounds(a, b)
           /\ range_cmp_bounds(a, b) <= 0 /\ range_cmp_bounds(b, c) <= 0 => range_cmp_bounds(a, c) <= 0
           /\ range_cmp_bounds(a, b) < 0 /\ range_cmp_bounds(b, c) <= 0 => range_cmp_bounds(a, c) < 0
           /\ range_cmp_bounds(a, b) <= 0 /\ range_cmp_bounds(b, c) < 0 => range_cmp_bounds(a, c) < 0
  <1>1. /\ range_cmp_bounds(a, b) \in {-1, 0, 1} /\ range_cmp_bounds(b, c) \in {-1, 0, 1}
        /\ range_cmp_bounds(a, c) \in {-1, 0, 1}
    BY CmpBoundsType, Zenon
  <1>2. /\ range_cmp_bounds(b, a) = -range_cmp_bounds(a, b)
        /\ range_cmp_bounds(c, b) = -range_cmp_bounds(b, c)
        /\ range_cmp_bounds(c, a) = -range_cmp_bounds(a, c)
    BY CmpBoundsAntisymmetric, Zenon
  <1>3. range_cmp_bounds(a, b) <= 0 /\ range_cmp_bounds(b, c) <= 0 => range_cmp_bounds(a, c) <= 0
    BY CmpBoundsTransitive, Zenon
  <1>4. range_cmp_bounds(b, c) <= 0 /\ range_cmp_bounds(c, a) <= 0 => range_cmp_bounds(b, a) <= 0
    BY CmpBoundsTransitive, Zenon
  <1>5. range_cmp_bounds(c, a) <= 0 /\ range_cmp_bounds(a, b) <= 0 => range_cmp_bounds(c, b) <= 0
    BY CmpBoundsTransitive, Zenon
  <1>6. range_cmp_bounds(a, a) = 0
    BY CmpReflexive, Zenon
  <1> QED
    BY <1>1, <1>2, <1>3, <1>4, <1>5, <1>6

-----------------------------------------------------------------------------
(* Keys above keys.                                                        *)

(* A key covers what the keys it covers cover: an inner key speaks for the *)
(* tuples any number of levels below it.                                   *)
THEOREM CoversTransitive ==
    ASSUME NEW a \in KeyType, NEW b \in KeyType, NEW c \in KeyType,
           Covers(a, b), Covers(b, c)
    PROVE  Covers(a, c)
<1>1. ~c.empty => ~b.empty /\ ~a.empty
  BY Zenon DEF Covers
<1>2. /\ a.lower \in RangeBound /\ b.lower \in RangeBound /\ c.lower \in RangeBound
      /\ a.upper \in RangeBound /\ b.upper \in RangeBound /\ c.upper \in RangeBound
  BY Zenon DEF KeyType
<1>3. ~c.empty => range_cmp_bounds(a.lower, c.lower) <= 0
  BY <1>1, <1>2, BoundOrder, Zenon DEF Covers
<1>4. ~c.empty => range_cmp_bounds(a.upper, c.upper) >= 0
  <2>1. /\ range_cmp_bounds(c.upper, b.upper) = -range_cmp_bounds(b.upper, c.upper)
        /\ range_cmp_bounds(b.upper, a.upper) = -range_cmp_bounds(a.upper, b.upper)
        /\ range_cmp_bounds(c.upper, a.upper) = -range_cmp_bounds(a.upper, c.upper)
    BY <1>2, CmpBoundsAntisymmetric, Zenon
  <2>2. /\ range_cmp_bounds(c.upper, b.upper) <= 0 /\ range_cmp_bounds(b.upper, a.upper) <= 0
           => range_cmp_bounds(c.upper, a.upper) <= 0
        /\ range_cmp_bounds(b.upper, c.upper) \in Int /\ range_cmp_bounds(a.upper, b.upper) \in Int
        /\ range_cmp_bounds(a.upper, c.upper) \in Int
    BY <1>2, BoundOrder, Zenon
  <2> QED  BY <1>1, <2>1, <2>2 DEF Covers
<1> QED  BY <1>1, <1>3, <1>4, Zenon DEF Covers

(* range_super_union gives a key again: its bounds are in order.           *)
LEMMA SuperUnionProper ==
    ASSUME NEW a \in ProperKey, NEW b \in ProperKey
    PROVE  range_super_union(a, b) \in ProperKey
<1> DEFINE u == range_super_union(a, b)
<1>1. u \in KeyType
  BY Zenon DEF range_super_union, ProperKey, KeyType, Key
<1>2. u.lower.lower = TRUE /\ u.upper.lower = FALSE
  BY Zenon DEF range_super_union, ProperKey, WellFormed, KeyType, Key
<1>3. CASE a.empty \/ b.empty
  BY <1>1, <1>2, <1>3, Zenon DEF range_super_union, ProperKey, WellFormed, KeyType
<1>4. CASE ~a.empty /\ ~b.empty
  <2>1. /\ a.lower \in RangeBound /\ b.lower \in RangeBound
        /\ a.upper \in RangeBound /\ b.upper \in RangeBound
        /\ range_cmp_bounds(a.lower, a.upper) <= 0 /\ range_cmp_bounds(b.lower, b.upper) <= 0
    BY <1>4, Zenon DEF ProperKey, WellFormed, KeyType
  <2>2. /\ u.lower = IF range_cmp_bounds(a.lower, b.lower) <= 0 THEN a.lower ELSE b.lower
        /\ u.upper = IF range_cmp_bounds(a.upper, b.upper) >= 0 THEN a.upper ELSE b.upper
    BY <1>4, Zenon DEF range_super_union, Key
  <2>3. range_cmp_bounds(u.lower, a.lower) <= 0
    BY <2>1, <2>2, BoundOrder
  <2>4. range_cmp_bounds(a.upper, u.upper) <= 0
    BY <2>1, <2>2, BoundOrder
  <2>5. u.lower \in RangeBound /\ u.upper \in RangeBound
    BY <2>1, <2>2, Zenon
  <2> HIDE DEF u
  <2>6. range_cmp_bounds(u.lower, a.upper) <= 0
    BY <2>1, <2>3, <2>5, BoundOrder, Zenon
  <2>7. range_cmp_bounds(u.lower, u.upper) <= 0
    BY <2>1, <2>4, <2>5, <2>6, BoundOrder, Zenon
  <2> QED  BY <1>1, <1>2, <2>7, Zenon DEF ProperKey, WellFormed, u
<1> QED  BY <1>3, <1>4, Zenon

(* range_super_union covers both of its arguments: the key gistgetadjusted *)
(* and gistformdownlink write above a page covers what they put under it,  *)
(* absorbed empty ranges included.                                         *)
THEOREM SuperUnionCovers ==
    ASSUME NEW a \in ProperKey, NEW b \in ProperKey
    PROVE  Covers(range_super_union(a, b), a) /\ Covers(range_super_union(a, b), b)
<1>1. /\ a.lower \in RangeBound /\ b.lower \in RangeBound
      /\ a.upper \in RangeBound /\ b.upper \in RangeBound
      /\ a \in KeyType /\ b \in KeyType
  BY Zenon DEF ProperKey, KeyType
<1>2. /\ range_cmp_bounds(a.lower, a.lower) = 0 /\ range_cmp_bounds(b.lower, b.lower) = 0
      /\ range_cmp_bounds(a.upper, a.upper) = 0 /\ range_cmp_bounds(b.upper, b.upper) = 0
      /\ range_cmp_bounds(b.lower, a.lower) = -range_cmp_bounds(a.lower, b.lower)
      /\ range_cmp_bounds(b.upper, a.upper) = -range_cmp_bounds(a.upper, b.upper)
      /\ range_cmp_bounds(a.lower, b.lower) \in Int /\ range_cmp_bounds(a.upper, b.upper) \in Int
  BY <1>1, BoundOrder, Zenon
<1> DEFINE u == range_super_union(a, b)
<1>3. CASE a.empty
  <2>1. /\ (u.empty <=> b.empty) /\ u.lower = b.lower /\ u.upper = b.upper
        /\ (u.contain <=> b.contain \/ ~b.empty)
    BY <1>1, <1>3, Zenon DEF range_super_union, KeyType
  <2> HIDE DEF u
  <2>2. Covers(u, a) /\ Covers(u, b)
    BY <1>2, <1>3, <2>1 DEF Covers, RangeIsOrContainsEmpty
  <2> QED  BY <2>2, Zenon DEF u
<1>4. CASE ~a.empty /\ b.empty
  <2>1. ~u.empty /\ u.lower = a.lower /\ u.upper = a.upper /\ u.contain
    BY <1>1, <1>4, Zenon DEF range_super_union, KeyType
  <2> HIDE DEF u
  <2>2. Covers(u, a) /\ Covers(u, b)
    BY <1>2, <1>4, <2>1 DEF Covers, RangeIsOrContainsEmpty
  <2> QED  BY <2>2, Zenon DEF u
<1>5. CASE ~a.empty /\ ~b.empty
  <2>1. /\ ~u.empty /\ (u.contain <=> a.contain \/ b.contain)
        /\ u.lower = IF range_cmp_bounds(a.lower, b.lower) <= 0 THEN a.lower ELSE b.lower
        /\ u.upper = IF range_cmp_bounds(a.upper, b.upper) >= 0 THEN a.upper ELSE b.upper
    BY <1>1, <1>5, Zenon DEF range_super_union, Key, KeyType
  <2> HIDE DEF u
  <2>2. /\ range_cmp_bounds(u.lower, a.lower) <= 0 /\ range_cmp_bounds(u.upper, a.upper) >= 0
        /\ range_cmp_bounds(u.lower, b.lower) <= 0 /\ range_cmp_bounds(u.upper, b.upper) >= 0
    BY <1>2, <2>1
  <2>3. Covers(u, a) /\ Covers(u, b)
    BY <1>5, <2>1, <2>2, Zenon DEF Covers, RangeIsOrContainsEmpty
  <2> QED  BY <2>3, Zenon DEF u
<1> QED  BY <1>3, <1>4, <1>5, Zenon

(* A key that range_gist_same finds unchanged by a union covers what was   *)
(* added: gistgetadjusted answers NULL, and the insert leaves the downlink *)
(* as it is, only where the downlink covers the new tuple already.         *)
THEOREM UnchangedKeyCovers ==
    ASSUME NEW old \in ProperKey, NEW new \in ProperKey,
           range_gist_same(old, range_super_union(old, new))
    PROVE  Covers(old, new)
<1> DEFINE u == range_super_union(old, new)
<1>1. u \in ProperKey /\ Covers(u, new) /\ range_gist_same(old, u)
  BY SuperUnionProper, SuperUnionCovers, Zenon
<1> HIDE DEF u
<1>2. old \in KeyType /\ u \in KeyType /\ new \in KeyType
  BY <1>1, Zenon DEF ProperKey
<1>3. Covers(old, u)
  <2>1. /\ old.contain = u.contain
        /\ \/ old.empty /\ u.empty
           \/ /\ ~old.empty /\ ~u.empty
              /\ range_cmp_bounds(old.lower, u.lower) = 0
              /\ range_cmp_bounds(old.upper, u.upper) = 0
    BY <1>1, Zenon DEF range_gist_same, range_eq_internal
  <2> QED  BY <2>1 DEF Covers, RangeIsOrContainsEmpty
<1> QED  BY <1>1, <1>2, <1>3, CoversTransitive, Zenon

-----------------------------------------------------------------------------
(* Keys and searches.                                                      *)

StoredRange == {r \in [empty : BOOLEAN, lower : RangeBound, upper : RangeBound] : WellFormed(r)}

(* The argument of a query: an element of the subtype or a range.          *)
Argument(strategy) == IF strategy = "contains_elem" THEN Int ELSE StoredRange

(* Four bounds in the positions that covering puts them in.                *)
LEMMA CoveredBounds ==
    ASSUME NEW key \in ProperKey, NEW below \in ProperKey, Covers(key, below), ~below.empty
    PROVE  /\ ~key.empty
           /\ key.lower \in RangeBound /\ key.upper \in RangeBound
           /\ below.lower \in RangeBound /\ below.upper \in RangeBound
           /\ key.lower.lower = TRUE /\ key.upper.lower = FALSE
           /\ below.lower.lower = TRUE /\ below.upper.lower = FALSE
           /\ range_cmp_bounds(key.lower, below.lower) <= 0
           /\ range_cmp_bounds(below.upper, key.upper) <= 0
           /\ range_cmp_bounds(below.lower, below.upper) <= 0
<1>1. /\ key.lower \in RangeBound /\ key.upper \in RangeBound
      /\ below.lower \in RangeBound /\ below.upper \in RangeBound
  BY Zenon DEF ProperKey, KeyType
<1>2. /\ range_cmp_bounds(below.upper, key.upper) = -range_cmp_bounds(key.upper, below.upper)
      /\ range_cmp_bounds(key.upper, below.upper) \in Int
  BY <1>1, BoundOrder, Zenon
<1> QED  BY <1>1, <1>2 DEF Covers, ProperKey, WellFormed

(* Where a range overlaps the query, so does every key that covers it.     *)
LEMMA OverlapsUpward ==
    ASSUME NEW key \in ProperKey, NEW below \in ProperKey, Covers(key, below),
           NEW q \in StoredRange, range_overlaps_internal(below, q)
    PROVE  range_overlaps_internal(key, q)
<1>1. ~below.empty /\ ~q.empty
  BY Zenon DEF range_overlaps_internal
<1>2. /\ q.lower \in RangeBound /\ q.upper \in RangeBound /\ range_cmp_bounds(q.lower, q.upper) <= 0
  BY <1>1, Zenon DEF StoredRange, WellFormed
<1> DEFINE kl == key.lower  ku == key.upper  bl == below.lower  bu == below.upper
           ql == q.lower    qu == q.upper
<1>3. /\ ~key.empty /\ kl \in RangeBound /\ ku \in RangeBound /\ bl \in RangeBound /\ bu \in RangeBound
      /\ range_cmp_bounds(kl, bl) <= 0 /\ range_cmp_bounds(bu, ku) <= 0 /\ range_cmp_bounds(bl, bu) <= 0
  BY <1>1, CoveredBounds, Zenon
<1>4. ql \in RangeBound /\ qu \in RangeBound /\ range_cmp_bounds(ql, qu) <= 0
  BY <1>2, Zenon
<1>5. \/ range_cmp_bounds(bl, ql) >= 0 /\ range_cmp_bounds(bl, qu) <= 0
      \/ range_cmp_bounds(ql, bl) >= 0 /\ range_cmp_bounds(ql, bu) <= 0
  BY Zenon DEF range_overlaps_internal
<1>6. SUFFICES \/ range_cmp_bounds(kl, ql) >= 0 /\ range_cmp_bounds(kl, qu) <= 0
               \/ range_cmp_bounds(ql, kl) >= 0 /\ range_cmp_bounds(ql, ku) <= 0
  BY <1>1, <1>3, Zenon DEF range_overlaps_internal
<1> HIDE DEF kl, ku, bl, bu, ql, qu
<1>7. range_cmp_bounds(kl, qu) <= 0
  <2>1. range_cmp_bounds(bl, qu) <= 0
    <3>1. range_cmp_bounds(ql, bl) >= 0 => range_cmp_bounds(bl, ql) <= 0
      BY <1>3, <1>4, BoundOrder
    <3> QED  BY <1>3, <1>4, <1>5, <3>1, BoundOrder, Zenon
  <2> QED  BY <1>3, <1>4, <2>1, BoundOrder, Zenon
<1>8. range_cmp_bounds(ql, ku) <= 0
  <2>1. range_cmp_bounds(ql, bu) <= 0
    <3>1. range_cmp_bounds(bl, ql) >= 0 => range_cmp_bounds(ql, bl) <= 0
      BY <1>3, <1>4, BoundOrder
    <3> QED  BY <1>3, <1>4, <1>5, <3>1, BoundOrder, Zenon
  <2> QED  BY <1>3, <1>4, <2>1, BoundOrder, Zenon
<1>9. range_cmp_bounds(kl, ql) >= 0 \/ range_cmp_bounds(ql, kl) >= 0
  BY <1>3, <1>4, BoundOrder
<1> QED  BY <1>7, <1>8, <1>9, Zenon

(* An upper and a lower bound at the same place are finite.                *)
LEMMA SameValueFinite ==
    ASSUME NEW u \in RangeBound, NEW l \in RangeBound, u.lower = FALSE, l.lower = TRUE,
           range_cmp_bound_values(u, l) = 0
    PROVE  ~u.infinite /\ ~l.infinite /\ u.val = l.val
  BY DEF range_cmp_bound_values, CmpInfinite, CmpVal, RangeBound

(* Adjacent bounds: the upper one is below the lower one, and moving       *)
(* either of them outwards leaves them adjacent or lets the ranges meet.   *)
LEMMA AdjacentBounds ==
    ASSUME NEW u \in RangeBound, NEW l \in RangeBound, u.lower = FALSE, l.lower = TRUE,
           bounds_adjacent(u, l)
    PROVE  /\ range_cmp_bounds(u, l) < 0
           /\ \A v \in RangeBound : v.lower = FALSE /\ range_cmp_bounds(u, v) <= 0
                 => bounds_adjacent(v, l) \/ range_cmp_bounds(l, v) <= 0
           /\ \A k \in RangeBound : k.lower = TRUE /\ range_cmp_bounds(k, l) <= 0
                 => bounds_adjacent(u, k) \/ range_cmp_bounds(k, u) <= 0
<1>1. \A a \in RangeBound : a.inclusive = TRUE \/ a.inclusive = FALSE
  BY Zenon DEF RangeBound
<1>2. /\ range_cmp_bound_values(u, l) = 0 /\ u.inclusive # l.inclusive
  BY Zenon DEF bounds_adjacent
<1>3. ~u.infinite /\ ~l.infinite /\ u.val = l.val
  BY <1>2, SameValueFinite, Zenon
<1>4. (u.inclusive /\ ~l.inclusive) \/ (~u.inclusive /\ l.inclusive)
  BY <1>1, <1>2, Zenon
<1>5. range_cmp_bounds(u, l) < 0
  BY <1>2, <1>3, <1>4 DEF range_cmp_bounds, CmpInfinite, CmpVal, RangeBound
<1>6. ASSUME NEW v \in RangeBound, v.lower = FALSE, range_cmp_bounds(u, v) <= 0
      PROVE  bounds_adjacent(v, l) \/ range_cmp_bounds(l, v) <= 0
  <2>2. CASE ~v.infinite /\ v.val = l.val /\ (v.inclusive <=> u.inclusive)
    <3>1. v.inclusive # l.inclusive
      BY <1>4, <2>2, Zenon
    <3>2. range_cmp_bound_values(v, l) = 0
      BY <1>3, <2>2 DEF range_cmp_bound_values, CmpVal, RangeBound
    <3> QED  BY <3>1, <3>2, Zenon DEF bounds_adjacent
  <2>3. CASE ~(~v.infinite /\ v.val = l.val /\ (v.inclusive <=> u.inclusive))
    BY <1>2, <1>3, <1>4, <1>6, <2>3 DEF range_cmp_bounds, CmpInfinite, CmpVal, RangeBound
  <2> QED  BY <2>2, <2>3, Zenon
<1>7. ASSUME NEW k \in RangeBound, k.lower = TRUE, range_cmp_bounds(k, l) <= 0
      PROVE  bounds_adjacent(u, k) \/ range_cmp_bounds(k, u) <= 0
  <2>2. CASE ~k.infinite /\ k.val = u.val /\ (k.inclusive <=> l.inclusive)
    <3>1. u.inclusive # k.inclusive
      BY <1>4, <2>2, Zenon
    <3>2. range_cmp_bound_values(u, k) = 0
      BY <1>3, <2>2 DEF range_cmp_bound_values, CmpVal, RangeBound
    <3> QED  BY <3>1, <3>2, Zenon DEF bounds_adjacent
  <2>3. CASE ~(~k.infinite /\ k.val = u.val /\ (k.inclusive <=> l.inclusive))
    BY <1>2, <1>3, <1>4, <1>7, <2>3 DEF range_cmp_bounds, CmpInfinite, CmpVal, RangeBound
  <2> QED  BY <2>2, <2>3, Zenon
<1> QED  BY <1>5, <1>6, <1>7, Zenon

(* Where a range is adjacent to the query, a key that covers it is         *)
(* adjacent to the query or overlaps it.                                   *)
LEMMA AdjacentUpward ==
    ASSUME NEW key \in ProperKey, NEW below \in ProperKey, Covers(key, below),
           NEW q \in StoredRange, range_adjacent_internal(below, q)
    PROVE  /\ ~key.empty /\ ~q.empty
           /\ range_adjacent_internal(key, q) \/ range_overlaps_internal(key, q)
<1>1. ~below.empty /\ ~q.empty
  BY Zenon DEF range_adjacent_internal
<1> DEFINE kl == key.lower  ku == key.upper  bl == below.lower  bu == below.upper
           ql == q.lower    qu == q.upper
<1>2. /\ ql \in RangeBound /\ qu \in RangeBound /\ ql.lower = TRUE /\ qu.lower = FALSE
      /\ range_cmp_bounds(ql, qu) <= 0
  BY <1>1, Zenon DEF StoredRange, WellFormed
<1>3. /\ ~key.empty /\ kl \in RangeBound /\ ku \in RangeBound /\ bl \in RangeBound /\ bu \in RangeBound
      /\ kl.lower = TRUE /\ ku.lower = FALSE /\ bl.lower = TRUE /\ bu.lower = FALSE
      /\ range_cmp_bounds(kl, bl) <= 0 /\ range_cmp_bounds(bu, ku) <= 0 /\ range_cmp_bounds(bl, bu) <= 0
  BY <1>1, CoveredBounds, Zenon
<1>4. bounds_adjacent(bu, ql) \/ bounds_adjacent(qu, bl)
  BY Zenon DEF range_adjacent_internal
<1>5. SUFFICES \/ bounds_adjacent(ku, ql) \/ bounds_adjacent(qu, kl)
               \/ range_cmp_bounds(kl, ql) >= 0 /\ range_cmp_bounds(kl, qu) <= 0
               \/ range_cmp_bounds(ql, kl) >= 0 /\ range_cmp_bounds(ql, ku) <= 0
  BY <1>1, <1>3, Zenon DEF range_adjacent_internal, range_overlaps_internal
<1> HIDE DEF kl, ku, bl, bu, ql, qu
<1>6. CASE bounds_adjacent(bu, ql)
  <2>1. /\ range_cmp_bounds(bu, ql) < 0
        /\ bounds_adjacent(ku, ql) \/ range_cmp_bounds(ql, ku) <= 0
    BY <1>2, <1>3, <1>6, AdjacentBounds, Zenon
  <2>2. range_cmp_bounds(kl, bu) <= 0
    BY <1>3, BoundOrder, Zenon
  <2>3. range_cmp_bounds(kl, ql) < 0
    BY <1>2, <1>3, <2>1, <2>2, BoundOrder, Zenon
  <2>4. range_cmp_bounds(ql, kl) >= 0
    BY <1>2, <1>3, <2>3, BoundOrder
  <2> QED  BY <2>1, <2>4, Zenon
<1>7. CASE bounds_adjacent(qu, bl)
  <2>1. /\ range_cmp_bounds(qu, bl) < 0
        /\ bounds_adjacent(qu, kl) \/ range_cmp_bounds(kl, qu) <= 0
    BY <1>2, <1>3, <1>7, AdjacentBounds, Zenon
  <2>2. range_cmp_bounds(bl, ku) <= 0
    BY <1>3, BoundOrder, Zenon
  <2>3. range_cmp_bounds(qu, ku) <= 0
    BY <1>2, <1>3, <2>1, <2>2, BoundOrder
  <2>4. range_cmp_bounds(ql, ku) <= 0
    BY <1>2, <1>3, <2>3, BoundOrder, Zenon
  <2>5. range_cmp_bounds(kl, ql) >= 0 \/ range_cmp_bounds(ql, kl) >= 0
    BY <1>2, <1>3, BoundOrder
  <2> QED  BY <2>1, <2>4, <2>5, Zenon
<1> QED  BY <1>4, <1>6, <1>7, Zenon

(* Where a range contains an element, so does every key that covers it.    *)
LEMMA ContainsElemUpward ==
    ASSUME NEW key \in ProperKey, NEW below \in ProperKey, Covers(key, below),
           NEW val \in Int, range_contains_elem_internal(below, val)
    PROVE  range_contains_elem_internal(key, val)
<1>1. ~below.empty
  BY Zenon DEF range_contains_elem_internal
<1> DEFINE Above(l) == l.infinite \/ l.val < val \/ (l.val = val /\ l.inclusive)
           Under(u) == u.infinite \/ val < u.val \/ (u.val = val /\ u.inclusive)
<1>2. \A k, b \in RangeBound : k.lower = TRUE /\ b.lower = TRUE /\ range_cmp_bounds(k, b) <= 0 /\ Above(b) => Above(k)
  BY DEF range_cmp_bounds, CmpInfinite, CmpVal, RangeBound
<1>3. \A k, b \in RangeBound : k.lower = FALSE /\ b.lower = FALSE /\ range_cmp_bounds(b, k) <= 0 /\ Under(b) => Under(k)
  BY DEF range_cmp_bounds, CmpInfinite, CmpVal, RangeBound
<1>4. Above(below.lower) /\ Under(below.upper)
  BY Zenon DEF range_contains_elem_internal
<1>5. SUFFICES ~key.empty /\ Above(key.lower) /\ Under(key.upper)
  BY Zenon DEF range_contains_elem_internal
<1> HIDE DEF Above, Under
<1> QED  BY <1>1, <1>2, <1>3, <1>4, CoveredBounds, Zenon

(* A key that matches as a leaf matches as an inner key: the tests of      *)
(* range_gist_consistent_int are no stricter than those for leaves.        *)
LEMMA LeafImpliesInner ==
    ASSUME NEW key \in ProperKey, NEW strategy \in Strategies, NEW q \in Argument(strategy),
           range_gist_consistent_leaf(key, strategy, q)
    PROVE  range_gist_consistent_int(key, strategy, q)
<1> USE DEF range_gist_consistent_leaf, range_gist_consistent_int
<1> DEFINE kl == key.lower  ku == key.upper  ql == q.lower  qu == q.upper
<1>1. ASSUME strategy # "contains_elem", ~key.empty, ~q.empty
      PROVE  /\ kl \in RangeBound /\ ku \in RangeBound /\ ql \in RangeBound /\ qu \in RangeBound
             /\ range_cmp_bounds(kl, ku) <= 0 /\ range_cmp_bounds(ql, qu) <= 0
  BY <1>1, Zenon DEF ProperKey, WellFormed, KeyType, Argument, StoredRange
<1>2. CASE strategy = "before"
  <2>1. ~key.empty /\ ~q.empty /\ range_cmp_bounds(ku, ql) < 0
    BY <1>2, Zenon DEF range_before_internal
  <2> HIDE DEF kl, ku, ql, qu
  <2>2. range_cmp_bounds(kl, ql) < 0 /\ range_cmp_bounds(kl, ql) \in Int
    BY <1>1, <1>2, <2>1, BoundOrder, Zenon
  <2> QED  BY <1>2, <2>1, <2>2 DEF range_overright_internal, kl, ql
<1>3. CASE strategy = "overleft"
  <2>1. ~key.empty /\ ~q.empty /\ range_cmp_bounds(ku, qu) <= 0
    BY <1>3, Zenon DEF range_overleft_internal
  <2> HIDE DEF kl, ku, ql, qu
  <2>2. range_cmp_bounds(kl, qu) <= 0 /\ range_cmp_bounds(kl, qu) \in Int
    BY <1>1, <1>3, <2>1, BoundOrder, Zenon
  <2> QED  BY <1>3, <2>1, <2>2 DEF range_after_internal, kl, qu
<1>4. CASE strategy = "overright"
  <2>1. ~key.empty /\ ~q.empty /\ range_cmp_bounds(kl, ql) >= 0
    BY <1>4, Zenon DEF range_overright_internal
  <2> HIDE DEF kl, ku, ql, qu
  <2>2. range_cmp_bounds(ql, kl) <= 0
    BY <1>1, <1>4, <2>1, BoundOrder
  <2>3. range_cmp_bounds(ql, ku) <= 0
    BY <1>1, <1>4, <2>1, <2>2, BoundOrder, Zenon
  <2>4. range_cmp_bounds(ku, ql) >= 0 /\ range_cmp_bounds(ku, ql) \in Int
    BY <1>1, <1>4, <2>1, <2>3, BoundOrder
  <2> QED  BY <1>4, <2>1, <2>4 DEF range_before_internal, ku, ql
<1>5. CASE strategy = "after"
  <2>1. ~key.empty /\ ~q.empty /\ range_cmp_bounds(kl, qu) > 0
    BY <1>5, Zenon DEF range_after_internal
  <2> HIDE DEF kl, ku, ql, qu
  <2>2. range_cmp_bounds(qu, kl) < 0
    BY <1>1, <1>5, <2>1, BoundOrder
  <2>3. range_cmp_bounds(qu, ku) < 0
    BY <1>1, <1>5, <2>1, <2>2, BoundOrder, Zenon
  <2>4. range_cmp_bounds(ku, qu) > 0 /\ range_cmp_bounds(ku, qu) \in Int
    BY <1>1, <1>5, <2>1, <2>3, BoundOrder
  <2> QED  BY <1>5, <2>1, <2>4 DEF range_overleft_internal, ku, qu
<1>6. CASE strategy = "adjacent"
  BY <1>6, Zenon DEF range_adjacent_internal
<1>7. CASE strategy = "contained_by"
  <2>1. range_contains_internal(q, key)
    BY <1>7, Zenon DEF range_contained_by_internal
  <2>2. CASE key.empty
    BY <1>7, <2>2, Zenon DEF RangeIsOrContainsEmpty
  <2>3. CASE ~key.empty
    <3>1. /\ ~q.empty /\ range_cmp_bounds(ql, kl) <= 0 /\ range_cmp_bounds(qu, ku) >= 0
      BY <2>1, <2>3, Zenon DEF range_contains_internal
    <3> HIDE DEF kl, ku, ql, qu
    <3>2. range_cmp_bounds(kl, ql) >= 0 /\ range_cmp_bounds(ku, qu) <= 0
      BY <1>1, <1>7, <2>3, <3>1, BoundOrder
    <3>3. range_cmp_bounds(kl, qu) <= 0
      BY <1>1, <1>7, <2>3, <3>1, <3>2, BoundOrder, Zenon
    <3>4. range_overlaps_internal(key, q)
      BY <2>3, <3>1, <3>2, <3>3, Zenon DEF range_overlaps_internal, kl, ql, qu
    <3> QED  BY <1>7, <3>4, Zenon
  <2> QED  BY <2>2, <2>3, Zenon
<1>8. CASE strategy = "eq"
  <2>1. CASE q.empty
    BY <1>8, <2>1, Zenon DEF range_eq_internal, RangeIsOrContainsEmpty
  <2>2. CASE ~q.empty
    BY <1>8, <2>2 DEF range_eq_internal, range_contains_internal
  <2> QED  BY <2>1, <2>2, Zenon
<1>9. CASE strategy \in {"overlaps", "contains", "contains_elem"}
  BY <1>9, Zenon
<1> QED  BY <1>2, <1>3, <1>4, <1>5, <1>6, <1>7, <1>8, <1>9, Zenon DEF Strategies

(* A key matches whenever a key it covers does, on every inner level.      *)
LEMMA InnerUpward ==
    ASSUME NEW key \in ProperKey, NEW below \in ProperKey, Covers(key, below),
           NEW strategy \in Strategies, NEW q \in Argument(strategy),
           range_gist_consistent_int(below, strategy, q)
    PROVE  range_gist_consistent_int(key, strategy, q)
<1> USE DEF range_gist_consistent_int
<1> DEFINE kl == key.lower  ku == key.upper  bl == below.lower  bu == below.upper
           ql == q.lower    qu == q.upper
<1>1. ASSUME strategy # "contains_elem", ~below.empty
      PROVE  /\ ~key.empty
             /\ kl \in RangeBound /\ ku \in RangeBound /\ bl \in RangeBound /\ bu \in RangeBound
             /\ ql \in RangeBound /\ qu \in RangeBound
             /\ range_cmp_bounds(kl, bl) <= 0 /\ range_cmp_bounds(bu, ku) <= 0
  BY <1>1, CoveredBounds, Zenon DEF Argument, StoredRange
<1>2. strategy # "contains_elem" => q \in StoredRange
  BY Zenon DEF Argument
<1>3. CASE strategy = "before"
  <2>1. ~below.empty /\ ~q.empty /\ ~(range_cmp_bounds(bl, ql) >= 0)
    BY <1>3, Zenon DEF range_overright_internal
  <2> HIDE DEF kl, ku, bl, bu, ql, qu
  <2>2. range_cmp_bounds(kl, ql) < 0 /\ range_cmp_bounds(kl, ql) \in Int
    BY <1>1, <1>3, <2>1, BoundOrder
  <2> QED  BY <1>1, <1>3, <2>1, <2>2 DEF range_overright_internal, kl, ql
<1>4. CASE strategy = "overleft"
  <2>1. ~below.empty /\ ~q.empty /\ ~(range_cmp_bounds(bl, qu) > 0)
    BY <1>4, Zenon DEF range_after_internal
  <2> HIDE DEF kl, ku, bl, bu, ql, qu
  <2>2. range_cmp_bounds(kl, qu) <= 0 /\ range_cmp_bounds(kl, qu) \in Int
    BY <1>1, <1>4, <2>1, BoundOrder
  <2> QED  BY <1>1, <1>4, <2>1, <2>2 DEF range_after_internal, kl, qu
<1>5. CASE strategy = "overright"
  <2>1. ~below.empty /\ ~q.empty /\ ~(range_cmp_bounds(bu, ql) < 0)
    BY <1>5, Zenon DEF range_before_internal
  <2> HIDE DEF kl, ku, bl, bu, ql, qu
  <2>2. range_cmp_bounds(ql, bu) <= 0
    BY <1>1, <1>5, <2>1, BoundOrder
  <2>3. range_cmp_bounds(ql, ku) <= 0
    BY <1>1, <1>5, <2>1, <2>2, BoundOrder, Zenon
  <2>4. range_cmp_bounds(ku, ql) >= 0 /\ range_cmp_bounds(ku, ql) \in Int
    BY <1>1, <1>5, <2>1, <2>3, BoundOrder
  <2> QED  BY <1>1, <1>5, <2>1, <2>4 DEF range_before_internal, ku, ql
<1>6. CASE strategy = "after"
  <2>1. ~below.empty /\ ~q.empty /\ ~(range_cmp_bounds(bu, qu) <= 0)
    BY <1>6, Zenon DEF range_overleft_internal
  <2> HIDE DEF kl, ku, bl, bu, ql, qu
  <2>2. range_cmp_bounds(qu, bu) < 0
    BY <1>1, <1>6, <2>1, BoundOrder
  <2>3. range_cmp_bounds(qu, ku) < 0
    BY <1>1, <1>6, <2>1, <2>2, BoundOrder, Zenon
  <2>4. range_cmp_bounds(ku, qu) > 0 /\ range_cmp_bounds(ku, qu) \in Int
    BY <1>1, <1>6, <2>1, <2>3, BoundOrder
  <2> QED  BY <1>1, <1>6, <2>1, <2>4 DEF range_overleft_internal, ku, qu
<1>7. CASE strategy = "overlaps"
  BY <1>2, <1>7, OverlapsUpward, Zenon
<1>8. CASE strategy = "adjacent"
  <2>1. CASE range_adjacent_internal(below, q)
    BY <1>2, <1>8, <2>1, AdjacentUpward, Zenon
  <2>2. CASE range_overlaps_internal(below, q)
    <3>1. range_overlaps_internal(key, q)
      BY <1>2, <1>8, <2>2, OverlapsUpward, Zenon
    <3> QED  BY <1>8, <3>1, Zenon DEF range_overlaps_internal
  <2> QED  BY <1>8, <2>1, <2>2, Zenon
<1>9. ASSUME strategy # "contains_elem", range_contains_internal(below, q)
      PROVE  range_contains_internal(key, q)
  <2>1. CASE q.empty
    BY <2>1, Zenon DEF range_contains_internal
  <2>2. CASE ~q.empty
    <3>1. ~below.empty /\ range_cmp_bounds(bl, ql) <= 0 /\ range_cmp_bounds(bu, qu) >= 0
      BY <1>9, <2>2, Zenon DEF range_contains_internal
    <3> HIDE DEF kl, ku, bl, bu, ql, qu
    <3>2. range_cmp_bounds(kl, ql) <= 0 /\ range_cmp_bounds(qu, bu) <= 0
      BY <1>1, <1>9, <3>1, BoundOrder
    <3>3. range_cmp_bounds(qu, ku) <= 0
      BY <1>1, <1>9, <3>1, <3>2, BoundOrder, Zenon
    <3>4. range_cmp_bounds(ku, qu) >= 0
      BY <1>1, <1>9, <3>1, <3>3, BoundOrder
    <3> QED  BY <1>1, <1>9, <3>1, <3>2, <3>4, Zenon DEF range_contains_internal, kl, ku, ql, qu
  <2> QED  BY <2>1, <2>2, Zenon
<1>10. CASE strategy = "contains"
  BY <1>9, <1>10, Zenon
<1>11. CASE strategy = "contained_by"
  <2>1. CASE RangeIsOrContainsEmpty(below)
    BY <1>11, <2>1, Zenon DEF Covers
  <2>2. CASE range_overlaps_internal(below, q)
    BY <1>2, <1>11, <2>2, OverlapsUpward, Zenon
  <2> QED  BY <1>11, <2>1, <2>2, Zenon
<1>12. CASE strategy = "contains_elem"
  BY <1>12, ContainsElemUpward, Zenon DEF Argument
<1>13. CASE strategy = "eq"
  <2>1. CASE q.empty
    BY <1>13, <2>1, Zenon DEF Covers
  <2>2. CASE ~q.empty
    BY <1>9, <1>13, <2>2, Zenon
  <2> QED  BY <2>1, <2>2, Zenon
<1> QED  BY <1>3, <1>4, <1>5, <1>6, <1>7, <1>8, <1>10, <1>11, <1>12, <1>13, Zenon DEF Strategies

(* A search that leaves out the page below a key that                      *)
(* range_gist_consistent rejects misses no tuple: where a key, on a leaf   *)
(* or on an inner page, matches the query, every key that covers it does,  *)
(* for each of the ten strategies, infinite bounds and empty ranges        *)
(* included.                                                               *)
THEOREM SearchMissesNothing ==
    ASSUME NEW key \in ProperKey, NEW below \in ProperKey, Covers(key, below),
           NEW strategy \in Strategies, NEW arg \in Argument(strategy), NEW leaf \in BOOLEAN,
           range_gist_consistent(leaf, below, [strategy |-> strategy, arg |-> arg])
    PROVE  range_gist_consistent(FALSE, key, [strategy |-> strategy, arg |-> arg])
<1>1. CASE leaf
  <2>1. range_gist_consistent_int(below, strategy, arg)
    BY <1>1, LeafImpliesInner, Zenon DEF range_gist_consistent
  <2> QED  BY <2>1, InnerUpward, Zenon DEF range_gist_consistent
<1>2. CASE ~leaf
  <2>1. range_gist_consistent_int(below, strategy, arg)
    BY <1>2, Zenon DEF range_gist_consistent
  <2> QED  BY <2>1, InnerUpward, Zenon DEF range_gist_consistent
<1> QED  BY <1>1, <1>2, Zenon

(* A product of positive numbers is positive.                              *)
LEMMA PositiveProduct == \A p, c \in Nat \ {0} : p * c \in Nat \ {0}
  OBVIOUS

(* A set of naturals that is not empty has a least member.                 *)
LEMMA NaturalsWellOrdered ==
    ASSUME NEW S \in SUBSET Nat, S # {}
    PROVE  \E m \in S : \A n \in S : m <= n
  <1>1. \E m \in S : \A n \in S : ~(<<n, m>> \in OpToRel(<, Nat))
    BY NatLessThanWellFounded, WFMin, Zenon
  <1>2. \A m, n \in Nat : n < m => <<n, m>> \in OpToRel(<, Nat)
    BY Zenon DEF OpToRel
  <1>3. PICK m \in S : \A n \in S : ~(<<n, m>> \in OpToRel(<, Nat))
    BY <1>1, Zenon
  <1>4. \A n \in S : m <= n
    <2> TAKE n \in S
    <2>1. ~(n < m)
      BY <1>2, <1>3, Zenon
    <2> QED  BY <2>1
  <1>. QED  BY <1>4, Zenon
=============================================================================
