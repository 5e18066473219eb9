----------------------------- MODULE RangeSplit ------------------------------
(***************************************************************************)
(* How a full page of range keys is divided: range_gist_picksplit          *)
(* (rangetypes_gist.c) over an integer subtype, and the fallback of        *)
(* gistsplit.c.  Keys come as a sequence; a division is two sequences of   *)
(* positions in it.  qsort is taken to be stable.                          *)
(***************************************************************************)
EXTENDS RangeGist, SequencesExt

CONSTANT HasSubtypeDiff     \* the range type has a subtype_diff function

Positions(keys) == [i \in DOMAIN keys |-> i]
Division(left, right) == [left |-> left, right |-> right]
Where(keys, P(_)) == SelectSeq(Positions(keys), LAMBDA i : P(keys[i]))

CLS_NORMAL == 0
CLS_LOWER_INF == 1
CLS_UPPER_INF == 2
CLS_CONTAIN_EMPTY == 4
CLS_EMPTY == 8
CLS_COUNT == 9

get_gist_range_class(key) ==
    IF key.empty THEN CLS_EMPTY
    ELSE (IF key.lower.infinite THEN CLS_LOWER_INF ELSE 0)
         + (IF key.upper.infinite THEN CLS_UPPER_INF ELSE 0)
         + (IF key.contain THEN CLS_CONTAIN_EMPTY ELSE 0)

(* "Cope with buggy subtype_diff function by returning zero"               *)
call_subtype_diff(val1, val2) == IF val1 >= val2 THEN val1 - val2 ELSE 0

range_gist_fallback_split(keys) ==
    LET split_idx == (Len(keys) - 1) \div 2 + 1
    IN  Division(SubSeq(Positions(keys), 1, split_idx - 1),
                 SubSeq(Positions(keys), split_idx, Len(keys)))

range_gist_class_split(keys, rightClasses) ==
    Division(Where(keys, LAMBDA k : get_gist_range_class(k) \notin rightClasses),
             Where(keys, LAMBDA k : get_gist_range_class(k) \in rightClasses))

range_gist_single_sorting_split(keys, use_upper_bound) ==
    LET bound(i) == IF use_upper_bound THEN keys[i].upper ELSE keys[i].lower
        sorted == SortSeq(Positions(keys), LAMBDA i, j : range_cmp_bounds(bound(i), bound(j)) < 0)
        split_idx == Len(keys) \div 2
    IN  Division(SubSeq(sorted, 1, split_idx), SubSeq(sorted, split_idx + 1, Len(keys)))

-----------------------------------------------------------------------------
(* The double sorting split.  A candidate is a lower bound for the right   *)
(* group and an upper bound for the left one, with the least and the       *)
(* greatest number of keys that the left group can have.                   *)

Candidate(right_lower, min_left, left_upper, max_left) ==
    [right_lower |-> right_lower, min_left |-> min_left,
     left_upper |-> left_upper, max_left |-> max_left]

CountLowerBelow(keys, b) == Len(Where(keys, LAMBDA k : range_cmp_bounds(k.lower, b) < 0))
CountUpperUpTo(keys, b) == Len(Where(keys, LAMBDA k : range_cmp_bounds(k.upper, b) <= 0))
GreatestUpper(keys) ==
    FoldLeft(LAMBDA b, k : IF range_cmp_bounds(k.upper, b) > 0 THEN k.upper ELSE b,
             keys[1].upper, keys)
LeastLower(keys) ==
    FoldLeft(LAMBDA b, k : IF range_cmp_bounds(k.lower, b) < 0 THEN k.lower ELSE b,
             keys[1].lower, keys)

(* First loop: for each lower bound of the right group the least upper     *)
(* bound of the left.  Second loop: for each upper bound of the left group *)
(* the greatest lower bound of the right.                                  *)
Candidates(keys) ==
    LET n == Len(keys)
        by_lower == SortSeq(keys, LAMBDA a, b : range_cmp_bounds(a.lower, b.lower) < 0)
        by_upper == SortSeq(keys, LAMBDA a, b : range_cmp_bounds(a.upper, b.upper) < 0)
        lowerSteps == SelectSeq([i \in 1 .. n - 1 |-> i], LAMBDA i :
                        range_cmp_bounds(by_lower[i].lower, by_lower[i + 1].lower) # 0)
        upperSteps == SelectSeq([i \in 1 .. n - 1 |-> n - i], LAMBDA i :
                        range_cmp_bounds(by_upper[i].upper, by_upper[i + 1].upper) # 0)
        leastUpper(i) == GreatestUpper(SubSeq(by_lower, 1, i))
        greatestLower(i) == LeastLower(SubSeq(by_upper, i + 1, n))
    IN  [j \in DOMAIN lowerSteps |->
           LET i == lowerSteps[j]
           IN  Candidate(by_lower[i + 1].lower, i, leastUpper(i), CountUpperUpTo(keys, leastUpper(i)))]
        \o
        [j \in DOMAIN upperSteps |->
           LET i == upperSteps[j]
           IN  Candidate(greatestLower(i), CountLowerBelow(keys, greatestLower(i)), by_upper[i].upper, i)]

(* ratio > LIMIT_RATIO.  The float4 quotient of 3 and 10 is above the      *)
(* double 0.3 it is compared with, so that the limit itself is accepted.   *)
LimitRatioAccepts(n, smaller) == 10 * smaller >= 3 * n

(* How many keys the left group is to have: as near to half as can be.     *)
LeftCount(n, c) ==
    IF c.min_left >= (n + 1) \div 2 THEN c.min_left
    ELSE IF c.max_left <= n \div 2 THEN c.max_left
    ELSE n \div 2

(* ConsiderSplitContext after one more candidate.                          *)
range_gist_consider_split(n, context, c) ==
    LET left_count == LeftCount(n, c)
        smaller == Min({left_count, n - left_count})
        overlap == IF HasSubtypeDiff
                   THEN call_subtype_diff(c.left_upper.val, c.right_lower.val)
                   ELSE c.max_left - c.min_left
        better == \/ context.first
                  \/ overlap < context.overlap
                  \/ overlap = context.overlap /\ smaller > context.smaller
    IN  IF LimitRatioAccepts(n, smaller) /\ better
        THEN [first |-> FALSE, smaller |-> smaller, overlap |-> overlap,
              right_lower |-> c.right_lower, left_upper |-> c.left_upper,
              common_left |-> c.max_left - left_count]
        ELSE context

SelectedSplit(keys) ==
    FoldLeft(LAMBDA ctx, c : range_gist_consider_split(Len(keys), ctx, c),
             [first |-> TRUE], Candidates(keys))

(* The keys that fit in one group only go there; of those that fit in both *)
(* the first common_left go left, those nearest to the left group first.   *)
FitsLeft(context, k) == range_cmp_bounds(k.upper, context.left_upper) <= 0
FitsRight(context, k) == range_cmp_bounds(k.lower, context.right_lower) >= 0

CommonEntries(keys, context) ==
    LET delta(i) == IF HasSubtypeDiff
                    THEN call_subtype_diff(keys[i].lower.val, context.right_lower.val)
                         - call_subtype_diff(context.left_upper.val, keys[i].upper.val)
                    ELSE 0
    IN  SortSeq(Where(keys, LAMBDA k : FitsLeft(context, k) /\ FitsRight(context, k)),
                LAMBDA i, j : delta(i) < delta(j))

Distributed(keys, context, common) ==
    Division(Where(keys, LAMBDA k : FitsLeft(context, k) /\ ~FitsRight(context, k))
               \o SubSeq(common, 1, Min({context.common_left, Len(common)})),
             Where(keys, LAMBDA k : ~FitsLeft(context, k))
               \o SubSeq(common, context.common_left + 1, Len(common)))

DoubleSorted(keys, context) ==
    IF context.first THEN range_gist_fallback_split(keys)
    ELSE Distributed(keys, context, CommonEntries(keys, context))

range_gist_double_sorting_split(keys) == DoubleSorted(keys, SelectedSplit(keys))

-----------------------------------------------------------------------------
(* The classes that go right when there are several.                       *)
RightClasses(keys) ==
    LET count(C) == Len(Where(keys, LAMBDA k : get_gist_range_class(k) \in C))
        nonInf == {CLS_NORMAL, CLS_CONTAIN_EMPTY, CLS_EMPTY}
        nonEmpty == {CLS_NORMAL, CLS_LOWER_INF, CLS_UPPER_INF, CLS_LOWER_INF + CLS_UPPER_INF}
        n == Len(keys)
        skew(C) == LET d == n - 2 * count(C) IN IF d >= 0 THEN d ELSE -d
        splits(C) == count(C) \in 1 .. n - 1
        biggest == CHOOSE c \in 0 .. CLS_COUNT - 1 :
                     \A d \in 0 .. CLS_COUNT - 1 :
                       count({c}) > count({d}) \/ (count({c}) = count({d}) /\ c <= d)
    IN  IF count({CLS_NORMAL}) > 0 THEN {CLS_NORMAL}
        ELSE IF splits(nonInf) /\ skew(nonInf) <= skew(nonEmpty) THEN nonInf
        ELSE IF splits(nonEmpty) THEN nonEmpty
        ELSE {biggest}

range_gist_picksplit(keys) ==
    LET classes == {get_gist_range_class(keys[i]) : i \in DOMAIN keys}
        class == CHOOSE c \in classes : TRUE
        base == IF class >= CLS_CONTAIN_EMPTY /\ class # CLS_EMPTY
                THEN class - CLS_CONTAIN_EMPTY ELSE class
    IN  IF Cardinality(classes) > 1 THEN range_gist_class_split(keys, RightClasses(keys))
        ELSE CASE base = CLS_NORMAL    -> range_gist_double_sorting_split(keys)
               [] base = CLS_LOWER_INF -> range_gist_single_sorting_split(keys, TRUE)
               [] base = CLS_UPPER_INF -> range_gist_single_sorting_split(keys, FALSE)
               [] OTHER                -> range_gist_fallback_split(keys)

genericPickSplit(keys) ==
    Division(SubSeq(Positions(keys), 1, Len(keys) \div 2),
             SubSeq(Positions(keys), Len(keys) \div 2 + 1, Len(keys)))

(* A one-sided division is thrown away.                                    *)
TwoSided(keys, d) == IF d.left = <<>> \/ d.right = <<>> THEN genericPickSplit(keys) ELSE d

gistUserPicksplit(keys) == TwoSided(keys, range_gist_picksplit(keys))
=============================================================================
