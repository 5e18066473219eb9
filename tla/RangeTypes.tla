----------------------------- MODULE RangeTypes ------------------------------
(***************************************************************************)
(* The operators on range values (rangetypes.c), as the planner's          *)
(* estimates and the GiST operator class use them.  All of them look at    *)
(* nothing but the empty flag and the order of the bounds.                 *)
(***************************************************************************)
EXTENDS RangeBounds

range_eq_internal(r1, r2) ==
    \/ r1.empty /\ r2.empty
    \/ /\ ~r1.empty /\ ~r2.empty
       /\ range_cmp_bounds(r1.lower, r2.lower) = 0
       /\ range_cmp_bounds(r1.upper, r2.upper) = 0

(* For every operator below but containment an empty range matches nothing. *)
range_before_internal(r1, r2) ==
    ~r1.empty /\ ~r2.empty /\ range_cmp_bounds(r1.upper, r2.lower) < 0

range_after_internal(r1, r2) ==
    ~r1.empty /\ ~r2.empty /\ range_cmp_bounds(r1.lower, r2.upper) > 0

(* An upper and a lower bound with no value between or in both.  Where the *)
(* values differ there are values between: a continuous subtype has them,  *)
(* and the canonical form of a discrete one includes the lower value.      *)
bounds_adjacent(boundA, boundB) ==
    range_cmp_bound_values(boundA, boundB) = 0 /\ boundA.inclusive # boundB.inclusive

range_adjacent_internal(r1, r2) ==
    /\ ~r1.empty /\ ~r2.empty
    /\ bounds_adjacent(r1.upper, r2.lower) \/ bounds_adjacent(r2.upper, r1.lower)

range_overlaps_internal(r1, r2) ==
    /\ ~r1.empty /\ ~r2.empty
    /\ \/ /\ range_cmp_bounds(r1.lower, r2.lower) >= 0
          /\ range_cmp_bounds(r1.lower, r2.upper) <= 0
       \/ /\ range_cmp_bounds(r2.lower, r1.lower) >= 0
          /\ range_cmp_bounds(r2.lower, r1.upper) <= 0

range_overleft_internal(r1, r2) ==
    ~r1.empty /\ ~r2.empty /\ range_cmp_bounds(r1.upper, r2.upper) <= 0

range_overright_internal(r1, r2) ==
    ~r1.empty /\ ~r2.empty /\ range_cmp_bounds(r1.lower, r2.lower) >= 0

range_contains_internal(r1, r2) ==
    \/ r2.empty
    \/ /\ ~r1.empty
       /\ range_cmp_bounds(r1.lower, r2.lower) <= 0
       /\ range_cmp_bounds(r1.upper, r2.upper) >= 0

range_contained_by_internal(r1, r2) == range_contains_internal(r2, r1)

range_contains_elem_internal(r, val) ==
    /\ ~r.empty
    /\ r.lower.infinite \/ r.lower.val < val \/ (r.lower.val = val /\ r.lower.inclusive)
    /\ r.upper.infinite \/ val < r.upper.val \/ (r.upper.val = val /\ r.upper.inclusive)

(* The btree order: empty ranges first.                                    *)
range_cmp(r1, r2) ==
    IF r1.empty \/ r2.empty
    THEN CmpVal(IF r1.empty THEN 0 ELSE 1, IF r2.empty THEN 0 ELSE 1)
    ELSE LET cmp == range_cmp_bounds(r1.lower, r2.lower)
         IN  IF cmp # 0 THEN cmp ELSE range_cmp_bounds(r1.upper, r2.upper)
=============================================================================
