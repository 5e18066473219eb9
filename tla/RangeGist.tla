------------------------------ MODULE RangeGist ------------------------------
(***************************************************************************)
(* The GiST operator class of range types (rangetypes_gist.c): the keys of *)
(* inner pages, and which of them a search must descend into.  A key is a  *)
(* range with the flag RANGE_CONTAIN_EMPTY, which says that an empty range *)
(* has been absorbed: no bounds can show that.                             *)
(***************************************************************************)
EXTENDS RangeTypes

Key(range, contain) == [empty |-> range.empty, lower |-> range.lower, upper |-> range.upper,
                        contain |-> contain]
LeafKey(range) == Key(range, FALSE)

RangeIsOrContainsEmpty(key) == key.empty \/ key.contain

(* The smallest key that covers both.                                      *)
range_super_union(k1, k2) ==
    IF k1.empty THEN [k2 EXCEPT !.contain = @ \/ ~k2.empty]
    ELSE IF k2.empty THEN [k1 EXCEPT !.contain = TRUE]
    ELSE Key([empty |-> FALSE,
              lower |-> IF range_cmp_bounds(k1.lower, k2.lower) <= 0 THEN k1.lower ELSE k2.lower,
              upper |-> IF range_cmp_bounds(k1.upper, k2.upper) >= 0 THEN k1.upper ELSE k2.upper],
             k1.contain \/ k2.contain)

range_gist_same(k1, k2) == k1.contain = k2.contain /\ range_eq_internal(k1, k2)

Strategies == {"before", "overleft", "overlaps", "overright", "after", "adjacent",
               "contains", "contained_by", "contains_elem", "eq"}

(* A query is a strategy with its argument: an element for contains_elem,  *)
(* a range for all others.                                                 *)
range_gist_consistent_leaf(key, strategy, query) ==
    CASE strategy = "before"        -> range_before_internal(key, query)
      [] strategy = "overleft"      -> range_overleft_internal(key, query)
      [] strategy = "overlaps"      -> range_overlaps_internal(key, query)
      [] strategy = "overright"     -> range_overright_internal(key, query)
      [] strategy = "after"         -> range_after_internal(key, query)
      [] strategy = "adjacent"      -> range_adjacent_internal(key, query)
      [] strategy = "contains"      -> range_contains_internal(key, query)
      [] strategy = "contained_by"  -> range_contained_by_internal(key, query)
      [] strategy = "contains_elem" -> range_contains_elem_internal(key, query)
      [] strategy = "eq"            -> range_eq_internal(key, query)

range_gist_consistent_int(key, strategy, query) ==
    CASE strategy = "before"    -> ~key.empty /\ ~query.empty /\ ~range_overright_internal(key, query)
      [] strategy = "overleft"  -> ~key.empty /\ ~query.empty /\ ~range_after_internal(key, query)
      [] strategy = "overlaps"  -> range_overlaps_internal(key, query)
      [] strategy = "overright" -> ~key.empty /\ ~query.empty /\ ~range_before_internal(key, query)
      [] strategy = "after"     -> ~key.empty /\ ~query.empty /\ ~range_overleft_internal(key, query)
      [] strategy = "adjacent"  -> /\ ~key.empty /\ ~query.empty
                                   /\ \/ range_adjacent_internal(key, query)
                                      \/ range_overlaps_internal(key, query)
      [] strategy = "contains"  -> range_contains_internal(key, query)
      [] strategy = "contained_by"  -> RangeIsOrContainsEmpty(key) \/ range_overlaps_internal(key, query)
      [] strategy = "contains_elem" -> range_contains_elem_internal(key, query)
      [] strategy = "eq"        -> IF query.empty THEN RangeIsOrContainsEmpty(key)
                                   ELSE range_contains_internal(key, query)

range_gist_consistent(leaf, key, q) ==
    IF leaf THEN range_gist_consistent_leaf(key, q.strategy, q.arg)
    ELSE range_gist_consistent_int(key, q.strategy, q.arg)

(* What a key on an inner page promises of a key below it.                 *)
Covers(key, below) ==
    /\ RangeIsOrContainsEmpty(below) => RangeIsOrContainsEmpty(key)
    /\ ~below.empty => /\ ~key.empty
                       /\ range_cmp_bounds(key.lower, below.lower) <= 0
                       /\ range_cmp_bounds(key.upper, below.upper) >= 0
=============================================================================
