----------------------------- MODULE RangeBounds -----------------------------
(***************************************************************************)
(* Range bounds, their order, and the serialized range value               *)
(* (rangetypes.c).  A range value is what range_deserialize gives back:    *)
(* the empty flag and two bounds, an absent bound holding the Datum 0.     *)
(***************************************************************************)
EXTENDS Integers

(* RangeBound of rangetypes.h, over an integer subtype.                    *)
RangeBound == [val : Int, infinite : BOOLEAN, inclusive : BOOLEAN, lower : BOOLEAN]

(* The subtype's comparison procedure (btint4cmp for int4range).           *)
CmpVal(x, y) == IF x < y THEN -1 ELSE IF x > y THEN 1 ELSE 0

(* The part the two comparisons share: an infinite lower bound is below,   *)
(* an infinite upper bound above, everything else.                         *)
CmpInfinite(b1, b2) ==
    IF b1.infinite /\ b2.infinite /\ b1.lower = b2.lower THEN 0
    ELSE IF b1.infinite THEN (IF b1.lower THEN -1 ELSE 1)
    ELSE (IF b2.lower THEN 1 ELSE -1)

range_cmp_bound_values(b1, b2) ==
    IF b1.infinite \/ b2.infinite THEN CmpInfinite(b1, b2)
    ELSE CmpVal(b1.val, b2.val)

(* At equal values an exclusive lower bound is just above the value and an *)
(* exclusive upper bound just below it.                                    *)
range_cmp_bounds(b1, b2) ==
    IF b1.infinite \/ b2.infinite THEN CmpInfinite(b1, b2)
    ELSE IF b1.val # b2.val THEN CmpVal(b1.val, b2.val)
    ELSE IF ~b1.inclusive /\ ~b2.inclusive /\ b1.lower = b2.lower THEN 0
    ELSE IF ~b1.inclusive THEN (IF b1.lower THEN 1 ELSE -1)
    ELSE IF ~b2.inclusive THEN (IF b2.lower THEN -1 ELSE 1)
    ELSE 0

LowerBound(v, inc) == [val |-> v, infinite |-> FALSE, inclusive |-> inc, lower |-> TRUE]
UpperBound(v, inc) == [val |-> v, infinite |-> FALSE, inclusive |-> inc, lower |-> FALSE]
LowerInf == [val |-> 0, infinite |-> TRUE, inclusive |-> FALSE, lower |-> TRUE]
UpperInf == [val |-> 0, infinite |-> TRUE, inclusive |-> FALSE, lower |-> FALSE]

(* What range_deserialize reads back for a bound that was serialized: an   *)
(* infinite bound has no stored value and comes back as the Datum 0.       *)
StoredBound(b) == IF b.infinite THEN (IF b.lower THEN LowerInf ELSE UpperInf) ELSE b

(* The empty range stores neither bounds nor infinity flags.               *)
EmptyRange == [empty |-> TRUE, lower |-> LowerBound(0, FALSE), upper |-> UpperBound(0, FALSE)]

(* range_serialize raises an error for a lower bound above the upper one.  *)
SerializeError(lower, upper) == range_cmp_bound_values(lower, upper) > 0

(* The value a successful range_serialize stores.                          *)
range_serialize(lower, upper) ==
    IF range_cmp_bound_values(lower, upper) = 0 /\ ~(lower.inclusive /\ upper.inclusive)
    THEN EmptyRange
    ELSE [empty |-> FALSE, lower |-> StoredBound(lower), upper |-> StoredBound(upper)]
=============================================================================
