----------------------------- MODULE HistSearch ------------------------------
(***************************************************************************)
(* Looking a constant up in a histogram (rangetypes_selfuncs.c): the       *)
(* binary searches rbound_bsearch and length_hist_bsearch, and the scalar  *)
(* selectivity of a bound, calc_hist_selectivity_scalar, interpolated      *)
(* inside a bin by get_position.  The subtype is an integer.               *)
(***************************************************************************)
EXTENDS RangeBounds

(* A call: the kind of histogram, "bounds" or "lengths", its entries, the  *)
(* value looked up, the equal flag, and whether the subtype has a subdiff  *)
(* function.  ANALYZE stores no histogram of fewer than two entries.       *)
CONSTANT Searches

Cmp(kind, p, q) == IF kind = "bounds" THEN range_cmp_bounds(p, q) ELSE CmpVal(p, q)

Sorted(kind, h) ==
    \A j, k \in DOMAIN h : j <= k => Cmp(kind, h[j], h[k]) <= 0

Entry(kind) == IF kind = "bounds" THEN RangeBound ELSE Int

ASSUME SearchesAssumption ==
    \A c \in Searches :
        /\ c.kind \in {"bounds", "lengths"} /\ c.equal \in BOOLEAN
        /\ c.has_subdiff \in BOOLEAN
        /\ c.hist_length \in Nat \ {0, 1}
        /\ c.hist \in [0 .. c.hist_length - 1 -> Entry(c.kind)]
        /\ Sorted(c.kind, c.hist)
        /\ c.value \in Entry(c.kind)

VARIABLES phase, search, lower, upper, hist_selec

searchVars == <<phase, search, lower, upper, hist_selec>>

hist_length == search.hist_length
Index == 0 .. hist_length - 1

Ratio(n, d) == [num |-> n, den |-> d]

SearchInit ==
    /\ phase = "search"
    /\ search \in Searches
    /\ lower = -1 /\ upper = search.hist_length - 1
    /\ hist_selec = Ratio(0, 1)
-----------------------------------------------------------------------------
(* The loops of the two searches.                                          *)

(* Mutant: an entry equal to the value is always taken.                    *)
BelowOrEqual(j, value) == Cmp(search.kind, search.hist[j], value) <= 0

(* Entry j is less than (equal: or equal to) the value.                    *)
Below(j, value) ==
    LET cmp == Cmp(search.kind, search.hist[j], value)
    IN  cmp < 0 \/ (search.equal /\ cmp = 0)

(* Mutant: the middle is rounded down.                                     *)
middleDown == IF lower + upper < 0 THEN 0 ELSE (lower + upper) \div 2

middle == (lower + upper + 1) \div 2

MoveLower ==
    /\ phase = "search" /\ lower < upper /\ Below(middle, search.value)
    /\ lower' = middle
    /\ UNCHANGED <<phase, search, upper, hist_selec>>

MoveUpper ==
    /\ phase = "search" /\ lower < upper /\ ~Below(middle, search.value)
    /\ upper' = middle - 1
    /\ UNCHANGED <<phase, search, lower, hist_selec>>

Found ==
    /\ phase = "search" /\ lower >= upper
    /\ phase' = IF search.kind = "bounds" THEN "found" ELSE "done"
    /\ UNCHANGED <<search, lower, upper, hist_selec>>
-----------------------------------------------------------------------------
(* calc_hist_selectivity_scalar.                                           *)

(* Mutant: the position is measured from the upper end of the bin.         *)
PositionReversed(value, hist1, hist2) ==
    IF ~hist1.infinite /\ ~hist2.infinite /\ ~value.infinite /\ hist2.val > hist1.val
    THEN Ratio(hist2.val - value.val, hist2.val - hist1.val)
    ELSE Ratio(1, 2)

(* get_position: where the value lies between the ends of a bin.           *)
get_position(value, hist1, hist2) ==
    IF ~hist1.infinite /\ ~hist2.infinite
    THEN LET bin_width == hist2.val - hist1.val
             position == value.val - hist1.val
         IN  IF value.infinite \/ ~search.has_subdiff \/ bin_width <= 0
             THEN Ratio(1, 2)
             ELSE Ratio(IF position < 0 THEN 0
                           ELSE IF position > bin_width THEN bin_width ELSE position, bin_width)
    ELSE IF hist1.infinite /\ ~hist2.infinite
    THEN Ratio(IF value.infinite /\ value.lower THEN 0 ELSE 1, 1)
    ELSE IF ~hist1.infinite /\ hist2.infinite
    THEN Ratio(IF value.infinite /\ ~value.lower THEN 1 ELSE 0, 1)
    ELSE Ratio(1, 2)

(* The whole bins before the constant, and the part of the one it is in.   *)
Scalar(index, value) ==
    LET bins == hist_length - 1
        part == get_position(value, search.hist[index], search.hist[index + 1])
    IN  IF index >= 0 /\ index < bins
        THEN Ratio(index * part.den + part.num, bins * part.den)
        ELSE Ratio(IF index < 0 THEN 0 ELSE index, bins)

Interpolate ==
    /\ phase = "found"
    /\ hist_selec' = Scalar(lower, search.value)
    /\ phase' = "done"
    /\ UNCHANGED <<search, lower, upper>>

SearchNext == MoveLower \/ MoveUpper \/ Found \/ Interpolate

SearchReturned == phase = "done" /\ UNCHANGED searchVars

SearchSpec ==
    /\ SearchInit /\ [][SearchNext \/ SearchReturned]_searchVars
    /\ WF_searchVars(SearchNext)
-----------------------------------------------------------------------------
(* Properties.                                                             *)

SearchTypeOK ==
    /\ phase \in {"search", "found", "done"}
    /\ search \in Searches
    /\ lower \in -1 .. hist_length - 1
    /\ upper \in -1 .. hist_length - 1
    /\ hist_selec \in [num : Int, den : Int]

(* "Returns greatest index of range bound in array which is less (less or  *)
(* equal) than given range bound", or -1: every entry up to it is, and no  *)
(* entry after it.                                                         *)
GreatestIndex ==
    phase # "search" =>
        \A j \in Index :
            LET cmp == Cmp(search.kind, search.hist[j], search.value)
            IN  j <= lower <=> IF search.equal THEN cmp <= 0 ELSE cmp < 0

(* The searches end.                                                       *)
Terminates == <>(phase = "done")

(* calc_hist_selectivity_scalar: a greater constant never has a smaller    *)
(* selectivity, across bins, bins without width and bins that end at       *)
(* infinity.                                                               *)
Values == {c.value : c \in {d \in Searches : d.kind = "bounds"}}
Lookup(value) == CHOOSE n \in -1 .. hist_length - 1 :
                     \A j \in Index : j <= n <=> Below(j, value)
Monotone ==
    phase = "done" /\ search.kind = "bounds" =>
        \A w \in Values : range_cmp_bounds(search.value, w) <= 0 =>
            LET other == Scalar(Lookup(w), w)
            IN  hist_selec.num * other.den <= other.num * hist_selec.den
=============================================================================
