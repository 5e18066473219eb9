---------------------------- MODULE MCHistSearch -----------------------------
(* Model checking of HistSearch: sorted histograms of a few entries.         *)
EXTENDS HistSearch

CONSTANTS Vals, MaxLength

Lowers == {LowerInf} \cup {LowerBound(v, f) : v \in Vals, f \in BOOLEAN}
Uppers == {UpperInf} \cup {UpperBound(v, f) : v \in Vals, f \in BOOLEAN}

(* The entries are all lower or all upper bounds; either is looked up.     *)
Histograms(kind, values, n) == {h \in [0 .. n - 1 -> values] : Sorted(kind, h)}

BoundCalls ==
    UNION {[kind : {"bounds"}, hist_length : {n}, value : Lowers \cup Uppers,
            hist : Histograms("bounds", Lowers, n) \cup Histograms("bounds", Uppers, n),
            equal : BOOLEAN, has_subdiff : BOOLEAN] : n \in 2 .. MaxLength}

LengthCalls ==
    UNION {[kind : {"lengths"}, hist_length : {n}, value : Vals,
            hist : Histograms("lengths", Vals, n),
            equal : BOOLEAN, has_subdiff : {TRUE}] : n \in 2 .. MaxLength + 2}

MCSearches == BoundCalls \cup LengthCalls
=============================================================================
