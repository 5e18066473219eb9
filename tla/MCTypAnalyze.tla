---------------------------- MODULE MCTypAnalyze -----------------------------
(* Model checking of TypAnalyze: samples of a few rows.                    *)
EXTENDS TypAnalyze

CONSTANTS
    Vals,       \* the finite bound values of canonical ranges [a, b)
    AnyVals,    \* the ones of ranges with any bounds
    MaxRows     \* most rows in a sample

OneOrDefault == {-1, 1}

Ranges(ls, us) ==
    {[empty |-> FALSE, lower |-> p[1], upper |-> p[2]] :
        p \in {q \in ls \X us : range_cmp_bounds(q[1], q[2]) <= 0}}
Lowers(values, flags) == {LowerBound(v, f) : v \in values, f \in flags}
Uppers(values, flags) == {UpperBound(v, f) : v \in values, f \in flags}

Canonical == Ranges(Lowers(Vals, {TRUE}), Uppers(Vals, {FALSE}))
CanonicalOrInfinite ==
    Ranges(Lowers(Vals, {TRUE}) \cup {LowerInf}, Uppers(Vals, {FALSE}) \cup {UpperInf})

(* Bounds may also be [a, b] and (a, b), as for a subtype without a        *)
(* canonical function, or infinite.                                        *)
AnyRange == Ranges(Lowers(AnyVals, BOOLEAN) \cup {LowerInf}, Uppers(AnyVals, BOOLEAN) \cup {UpperInf})

SamplesOf(values, most) ==
    UNION {{[samplerows |-> n, value |-> f] : f \in [0 .. n - 1 -> values]} : n \in 1 .. most}

MCSamples == SamplesOf({Null, EmptyRange} \cup Canonical, MaxRows)
                \cup SamplesOf({EmptyRange} \cup AnyRange, MaxRows - 1)

(* Columns of two or more ranges, some of them unbounded.                  *)
UnboundedSamples == {s \in SamplesOf(CanonicalOrInfinite, MaxRows) : s.samplerows >= 2}
=============================================================================
