------------------------------ MODULE MCRestSel ------------------------------
(* Model checking of RestSel: columns given by their two outer bounds, with  *)
(* frequencies that are level, or all in the first or in the last interval;  *)
(* and columns with infinite bounds, some frequencies of which are negative  *)
(* or not finite.                                                            *)
EXTENDS RestSel

CONSTANTS ColumnVals, ConstVals    \* bound values of columns and of constants

MCColumnVals == {-45, 0, 3, 20, 60, 381}
MCConstVals == {-46, -45, -2, 0, 1, 19, 20, 21, 41, 60, 362, 380, 381, 400}

Nb(c) == NbOfIntervals(Stretch([min |-> c[1], max |-> c[2]]))
Columns == {c \in ColumnVals \X ColumnVals : c[1] < c[2]}
Constants == {c \in ConstVals \X ConstVals : c[1] < c[2]}
Frequencies(n) == {[j \in 0 .. n - 1 |-> 2],
                   [j \in 0 .. n - 1 |-> IF j = 0 THEN 3 ELSE 0],
                   [j \in 0 .. n - 1 |-> IF j = n - 1 THEN 1 ELSE 0]}

(* Columns with an infinite bound on one side, whose value is 0.           *)
UnboundedColumns == {<<60, 0>>, <<381, 0>>, <<0, -45>>}
UnboundedConstants == {<<-46, -2>>, <<-2, 20>>, <<0, 41>>, <<362, 400>>}
UnboundedFrequencies(n) == Frequencies(n) \cup {[j \in 0 .. n - 1 |-> IF j = 0 THEN -1 ELSE 1]}

(* Every column and constant, all checks passed.                           *)
Full(c, k, freqs, nonfinite) ==
    [operator : {Left, Overlap}, variable : {TRUE}, usable : {TRUE}, empty : {FALSE},
     tuple : {TRUE}, histograms : {TRUE}, secure : {TRUE},
     lower : {k[1]}, upper : {k[2]}, min : {c[1]}, max : {c[2]},
     rows : {3}, unit : {2}, freq : freqs, nonfinite : nonfinite]
FullCalls ==
    UNION {Full(c, k, Frequencies(Nb(c)), {{}}) : c \in Columns, k \in Constants}
UnboundedCalls ==
    UNION {Full(c, k, UnboundedFrequencies(Nb(c)), {{}, {0}, {0, Nb(c) - 1}}) :
           c \in UnboundedColumns, k \in UnboundedConstants}

(* Every outcome of the checks, for one column and constant.               *)
PartialCalls ==
    [operator : {Left, Overlap, "other"}, variable : BOOLEAN, usable : BOOLEAN,
     empty : BOOLEAN, tuple : BOOLEAN, histograms : BOOLEAN, secure : BOOLEAN,
     lower : {1}, upper : {19}, min : {0}, max : {20},
     rows : {3}, unit : {2}, freq : Frequencies(Nb(<<0, 20>>)), nonfinite : {{}}]

MCCalls == FullCalls \cup UnboundedCalls \cup PartialCalls
=============================================================================
