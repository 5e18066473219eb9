-------------------------- MODULE MCAnalyzeEstimate --------------------------
(* Model checking of AnalyzeEstimate on columns of two ranges.               *)
EXTENDS AnalyzeEstimate

CONSTANTS ColumnVals, ConstVals

MCConstants == {c \in ConstVals \X ConstVals : c[1] < c[2]}

MCInputs ==
    {c \in [rows : {2}, lowers : [0 .. 1 -> ColumnVals], uppers : [0 .. 1 -> ColumnVals]] :
        /\ c.lowers[0] <= c.lowers[1] /\ c.uppers[0] <= c.uppers[1]
        /\ \A r \in 0 .. 1 : c.lowers[r] < c.uppers[r]}

MCColumnVals == {-20, 0, 1, 3, 20, 60, 380}
MCConstVals == {-21, 0, 2, 19, 20, 59, 362, 363, 381, 500}
=============================================================================
