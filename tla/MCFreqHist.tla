----------------------------- MODULE MCFreqHist ------------------------------
(* Model checking of FreqHist: calls with a few rows and bound values.   *)
EXTENDS FreqHist

CONSTANTS
    Vals,       \* the bound values of the columns
    MaxRows     \* most rows in a call; the code never passes fewer than two

MCVals == {-41, -1, 0, 1, 3, 20, 41, 62}

Ascending(n) == {f \in [0 .. n - 1 -> Vals] : \A r \in 1 .. n - 1 : f[r - 1] <= f[r]}

(* Every pair of ascending arrays in which each row is a non-empty range.  *)
MCInputs ==
    UNION {{c \in [rows : {n}, lowers : Ascending(n), uppers : Ascending(n)] :
               \A r \in 0 .. n - 1 : c.lowers[r] < c.uppers[r]} : n \in 2 .. MaxRows}
=============================================================================
