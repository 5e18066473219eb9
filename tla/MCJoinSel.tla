------------------------------ MODULE MCJoinSel ------------------------------
(* Model checking of JoinSel: pairs of columns with a few bounds.          *)
EXTENDS JoinSelSwapped

CONSTANTS
    Vals,       \* bound values
    Unbounded   \* whether columns with infinite bounds are included, whose
                \* first lower bound may be above the last upper bound

Columns == {c \in [min : Vals, max : Vals] : (Unbounded \/ c.min < c.max) /\ GridExists(c.min, c.max)}

Stat(c, t, h, s) == [tuple |-> t, histograms |-> h, secure |-> s, min |-> c.min, max |-> c.max]
Call(op, a, b) == [overlap_op |-> op, stats |-> <<a, b>>]

(* Calls that reach the estimate, and one column for those that do not.    *)
FullCalls == {Call(TRUE, Stat(c, TRUE, TRUE, TRUE), Stat(d, TRUE, TRUE, TRUE)) : c, d \in Columns}
SomeColumn == CHOOSE c \in Columns : TRUE
PartialStats == {Stat(SomeColumn, t, h, s) : t, h, s \in BOOLEAN}
PartialCalls == {Call(op, a, b) : op \in BOOLEAN, a, b \in PartialStats}
MCCalls == FullCalls \cup PartialCalls
=============================================================================
