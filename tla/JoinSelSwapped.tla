--------------------------- MODULE JoinSelSwapped ----------------------------
(* JoinSel with its two sides exchanged.                                   *)
EXTENDS JoinSel

Exchanged(f) == [s \in Side |-> f[Other(s)]]
Swapped == INSTANCE JoinSel WITH
    Calls <- {[c EXCEPT !.stats = Exchanged(@)] : c \in Calls},
    call <- [call EXCEPT !.stats = Exchanged(@)],
    pins <- {Other(s) : s \in pins},
    low <- Exchanged(low), high <- Exchanged(high),
    min_val <- Exchanged(min_val), max_val <- Exchanged(max_val),
    idx <- Exchanged(idx), at <- Exchanged(at),
    visited <- {<<p[2], p[1]>> : p \in visited}

(* The planner may ask for r1.a && r2.b or for r2.b && r1.a, and computes  *)
(* the same sum: every behaviour of rangeoverlapsjoinsel is, with the two  *)
(* sides exchanged, a behaviour of it.                                     *)
SidesExchangeable == Swapped!Init /\ [][Swapped!Next \/ Swapped!Ended]_(Swapped!vars)
=============================================================================
