----------------------------- MODULE InvalQueue -----------------------------
(***************************************************************************)
(* What the shared invalidation queue of PostgreSQL promises the backends: *)
(* one sequence of messages, numbered in the order they were sent, that is *)
(* never shortened; every active backend reads all of it from the moment   *)
(* it starts, in order and without gaps, or is told to reset, which stands *)
(* for every message it has not read.                                      *)
(***************************************************************************)
EXTENDS Integers, Sequences

CONSTANTS Backends,        \* the backend identifiers
          MaxChunk,        \* most messages sent in one step
          Reset            \* what a backend is handed instead of messages

VARIABLES sent,            \* number of messages sent so far: 0 .. sent - 1
          seen,            \* per backend: number of the next message to read
          active,          \* backends that take part
          handed           \* per backend: the last delivery

qvars == <<sent, seen, active, handed>>

QInit ==
    /\ sent = 0
    /\ seen = [b \in Backends |-> 0]
    /\ active = {}
    /\ handed = [b \in Backends |-> <<>>]

\* A backend starts with every message already sent counted as read.
Join(b) ==
    /\ b \notin active
    /\ active' = active \cup {b}
    /\ seen' = [seen EXCEPT ![b] = sent]
    /\ UNCHANGED <<sent, handed>>

Leave(b) ==
    /\ b \in active
    /\ active' = active \ {b}
    /\ seen' = [seen EXCEPT ![b] = 0]
    /\ handed' = [handed EXCEPT ![b] = <<>>]
    /\ UNCHANGED sent

Send ==
    /\ \E n \in 1 .. MaxChunk : sent' = sent + n
    /\ UNCHANGED <<seen, active, handed>>

\* The next messages, in order and none left out.
Deliver(b) ==
    /\ b \in active
    /\ \E n \in 0 .. (sent - seen[b]) :
          /\ handed' = [handed EXCEPT ![b] = [i \in 1 .. n |-> seen[b] + i - 1]]
          /\ seen' = [seen EXCEPT ![b] = @ + n]
    /\ UNCHANGED <<sent, active>>

\* Messages are only ever skipped by a reset.
DeliverReset(b) ==
    /\ b \in active
    /\ \E m \in seen[b] .. sent : seen' = [seen EXCEPT ![b] = m]
    /\ handed' = [handed EXCEPT ![b] = <<Reset>>]
    /\ UNCHANGED <<sent, active>>

QNext ==
    \/ Send
    \/ \E b \in Backends : Join(b) \/ Leave(b) \/ Deliver(b) \/ DeliverReset(b)

QSpec == QInit /\ [][QNext]_qvars
=============================================================================
