---------------------------- MODULE MCStatsCache ----------------------------
(* StatsCache for TLC: backends that plan and analyze the same column, every *)
(* order of their steps, rows with and without out-of-line fields.           *)
EXTENDS StatsCache, TLC

Symm == Permutations(Backends)
=============================================================================
