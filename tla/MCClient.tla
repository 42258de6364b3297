------------------------------ MODULE MCClient ------------------------------
(* Client for TLC: its operations and contexts are interchangeable, but for *)
(* the stats operations and the callback contexts.                          *)
EXTENDS Client, TLC

Symmetry ==
  Permutations(Ops \ StatsOps) \cup Permutations(StatsOps)
    \cup Permutations(Contexts \ CallbackContexts)
    \cup Permutations(CallbackContexts)

=============================================================================
