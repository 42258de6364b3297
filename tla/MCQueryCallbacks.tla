-------------------------- MODULE MCQueryCallbacks --------------------------
(* QueryCallbacks for TLC: view queries and commands are interchangeable. *)
EXTENDS QueryCallbacks, TLC

Symmetry == Permutations(ViewQueries) \cup Permutations(Commands)

=============================================================================
