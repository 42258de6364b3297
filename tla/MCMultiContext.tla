--------------------------- MODULE MCMultiContext ---------------------------
(* MultiContext for TLC: objects, contexts and servers are interchangeable. *)
EXTENDS MultiContext, TLC

Symmetry ==
  Permutations(ObserveObjs) \cup Permutations(ObserveInners)
    \cup Permutations(Cmds) \cup Permutations(Servers)

=============================================================================
