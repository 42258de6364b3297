----------------------------- MODULE MCGetValue -----------------------------
(* GetValue for TLC: objects and buffers are interchangeable. *)
EXTENDS GetValue, TLC

Symmetry == Permutations(Objects) \cup Permutations(Buffers)

=============================================================================
