----------------------------- MODULE MCCommands -----------------------------
(* Commands, for TLC. *)
EXTENDS Commands, TLC

(* A raw string without a '&' at its end, as in views.h:69, and two with.  *)
RawStrings ==
  {<<[opt |-> "limit", sep |-> FALSE]>>,
   <<[opt |-> "limit", sep |-> TRUE]>>,
   <<[opt |-> "stale", sep |-> TRUE], [opt |-> "limit", sep |-> TRUE]>>}

Symmetry == Permutations(Cmds) \cup Permutations(Params) \cup Permutations(Strings)

=============================================================================
