------------------------------ MODULE Custody -------------------------------
(***************************************************************************)
(* What objects with a C resource promise about it, however they share it, *)
(* pass it on or move it: it is released in the step in which the last     *)
(* that has it lets go of it - no sooner, no later, not a second time -    *)
(* and nobody has it afterwards.  Buffers of values, contexts of the       *)
(* library and parameter blocks of queries are kept like this.             *)
(***************************************************************************)
CONSTANT Resources

VARIABLES
  users,      (* resources: those that have it                              *)
  released    (* the resources that were released                           *)

Init ==
  /\ users = [r \in Resources |-> {}]
  /\ released = {}

(* Any of them may take a resource or let go of it in a step.               *)
Next ==
  /\ \A r \in released : users'[r] = {}
  /\ released' = released \cup {r \in Resources : users[r] # {} /\ users'[r] = {}}

Spec == Init /\ [][Next]_<<users, released>>

=============================================================================
