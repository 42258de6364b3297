----------------------------- MODULE Completion -----------------------------
(***************************************************************************)
(* What Client promises of a wait: "Wait for all scheduled operations to   *)
(* complete."  Operations are submitted, alone or as a batch, at any time; *)
(* they are answered while the application waits, each at most once; and   *)
(* the wait returns when none is outstanding.                              *)
(***************************************************************************)
CONSTANT Ops

VARIABLES
  outstanding,   (* submitted and not yet answered                          *)
  answered,      (* answered, by the cluster or by a refusal                *)
  waiting        (* whether the application is blocked in a call            *)

vars == <<outstanding, answered, waiting>>

Init ==
  /\ outstanding = {}
  /\ answered = {}
  /\ waiting = FALSE

Submit(S) ==
  /\ S \cap (outstanding \cup answered) = {}
  /\ outstanding' = outstanding \cup S
  /\ UNCHANGED <<answered, waiting>>

(* A call that fails before anything is sent. *)
Refuse(op) ==
  /\ op \notin outstanding \cup answered
  /\ answered' = answered \cup {op}
  /\ UNCHANGED <<outstanding, waiting>>

(* To wait, having submitted the operation of the call, if it has one. *)
Enter(S) ==
  /\ ~waiting
  /\ S \cap (outstanding \cup answered) = {}
  /\ outstanding' = outstanding \cup S
  /\ waiting' = TRUE
  /\ UNCHANGED answered

Answer(op) ==
  /\ waiting
  /\ op \in outstanding
  /\ outstanding' = outstanding \ {op}
  /\ answered' = answered \cup {op}
  /\ UNCHANGED waiting

Leave ==
  /\ waiting
  /\ outstanding = {}
  /\ waiting' = FALSE
  /\ UNCHANGED <<outstanding, answered>>

Next ==
  \/ \E S \in SUBSET Ops : Submit(S) \/ Enter(S)
  \/ \E op \in Ops : Refuse(op) \/ Answer(op)
  \/ Leave

Spec == Init /\ [][Next]_vars

=============================================================================
