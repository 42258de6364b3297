----------------------------- MODULE RowStream ------------------------------
(***************************************************************************)
(* What iterating a query promises: "The returned iterator will            *)
(* incrementally fetch rows from the network until no more rows remain."   *)
(* Each row that the network delivered is seen once, in order, and the     *)
(* iteration ends when there will be no more and all have been seen.       *)
(***************************************************************************)
EXTENDS Naturals, Sequences

CONSTANT Queries

VARIABLES
  stream,    (* "new", "open" or "closed"                                   *)
  fetched,   (* rows that arrived; they are numbered from 1                 *)
  seen,      (* the rows the iterator has shown, in order                   *)
  ended      (* whether the iterator compares equal to end()                *)

vars == <<stream, fetched, seen, ended>>

Init ==
  /\ stream = [q \in Queries |-> "new"]
  /\ fetched = [q \in Queries |-> 0]
  /\ seen = [q \in Queries |-> <<>>]
  /\ ended = [q \in Queries |-> FALSE]

Open(q) ==
  /\ stream[q] = "new"
  /\ stream' \in {[stream EXCEPT ![q] = s] : s \in {"open", "closed"}}
  /\ UNCHANGED <<fetched, seen, ended>>

Fetch(q) ==
  /\ stream[q] = "open"
  /\ fetched' = [fetched EXCEPT ![q] = @ + 1]
  /\ UNCHANGED <<stream, seen, ended>>

(* The final response, or the query was given up. *)
Close(q) ==
  /\ stream[q] = "open"
  /\ stream' = [stream EXCEPT ![q] = "closed"]
  /\ UNCHANGED <<fetched, seen, ended>>

See(q) ==
  /\ ~ended[q]
  /\ Len(seen[q]) < fetched[q]
  /\ seen' = [seen EXCEPT ![q] = Append(@, Len(@) + 1)]
  /\ UNCHANGED <<stream, fetched, ended>>

End(q) ==
  /\ stream[q] = "closed"
  /\ Len(seen[q]) = fetched[q]
  /\ ended' = [ended EXCEPT ![q] = TRUE]
  /\ UNCHANGED <<stream, fetched, seen>>

Next ==
  \E q \in Queries : Open(q) \/ Fetch(q) \/ Close(q) \/ See(q) \/ End(q)

Spec == Init /\ [][Next]_vars

=============================================================================
