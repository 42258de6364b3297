------------------------------ MODULE RowQuery ------------------------------
(***************************************************************************)
(* Iterating over a query: RowProvider and RowIterator (row_common.h), as  *)
(* ViewQuery (views.h) and Query (query.h) use them, on a Client.          *)
(*                                                                         *)
(* The iterator pulls and the library pushes.  An iterator that needs a    *)
(* row runs RowProvider::rp_next on the application's thread: it takes the *)
(* first buffered row, or ends when the query is no longer active, or      *)
(* enters the event loop through rp_wait() and tries again.  In the loop   *)
(* the library delivers rows and the final response; their callbacks       *)
(* buffer the row, or close the query, and call Client::breakout.  The     *)
(* loop, and Client::remaining, are shared with every other operation.     *)
(***************************************************************************)
EXTENDS Client, Sequences

CONSTANTS
  ViewQueries,     (* those of Queries that are ViewQuery objects; the      *)
                   (* others are (N1QL) Query objects                       *)
  MaxRows,         (* bound on the rows of a query                          *)
  IterateFailed    (* whether the application iterates over a query whose   *)
                   (* constructor reported an error                         *)

ASSUME RowAssumption ==
  /\ ViewQueries \subseteq Queries
  /\ MaxRows \in Nat
  /\ IterateFailed \in BOOLEAN

VARIABLES
  qlife,      (* query objects: "unborn", "refused" (the constructor        *)
              (* reported an error), "live", "dead"                         *)
  active,     (* active(): vh # NULL of a view query, ~m_done of a Query    *)
  open,       (* library: the queries it will still deliver responses for   *)
  fetched,    (* rows the library has delivered, numbered from 1            *)
  rows,       (* RowProvider::rows                                          *)
  iter,       (* the iterator: "none" yet, "next" in rp_next, "row", "end"  *)
  seen        (* the rows operator* has shown, in order                     *)

queryvars == <<qlife, active, open, fetched, rows, iter, seen>>
rowvars   == <<vars, queryvars>>

Constructed(q) == qlife[q] \in {"refused", "live"}

(* No rp_next is running, so that the application's own code may. *)
Settled == \A q \in Queries : iter[q] # "next"

-----------------------------------------------------------------------------

RowInit ==
  /\ Init
  /\ qlife = [q \in Queries |-> "unborn"]
  /\ active = [q \in Queries |-> q \notin ViewQueries]
  /\ open = {}
  /\ fetched = [q \in Queries |-> 0]
  /\ rows = [q \in Queries |-> <<>>]
  /\ iter = [q \in Queries |-> "none"]
  /\ seen = [q \in Queries |-> <<>>]

(* The constructors.  That of a view query takes the handle, which makes it *)
(* active, when the query could be issued.  m_done of a Query starts FALSE  *)
(* and stays so if the query could not be issued.                           *)
NewQuery(q) ==
  /\ AppRuns /\ (Idle => Settled)
  /\ qlife[q] = "unborn"
  /\ \/ /\ qlife' = [qlife EXCEPT ![q] = "live"]
        /\ active' = [active EXCEPT ![q] = TRUE]
        /\ open' = open \cup {q}
     \/ /\ qlife' = [qlife EXCEPT ![q] = "refused"]
        /\ UNCHANGED <<active, open>>
  /\ UNCHANGED <<vars, fetched, rows, iter, seen>>

(* CallbackViewQuery::stop, while the query is active. *)
Stop(q) ==
  /\ Idle /\ Settled
  /\ q \in ViewQueries
  /\ Constructed(q) /\ active[q]
  /\ active' = [active EXCEPT ![q] = FALSE]
  /\ open' = open \ {q}
  /\ UNCHANGED <<vars, qlife, fetched, rows, iter, seen>>

(* Mutant: ~CallbackViewQuery does not stop the query. *)
DestroyWithoutStop(q) ==
  /\ Idle /\ Settled
  /\ Constructed(q)
  /\ q \in ViewQueries \/ q \notin open
  /\ qlife' = [qlife EXCEPT ![q] = "dead"]
  /\ UNCHANGED <<vars, active, open, fetched, rows, iter, seen>>

(* ~CallbackViewQuery stops an active query.  ~CallbackQuery does nothing,  *)
(* and the application keeps a Query until it is done or was refused.       *)
DestroyQuery(q) ==
  /\ Idle /\ Settled
  /\ Constructed(q)
  /\ q \in ViewQueries \/ q \notin open
  /\ qlife' = [qlife EXCEPT ![q] = "dead"]
  /\ open' = IF active[q] THEN open \ {q} ELSE open
  /\ active' = [active EXCEPT ![q] = @ /\ q \notin ViewQueries]
  /\ UNCHANGED <<vars, fetched, rows, iter, seen>>

-----------------------------------------------------------------------------
(* The iterator. *)

(* begin(), once for each query: mkbegin() goes into rp_next. *)
Begin(q) ==
  /\ Idle /\ Settled
  /\ Constructed(q)
  /\ qlife[q] = "live" \/ IterateFailed
  /\ iter[q] = "none"
  /\ iter' = [iter EXCEPT ![q] = "next"]
  /\ UNCHANGED <<vars, qlife, active, open, fetched, rows, seen>>

(* operator++ drops the row it was at and goes into rp_next. *)
Increment(q) ==
  /\ Idle /\ Settled
  /\ Constructed(q)
  /\ iter[q] = "row"
  /\ rows' = [rows EXCEPT ![q] = Tail(@)]
  /\ iter' = [iter EXCEPT ![q] = "next"]
  /\ UNCHANGED <<vars, qlife, active, open, fetched, seen>>

(* rp_next: there is a row. *)
TakeRow(q) ==
  /\ Idle
  /\ iter[q] = "next"
  /\ rows[q] # <<>>
  /\ iter' = [iter EXCEPT ![q] = "row"]
  /\ seen' = [seen EXCEPT ![q] = Append(@, Head(rows[q]))]
  /\ UNCHANGED <<vars, qlife, active, open, fetched, rows>>

(* Mutant: rp_next tries once and takes any return of wait() for the end. *)
NoRowNoRetry(q) ==
  /\ Idle
  /\ iter[q] = "next"
  /\ rows[q] = <<>>
  /\ iter' = [iter EXCEPT ![q] = "end"]
  /\ UNCHANGED <<vars, qlife, active, open, fetched, rows, seen>>

(* rp_next: there is none, and there will be none. *)
NoRow(q) ==
  /\ Idle
  /\ iter[q] = "next"
  /\ rows[q] = <<>>
  /\ ~active[q]
  /\ iter' = [iter EXCEPT ![q] = "end"]
  /\ UNCHANGED <<vars, qlife, active, open, fetched, rows, seen>>

(* rp_next: wait and try again. *)
AwaitRow(q) ==
  /\ iter[q] = "next"
  /\ rows[q] = <<>>
  /\ active[q]
  /\ Wait(q)
  /\ UNCHANGED queryvars

-----------------------------------------------------------------------------
(* The callbacks, in the event loop. *)

(* Mutant: the row is buffered and the loop goes on. *)
RowResponseQuiet(q) ==
  /\ call # "none" /\ cur = "none"
  /\ q \in open /\ qlife[q] = "live"
  /\ fetched[q] < MaxRows
  /\ fetched' = [fetched EXCEPT ![q] = @ + 1]
  /\ rows' = [rows EXCEPT ![q] = Append(@, fetched'[q])]
  /\ UNCHANGED <<vars, qlife, active, open, iter, seen>>

(* A row: ViewQuery::handle_row, or the row callback of a Query. *)
RowResponse(q) ==
  /\ Breakout
  /\ q \in open /\ qlife[q] = "live"
  /\ fetched[q] < MaxRows
  /\ fetched' = [fetched EXCEPT ![q] = @ + 1]
  /\ rows' = [rows EXCEPT ![q] = Append(@, fetched'[q])]
  /\ UNCHANGED <<qlife, active, open, iter, seen>>

(* Mutant: the handle is kept after the final response. *)
FinalResponseStaysActive(q) ==
  /\ Breakout
  /\ q \in open /\ qlife[q] = "live"
  /\ open' = open \ {q}
  /\ UNCHANGED <<qlife, active, fetched, rows, iter, seen>>

(* The final response: _dispatch of either class, with ViewQuery's          *)
(* handle_done or the done callback of a Query.                             *)
FinalResponse(q) ==
  /\ Breakout
  /\ q \in open /\ qlife[q] = "live"
  /\ open' = open \ {q}
  /\ active' = [active EXCEPT ![q] = FALSE]
  /\ UNCHANGED <<qlife, fetched, rows, iter, seen>>

(* The loop returns, to the application or to rp_next. *)
LoopReturns ==
  /\ Return(pending = {} /\ open = {})
  /\ UNCHANGED queryvars

(* Everything else the client does.  A query refers to its client, so that  *)
(* none outlives it.                                                        *)
OtherCalls ==
  /\ Calls
  /\ Idle => Settled
  /\ phase' = "destroyed" => \A q \in Queries : ~Constructed(q)
  /\ UNCHANGED queryvars

RowTerminated == Terminated /\ UNCHANGED queryvars

RowNext ==
  \/ \E q \in Queries :
       \/ NewQuery(q) \/ Stop(q) \/ DestroyQuery(q)
       \/ Begin(q) \/ Increment(q) \/ TakeRow(q) \/ NoRow(q) \/ AwaitRow(q)
       \/ RowResponse(q) \/ FinalResponse(q)
  \/ LoopReturns
  \/ OtherCalls
  \/ RowTerminated

RowSpec == RowInit /\ [][RowNext]_rowvars

(* rp_next and _dispatch are code that runs on; a loop that was stopped     *)
(* returns; and the library answers every operation and ends every query,   *)
(* if only with a timeout, as long as the application is in the loop again  *)
(* and again.                                                               *)
LastResponse(op) ==
  /\ HandleSingle(op) \/ HandleStats(op)
  /\ op \notin pending'
  /\ UNCHANGED queryvars

RowFairness ==
  /\ \A q \in Queries : WF_rowvars(TakeRow(q) \/ NoRow(q) \/ AwaitRow(q))
  /\ WF_rowvars(FinishDispatch /\ UNCHANGED queryvars)
  /\ WF_rowvars(LoopReturns)
  /\ \A op \in Ops : SF_rowvars(LastResponse(op))
  /\ \A q \in Queries : SF_rowvars(FinalResponse(q))

FairRowSpec == RowSpec /\ RowFairness

-----------------------------------------------------------------------------
(* Properties. *)

RowTypeOK ==
  /\ TypeOK
  /\ qlife \in [Queries -> {"unborn", "refused", "live", "dead"}]
  /\ active \in [Queries -> BOOLEAN]
  /\ open \in SUBSET Queries
  /\ fetched \in [Queries -> Nat]
  /\ rows \in [Queries -> Seq(Nat)]
  /\ iter \in [Queries -> {"none", "next", "row", "end"}]
  /\ seen \in [Queries -> Seq(Nat)]

(* The library calls back only into query objects that exist. *)
NoDanglingQuery == \A q \in open : qlife[q] = "live"

(* "The returned iterator will incrementally fetch rows from the network":  *)
(* an iterator that waits, for which a row or the end has arrived, gets it  *)
(* before the loop waits for anything else, unless counted operations are   *)
(* outstanding.                                                             *)
Incremental ==
  \A q \in Queries :
    call = q /\ cur = "none" /\ (rows[q] # <<>> \/ ~active[q]) /\ Credited = {}
      => stop

(* No iterator waits, or waits again, for a query that the library will not *)
(* call back for any more: there is something that can end the wait.        *)
AwaitsAnswer == \A q \in Queries : iter[q] = "next" /\ active[q] => q \in open

(* An iterator that asks for the next row gets it, or the end. *)
IterationEnds == \A q \in Queries : (iter[q] = "next") ~> (iter[q] # "next")

(* The promise of RowStream: every row once, in order, and no end before    *)
(* the final response, whatever else makes the loop return.                 *)
Stream == INSTANCE RowStream WITH
  stream <- [q \in Queries |->
               IF q \in open THEN "open"
               ELSE IF qlife[q] = "unborn" THEN "new" ELSE "closed"],
  ended  <- [q \in Queries |-> iter[q] = "end"]

StreamsRows == Stream!Spec

=============================================================================
