--------------------------- MODULE QueryCallbacks ---------------------------
(***************************************************************************)
(* CallbackViewQuery (views.h) and CallbackQuery (query.h) with callbacks  *)
(* of the application's own.  A callback runs in the middle of _dispatch,  *)
(* and may there do what the application does elsewhere: issue, stop and   *)
(* destroy queries, that of the callback included.                         *)
(*                                                                         *)
(* A view query knows its request in the C library by a handle, which the  *)
(* library writes through a pointer in the ViewCommand and the constructor *)
(* takes from there.  The request is named after the query it calls back.  *)
(***************************************************************************)
EXTENDS Naturals

CONSTANTS
  Queries,        (* query objects; each lives once                         *)
  ViewQueries,    (* those that are CallbackViewQuery objects               *)
  Commands,       (* ViewCommand objects; each lives once                   *)
  UseCopies,      (* whether it issues queries with copies of ViewCommands  *)
  MaxRows         (* bound on the rows of a query                           *)

ASSUME CallbacksAssumption ==
  /\ ViewQueries \subseteq Queries
  /\ UseCopies \in BOOLEAN
  /\ MaxRows \in Nat
  /\ "none" \notin Queries \cup Commands

VARIABLES
  clife,      (* commands: "unborn", "live", "dead"                         *)
  vhptr,      (* ViewCommand::vhptr: a request, or "none" for NULL          *)
  handle,     (* the command whose vhptr lcb_CMDVIEWQUERY::handle points to *)
  qlife,      (* queries: "unborn", "refused" (the constructor reported an  *)
              (* error), "live", "dead"                                     *)
  vh,         (* CallbackViewQuery::vh                                      *)
  m_done,     (* CallbackQuery::m_done                                      *)
  open,       (* library: the queries it will still deliver responses for   *)
  requests,   (* library: the view requests whose handle may be used        *)
  fetched,    (* rows delivered                                             *)
  loop,       (* whether the application is in the event loop               *)
  running,    (* the query whose callback runs, or "none"                   *)
  final       (* whether it is the done callback                            *)

cmdvars   == <<clife, vhptr, handle>>
queryvars == <<qlife, vh, m_done>>
libvars   == <<open, requests, fetched>>
cbvars    == <<loop, running, final>>
vars      == <<cmdvars, queryvars, libvars, cbvars>>

Constructed(q) == qlife[q] \in {"refused", "live"}
Active(q)      == IF q \in ViewQueries THEN vh[q] # "none" ELSE ~m_done[q]
AppRuns        == ~loop \/ running # "none"

Init ==
  /\ clife = [c \in Commands |-> "unborn"]
  /\ vhptr = [c \in Commands |-> "none"]
  /\ handle = [c \in Commands |-> "none"]
  /\ qlife = [q \in Queries |-> "unborn"]
  /\ vh = [q \in Queries |-> "none"]
  /\ m_done = [q \in Queries |-> FALSE]
  /\ open = {}
  /\ requests = {}
  /\ fetched = [q \in Queries |-> 0]
  /\ loop = FALSE
  /\ running = "none"
  /\ final = FALSE

-----------------------------------------------------------------------------
(* ViewCommand. *)

NewCommand(c) ==
  /\ AppRuns
  /\ clife[c] = "unborn"
  /\ clife' = [clife EXCEPT ![c] = "live"]
  /\ handle' = [handle EXCEPT ![c] = c]
  /\ UNCHANGED <<vhptr, queryvars, libvars, cbvars>>

(* The copy constructor is the compiler's: the pointer to vhptr is copied   *)
(* with the C structure, and still points into the other object.            *)
CopyCommand(c, other) ==
  /\ AppRuns
  /\ clife[c] = "unborn" /\ clife[other] = "live"
  /\ clife' = [clife EXCEPT ![c] = "live"]
  /\ vhptr' = [vhptr EXCEPT ![c] = vhptr[other]]
  /\ handle' = [handle EXCEPT ![c] = handle[other]]
  /\ UNCHANGED <<queryvars, libvars, cbvars>>

DestroyCommand(c) ==
  /\ AppRuns
  /\ clife[c] = "live"
  /\ clife' = [clife EXCEPT ![c] = "dead"]
  /\ UNCHANGED <<vhptr, handle, queryvars, libvars, cbvars>>

-----------------------------------------------------------------------------
(* The queries. *)

(* Mutant: the handle is taken without asking for the status. *)
NewViewQueryAnyStatus(q, c) ==
  /\ AppRuns
  /\ q \in ViewQueries /\ qlife[q] = "unborn"
  /\ clife[c] = "live"
  /\ UseCopies \/ handle[c] = c
  /\ \/ /\ clife[handle[c]] = "live"
        /\ vhptr' = [vhptr EXCEPT ![handle[c]] = q]
        /\ open' = open \cup {q}
        /\ requests' = requests \cup {q}
        /\ qlife' = [qlife EXCEPT ![q] = "live"]
     \/ /\ qlife' = [qlife EXCEPT ![q] = "refused"]
        /\ UNCHANGED <<vhptr, open, requests>>
  /\ vh' = [vh EXCEPT ![q] = vhptr'[c]]
  /\ UNCHANGED <<clife, handle, m_done, fetched, cbvars>>

(* Mutant: the handle is taken before the query is issued. *)
NewViewQueryEarly(q, c) ==
  /\ AppRuns
  /\ q \in ViewQueries /\ qlife[q] = "unborn"
  /\ clife[c] = "live"
  /\ UseCopies \/ handle[c] = c
  /\ \/ /\ clife[handle[c]] = "live"
        /\ vhptr' = [vhptr EXCEPT ![handle[c]] = q]
        /\ open' = open \cup {q}
        /\ requests' = requests \cup {q}
        /\ qlife' = [qlife EXCEPT ![q] = "live"]
        /\ vh' = [vh EXCEPT ![q] = vhptr[c]]
     \/ /\ qlife' = [qlife EXCEPT ![q] = "refused"]
        /\ UNCHANGED <<vhptr, vh, open, requests>>
  /\ UNCHANGED <<clife, handle, m_done, fetched, cbvars>>

(* The constructor of a view query.  The library writes the handle where    *)
(* the command says, and the constructor reads the command's own.  What the *)
(* library does through a command that was destroyed is undefined.          *)
NewViewQuery(q, c) ==
  /\ AppRuns
  /\ q \in ViewQueries /\ qlife[q] = "unborn"
  /\ clife[c] = "live"
  /\ UseCopies \/ handle[c] = c
  /\ \/ /\ clife[handle[c]] = "live"
        /\ vhptr' = [vhptr EXCEPT ![handle[c]] = q]
        /\ open' = open \cup {q}
        /\ requests' = requests \cup {q}
        /\ qlife' = [qlife EXCEPT ![q] = "live"]
        /\ vh' = [vh EXCEPT ![q] = vhptr'[c]]
     \/ /\ qlife' = [qlife EXCEPT ![q] = "refused"]
        /\ UNCHANGED <<vhptr, vh, open, requests>>
  /\ UNCHANGED <<clife, handle, m_done, fetched, cbvars>>

(* The constructor of an N1QL query: making the command from its parameters *)
(* may fail, and issuing it.                                                *)
NewN1qlQuery(q) ==
  /\ AppRuns
  /\ q \notin ViewQueries /\ qlife[q] = "unborn"
  /\ \/ /\ qlife' = [qlife EXCEPT ![q] = "live"]
        /\ open' = open \cup {q}
     \/ /\ qlife' = [qlife EXCEPT ![q] = "refused"]
        /\ UNCHANGED open
  /\ UNCHANGED <<vh, m_done, requests, fetched, cmdvars, cbvars>>

(* lcb_view_cancel: no response follows, and the handle is gone. *)
Cancelled(q) == IF vh[q] = "none" THEN {} ELSE {vh[q]}

(* Mutant: the handle is dropped and the request is not cancelled. *)
StopForgets(q) ==
  /\ AppRuns
  /\ q \in ViewQueries
  /\ Constructed(q) /\ Active(q)
  /\ vh' = [vh EXCEPT ![q] = "none"]
  /\ UNCHANGED <<qlife, m_done, libvars, cmdvars, cbvars>>

(* CallbackViewQuery::stop, on an active query. *)
Stop(q) ==
  /\ AppRuns
  /\ q \in ViewQueries
  /\ Constructed(q) /\ Active(q)
  /\ open' = open \ Cancelled(q)
  /\ requests' = requests \ Cancelled(q)
  /\ vh' = [vh EXCEPT ![q] = "none"]
  /\ UNCHANGED <<qlife, m_done, fetched, cmdvars, cbvars>>

(* Mutant: ~CallbackViewQuery cancels nothing either. *)
DestroyViewQueryQuietly(q) ==
  /\ AppRuns
  /\ q \in ViewQueries
  /\ Constructed(q)
  /\ ~(running = q /\ final)
  /\ qlife' = [qlife EXCEPT ![q] = "dead"]
  /\ UNCHANGED <<vh, m_done, libvars, cmdvars, cbvars>>

(* ~CallbackViewQuery calls stop().  _dispatch clears the handle after the  *)
(* done callback: the application must not destroy the query there.         *)
DestroyViewQuery(q) ==
  /\ AppRuns
  /\ q \in ViewQueries
  /\ Constructed(q)
  /\ ~(running = q /\ final)
  /\ qlife' = [qlife EXCEPT ![q] = "dead"]
  /\ open' = open \ Cancelled(q)
  /\ requests' = requests \ Cancelled(q)
  /\ vh' = [vh EXCEPT ![q] = "none"]
  /\ UNCHANGED <<m_done, fetched, cmdvars, cbvars>>

(* ~CallbackQuery does nothing: the application destroys a query that was   *)
(* refused, or is no longer active(), which it is not in its done callback. *)
DestroyN1qlQuery(q) ==
  /\ AppRuns
  /\ q \notin ViewQueries
  /\ qlife[q] = "refused" \/ (qlife[q] = "live" /\ ~Active(q))
  /\ qlife' = [qlife EXCEPT ![q] = "dead"]
  /\ UNCHANGED <<vh, m_done, libvars, cmdvars, cbvars>>

-----------------------------------------------------------------------------
(* The event loop. *)

Wait ==
  /\ ~loop
  /\ loop' = TRUE
  /\ UNCHANGED <<running, final, cmdvars, queryvars, libvars>>

(* It ends by itself or is broken out of, by whatever uses the client. *)
Return ==
  /\ loop /\ running = "none"
  /\ loop' = FALSE
  /\ UNCHANGED <<running, final, cmdvars, queryvars, libvars>>

(* viewcb, n1qlcb and the first half of _dispatch, for a row. *)
RowCallback(q) ==
  /\ loop /\ running = "none"
  /\ q \in open /\ qlife[q] = "live"
  /\ fetched[q] < MaxRows
  /\ fetched' = [fetched EXCEPT ![q] = @ + 1]
  /\ running' = q
  /\ UNCHANGED <<loop, final, open, requests, cmdvars, queryvars>>

(* The same for the final response.  A CallbackQuery is done before its     *)
(* callback is called.                                                      *)
DoneCallback(q) ==
  /\ loop /\ running = "none"
  /\ q \in open /\ qlife[q] = "live"
  /\ open' = open \ {q}
  /\ m_done' = [m_done EXCEPT ![q] = q \notin ViewQueries]
  /\ running' = q
  /\ final' = TRUE
  /\ UNCHANGED <<loop, requests, fetched, cmdvars, qlife, vh>>

(* The callback returns.  After the final response of a view query,         *)
(* _dispatch clears the handle and the library releases the request.        *)
CallbackReturns ==
  /\ running # "none"
  /\ running' = "none"
  /\ final' = FALSE
  /\ requests' = IF final THEN requests \ {running} ELSE requests
  /\ vh' = IF final THEN [vh EXCEPT ![running] = "none"] ELSE vh
  /\ UNCHANGED <<loop, open, fetched, cmdvars, qlife, m_done>>

Next ==
  \/ \E c \in Commands : NewCommand(c) \/ DestroyCommand(c)
  \/ \E c, other \in Commands : CopyCommand(c, other)
  \/ \E q \in Queries, c \in Commands : NewViewQuery(q, c)
  \/ \E q \in Queries :
       \/ NewN1qlQuery(q) \/ Stop(q) \/ DestroyViewQuery(q) \/ DestroyN1qlQuery(q)
       \/ RowCallback(q) \/ DoneCallback(q)
  \/ Wait
  \/ Return
  \/ CallbackReturns

Spec == Init /\ [][Next]_vars

-----------------------------------------------------------------------------
(* Properties. *)

TypeOK ==
  /\ clife \in [Commands -> {"unborn", "live", "dead"}]
  /\ vhptr \in [Commands -> ViewQueries \cup {"none"}]
  /\ handle \in [Commands -> Commands \cup {"none"}]
  /\ qlife \in [Queries -> {"unborn", "refused", "live", "dead"}]
  /\ vh \in [Queries -> ViewQueries \cup {"none"}]
  /\ m_done \in [Queries -> BOOLEAN]
  /\ open \in SUBSET Queries
  /\ requests \in SUBSET ViewQueries
  /\ fetched \in [Queries -> 0 .. MaxRows]
  /\ loop \in BOOLEAN
  /\ running \in Queries \cup {"none"}
  /\ final \in BOOLEAN

(* stop() and the destructor cancel the query's own request, and one that   *)
(* the library still has, whichever callbacks they are called from and      *)
(* however often the command was used.                                      *)
HandlesValid ==
  \A q \in Queries : vh[q] # "none" => vh[q] = q /\ q \in requests

(* The library calls back only into queries that exist. *)
NoDanglingCallback == \A q \in open : qlife[q] = "live"

(* "Whether this query object is still active (still has rows to be         *)
(* fetched)": a query with responses to come is, so that stop(), and with   *)
(* it the destructor of a view query, can end it, and a Query is not taken  *)
(* to be done.                                                              *)
ActiveWhileOpen == \A q \in open : Active(q)

(* "This stops the query and ensures no more rows are fetched from the      *)
(* network": no callback of a query is called once it was stopped or        *)
(* destroyed, in whatever callback that was.                                *)
StoppedIsSilent ==
  [][\A q \in Queries : ~Active(q) \/ qlife[q] = "dead"
       => ~(running' = q /\ running # q)]_vars

=============================================================================
