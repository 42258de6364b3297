------------------------------- MODULE Client -------------------------------
(***************************************************************************)
(* The core of couchbase++: Couchbase::Client, the batch Context, and the  *)
(* way the responses of libcouchbase find their handlers.                  *)
(*                                                                         *)
(* Everything runs on one thread.  The application schedules operations    *)
(* (Context::add, Client::run, Client::endure), enters the event loop of   *)
(* the C library through Client::wait, and there the library calls back    *)
(* into Client::_dispatch, once per response.  The interleavings are those *)
(* of the library choosing which response arrives next, of the user code   *)
(* that CallbackCommand runs inside the loop, and of the loop being        *)
(* stopped, by Client::breakout or by the library itself.  The queries of  *)
(* views.h and query.h use the same loop: here they are callers of wait()  *)
(* and breakout(), and RowQuery says when they call.                       *)
(*                                                                         *)
(* An operation of the model stands for the command, for the slot of the   *)
(* Response object that is its cookie, and for what the library knows of   *)
(* it.  The C library is external: `queued' are the operations of its      *)
(* scheduling context (between lcb_sched_enter and lcb_sched_leave or      *)
(* lcb_sched_fail) and `pending' those it has sent and not yet answered.   *)
(***************************************************************************)
EXTENDS Naturals, FiniteSets

CONSTANTS
  Ops,               (* operations; each is used once, which bounds the model *)
  StatsOps,          (* those that are StatsCommands: several responses       *)
  Contexts,          (* Context objects: BatchCommands and CallbackCommands   *)
  CallbackContexts,  (* those that belong to a CallbackCommand                *)
  Queries,           (* ViewQuery and Query objects                           *)
  Word,              (* size_t counts modulo Word                             *)
  Uses               (* the calls the application makes beside the batches    *)

(* "run":            the synchronous calls (get, store, remove, stats, ...)  *)
(* "endure":         Client::endure                                          *)
(* "callback_stats": CallbackCommand<StatsCommand, StatsResponse>            *)
AllUses == {"run", "endure", "callback_stats"}

ASSUME ClientAssumption ==
  /\ IsFiniteSet(Ops)
  /\ StatsOps \subseteq Ops
  /\ CallbackContexts \subseteq Contexts
  /\ Word \in Nat
  /\ Cardinality(Ops) < Word
  /\ Uses \subseteq AllUses
  /\ Ops \cap Queries = {}
  /\ (Ops \cup Queries) \cap {"none", "wait"} = {}
  /\ Contexts \cap {"unused", "run", "endure", "gone"} = {}

VARIABLES
  phase,        (* "created", "connected", "failed" or "destroyed"          *)
  remaining,    (* Client::remaining, a size_t                              *)
  queued,       (* library: operations in the scheduling context            *)
  pending,      (* library: operations sent, final response not delivered   *)
  stop,         (* library: the running event loop was asked to return      *)
  call,         (* the call the application is blocked in: "none", "wait",  *)
                (* the operation of a run() or endure(), or the query whose *)
                (* iterator waits for a row                                 *)
  cur,          (* the operation whose response _dispatch is handling       *)
  life,         (* Context objects: "unborn", "live", "dead"                *)
  entered,      (* Context::entered                                         *)
  m_remaining,  (* Context::m_remaining                                     *)
  unwaited,     (* contexts submitted since wait() last returned            *)
  owner,        (* what each operation belongs to, "gone" when its slot was *)
                (* destroyed with the list of a batch that was assigned to  *)
  rc,           (* Response::u.base.rc, "unset" before anything writes it   *)
  m_done        (* StatsResponse::m_done                                    *)

libvars == <<queued, pending, stop>>
ctxvars == <<life, entered, m_remaining, unwaited>>
opvars  == <<owner, rc, m_done>>
vars    == <<phase, remaining, call, cur, libvars, ctxvars, opvars>>

-----------------------------------------------------------------------------
(* Mutant: the count is held in a signed type. *)
SizeDecSigned(a) == a - 1

(* size_t arithmetic, for operands below Word. *)
SizeAdd(a, b) == IF a + b < Word THEN a + b ELSE (a + b) - Word
SizeDec(a)    == IF a = 0 THEN Word - 1 ELSE a - 1

(* Where the application's own code runs: between its calls, or inside the  *)
(* callback of a CallbackCommand.                                           *)
Idle       == phase = "connected" /\ call = "none"
InCallback == cur \in Ops /\ owner[cur] \in CallbackContexts
AppRuns    == Idle \/ InCallback

(* "Only one batch context can be active on a client at a given time.  In   *)
(* addition, when a batch context is active, higher level calls on the      *)
(* client [...] cannot be performed."                                       *)
NoneActive == \A c \in Contexts : ~entered[c]

(* The object behind the cookie of op still exists: the batch that holds    *)
(* the response, or the stack frame of the synchronous call.                *)
HandlerLives(op) ==
  IF owner[op] \in Contexts THEN life[owner[op]] = "live" ELSE call = op

-----------------------------------------------------------------------------
(* The life of the client. *)

Init ==
  /\ phase = "created"
  /\ remaining = 0
  /\ queued = {}
  /\ pending = {}
  /\ stop = FALSE
  /\ call = "none"
  /\ cur = "none"
  /\ life = [c \in Contexts |-> "unborn"]
  /\ entered = [c \in Contexts |-> FALSE]
  /\ m_remaining = [c \in Contexts |-> 0]
  /\ unwaited = {}
  /\ owner = [op \in Ops |-> "unused"]
  /\ rc = [op \in Ops |-> "unset"]
  /\ m_done = [op \in Ops |-> FALSE]

(* Client::connect.  Nothing is scheduled yet, so its wait() only           *)
(* bootstraps; the callback is installed when that succeeds.                *)
Connect ==
  /\ phase = "created"
  /\ phase' \in {"connected", "failed"}
  /\ UNCHANGED <<remaining, call, cur, libvars, ctxvars, opvars>>

(* Client::~Client.  A Context refers to its client, so none outlives it.   *)
DestroyClient ==
  /\ phase # "destroyed"
  /\ call = "none"
  /\ \A c \in Contexts : life[c] # "live"
  /\ phase' = "destroyed"
  /\ UNCHANGED <<remaining, call, cur, libvars, ctxvars, opvars>>

-----------------------------------------------------------------------------
(* Context, BatchCommand and CallbackCommand. *)

(* Context::Context calls reset(), which enters a scheduling context. *)
NewContext(c) ==
  /\ AppRuns /\ NoneActive
  /\ life[c] = "unborn"
  /\ life' = [life EXCEPT ![c] = "live"]
  /\ entered' = [entered EXCEPT ![c] = TRUE]
  /\ m_remaining' = [m_remaining EXCEPT ![c] = 0]
  /\ UNCHANGED <<phase, remaining, call, cur, libvars, unwaited, opvars>>

(* Mutant: the batch's own count survives the reset. *)
ResetKeepsCount(c) ==
  /\ AppRuns /\ NoneActive
  /\ c \notin CallbackContexts
  /\ life[c] = "live"
  /\ entered' = [entered EXCEPT ![c] = TRUE]
  /\ UNCHANGED <<phase, remaining, call, cur, libvars, life, m_remaining,
                 unwaited, opvars>>

(* Context::reset, on a batch that was submitted or bailed out.  A          *)
(* CallbackCommand does not give access to its context, but for add() and   *)
(* submit().                                                                *)
Reset(c) ==
  /\ AppRuns /\ NoneActive
  /\ c \notin CallbackContexts
  /\ life[c] = "live"
  /\ entered' = [entered EXCEPT ![c] = TRUE]
  /\ m_remaining' = [m_remaining EXCEPT ![c] = 0]
  /\ UNCHANGED <<phase, remaining, call, cur, libvars, life, unwaited, opvars>>

(* The library may refuse the command; BatchCommand::add has put a response *)
(* into its list by then, and it stays there.                               *)
Add(c, op) ==
  /\ AppRuns
  /\ entered[c]
  /\ owner[op] = "unused"
  /\ (c \in CallbackContexts /\ op \in StatsOps) => "callback_stats" \in Uses
  /\ owner' = [owner EXCEPT ![op] = c]
  /\ \/ /\ queued' = queued \cup {op}
        /\ m_remaining' = [m_remaining EXCEPT ![c] = @ + 1]
     \/ UNCHANGED <<queued, m_remaining>>
  /\ UNCHANGED <<phase, remaining, pending, stop, call, cur, life, entered,
                 unwaited, rc, m_done>>

(* Mutant: the client is not told of the batch. *)
SubmitUncounted(c) ==
  /\ AppRuns
  /\ entered[c]
  /\ entered' = [entered EXCEPT ![c] = FALSE]
  /\ pending' = pending \cup queued
  /\ queued' = {}
  /\ unwaited' = unwaited \cup {c}
  /\ UNCHANGED <<phase, remaining, stop, call, cur, life, m_remaining, opvars>>

(* Context::submit counts the batch on the client and leaves the            *)
(* scheduling context, which hands its operations to the network.           *)
Submit(c) ==
  /\ AppRuns
  /\ entered[c]
  /\ entered' = [entered EXCEPT ![c] = FALSE]
  /\ remaining' = SizeAdd(remaining, m_remaining[c])
  /\ pending' = pending \cup queued
  /\ queued' = {}
  /\ unwaited' = unwaited \cup {c}
  /\ UNCHANGED <<phase, stop, call, cur, life, m_remaining, opvars>>

(* Context::bail drops what the scheduling context holds. *)
Bail(c) ==
  /\ AppRuns
  /\ c \notin CallbackContexts
  /\ entered[c]
  /\ entered' = [entered EXCEPT ![c] = FALSE]
  /\ queued' = {}
  /\ UNCHANGED <<phase, remaining, pending, stop, call, cur, life,
                 m_remaining, unwaited, opvars>>

(* Context(Context&&) and operator=(Context&&), with the list of responses  *)
(* that a BatchCommand moves along: its nodes stay where they are, so that  *)
(* the cookies do, and what the target held before is destroyed.  The       *)
(* cookie of a CallbackCommand is the object itself: it is moved, if at     *)
(* all, before anything is added, and cannot be assigned.  Assigning to an  *)
(* active batch would forget that it is; the application does not.          *)
MoveContext(d, c) ==
  /\ AppRuns
  /\ c # d /\ life[c] = "live"
  /\ \/ life[d] = "unborn" /\ (c \in CallbackContexts <=> d \in CallbackContexts)
     \/ /\ life[d] = "live" /\ ~entered[d] /\ d \notin unwaited
        /\ {c, d} \cap CallbackContexts = {}
  /\ c \in CallbackContexts => \A op \in Ops : owner[op] # c
  /\ life' = [life EXCEPT ![d] = "live"]
  /\ entered' = [entered EXCEPT ![d] = entered[c], ![c] = FALSE]
  /\ m_remaining' = [m_remaining EXCEPT ![d] = m_remaining[c], ![c] = 0]
  /\ unwaited' = IF c \in unwaited THEN (unwaited \ {c}) \cup {d} ELSE unwaited
  /\ owner' = [op \in Ops |-> IF owner[op] = c THEN d
                              ELSE IF owner[op] = d THEN "gone" ELSE owner[op]]
  /\ UNCHANGED <<phase, remaining, call, cur, libvars, rc, m_done>>

(* Mutant: the destructor does not bail out. *)
DestroyWithoutBail(c) ==
  /\ Idle
  /\ life[c] = "live"
  /\ c \notin unwaited
  /\ life' = [life EXCEPT ![c] = "dead"]
  /\ entered' = [entered EXCEPT ![c] = FALSE]
  /\ UNCHANGED <<phase, remaining, pending, queued, stop, call, cur,
                 m_remaining, unwaited, opvars>>

(* Context::~Context bails out of an active batch; the BatchCommand's       *)
(* responses, or the CallbackCommand, go with it.  The application keeps    *)
(* the object until a wait() has returned since it last submitted it.       *)
DestroyContext(c) ==
  /\ Idle
  /\ life[c] = "live"
  /\ c \notin unwaited
  /\ life' = [life EXCEPT ![c] = "dead"]
  /\ entered' = [entered EXCEPT ![c] = FALSE]
  /\ queued' = IF entered[c] THEN {} ELSE queued
  /\ UNCHANGED <<phase, remaining, pending, stop, call, cur, m_remaining,
                 unwaited, opvars>>

-----------------------------------------------------------------------------
(* The calls that block. *)

(* Client::wait, called by the application ("wait") or by the rp_wait() of  *)
(* a query: lcb_wait3 with LCB_WAIT_NOCHECK.                                *)
Wait(caller) ==
  /\ Idle
  /\ call' = caller
  /\ stop' = FALSE
  /\ UNCHANGED <<phase, remaining, cur, queued, pending, ctxvars, opvars>>

(* Client::run and the calls made of it.  Scheduling fails, and run()       *)
(* returns with the response untouched; or the operation is sent and run()  *)
(* waits.  Client::remaining is not incremented.                            *)
Run(op) ==
  /\ "run" \in Uses
  /\ Idle /\ NoneActive
  /\ owner[op] = "unused"
  /\ owner' = [owner EXCEPT ![op] = "run"]
  /\ \/ /\ queued' = {}
        /\ UNCHANGED <<pending, stop, call>>
     \/ /\ pending' = pending \cup queued \cup {op}
        /\ queued' = {}
        /\ stop' = FALSE
        /\ call' = op
  /\ UNCHANGED <<phase, remaining, cur, ctxvars, rc, m_done>>

(* Mutant: EndureContext::submit does not count what it sent. *)
EndureUncounted(op) ==
  /\ "endure" \in Uses
  /\ Idle /\ NoneActive
  /\ op \notin StatsOps
  /\ owner[op] = "unused"
  /\ owner' = [owner EXCEPT ![op] = "endure"]
  /\ pending' = pending \cup queued \cup {op}
  /\ queued' = {}
  /\ stop' = FALSE
  /\ call' = op
  /\ UNCHANGED <<phase, remaining, cur, ctxvars, rc, m_done>>

(* Client::endure, through EndureContext.  The options ask for nothing, or  *)
(* the context, add() or submit() fails, and the status is set on the       *)
(* response; or the operation is sent, counted and waited for.              *)
Endure(op) ==
  /\ "endure" \in Uses
  /\ Idle /\ NoneActive
  /\ op \notin StatsOps
  /\ owner[op] = "unused"
  /\ owner' = [owner EXCEPT ![op] = "endure"]
  /\ \/ /\ rc' = [rc EXCEPT ![op] = "error"]
        /\ UNCHANGED <<remaining, pending, queued, stop, call>>
     \/ /\ pending' = pending \cup queued \cup {op}
        /\ queued' = {}
        /\ remaining' = SizeAdd(remaining, 1)
        /\ stop' = FALSE
        /\ call' = op
        /\ UNCHANGED rc
  /\ UNCHANGED <<phase, cur, ctxvars, m_done>>

(* lcb_wait3 returns once the loop was stopped, by lcb_breakout or, with    *)
(* nothing left to answer, by the library itself.                           *)
Return(nothingLeft) ==
  /\ call # "none" /\ cur = "none"
  /\ stop \/ nothingLeft
  /\ call' = "none"
  /\ stop' = FALSE
  /\ unwaited' = IF call = "wait" THEN {} ELSE unwaited
  /\ UNCHANGED <<phase, remaining, cur, queued, pending, life, entered,
                 m_remaining, opvars>>

(* Mutant: breakout(true). *)
BreakoutForced ==
  /\ call # "none" /\ cur = "none"
  /\ stop' = TRUE
  /\ UNCHANGED <<phase, remaining, call, cur, queued, pending, ctxvars, opvars>>

(* Client::breakout, called by the row or the done callback of a query. *)
Breakout ==
  /\ call # "none" /\ cur = "none"
  /\ stop' = (stop \/ remaining = 0)
  /\ UNCHANGED <<phase, remaining, call, cur, queued, pending, ctxvars, opvars>>

-----------------------------------------------------------------------------
(* Responses. *)

(* The library delivers a response in the running loop: cbwrap finds the    *)
(* client and _dispatch the handler.  A stopped loop may still deliver what *)
(* has arrived in the same turn.  What a call through the cookie of a       *)
(* destroyed handler does is undefined: behaviours end before it.           *)
Deliver(op) ==
  /\ call # "none" /\ cur = "none"
  /\ op \in pending
  /\ HandlerLives(op)
  /\ cur' = op
  /\ UNCHANGED <<phase, remaining, call, queued, stop, ctxvars, owner>>

(* Response::handle_response and EndureResponse::handle_response copy the   *)
(* one response there is.                                                   *)
HandleSingle(op) ==
  /\ op \notin StatsOps
  /\ Deliver(op)
  /\ pending' = pending \ {op}
  /\ \E code \in {"ok", "error"} : rc' = [rc EXCEPT ![op] = code]
  /\ UNCHANGED m_done

(* StatsResponse::handle_response.  Nothing sets `initialized', so every    *)
(* response overwrites the status; a failed one returns before the test for *)
(* the final one.                                                           *)
HandleStats(op) ==
  /\ op \in StatsOps
  /\ Deliver(op)
  /\ \E code \in {"ok", "error"}, final \in BOOLEAN :
       /\ pending' = IF final THEN pending \ {op} ELSE pending
       /\ rc' = [rc EXCEPT ![op] = code]
       /\ m_done' = [m_done EXCEPT ![op] = @ \/ (code = "ok" /\ final)]

(* Mutant: StatsResponse inherits done() from Response. *)
DoneAlways(op) == TRUE

(* Handler::done of the cookie.  CallbackCommand's is always true. *)
Done(op) ==
  \/ op \notin StatsOps
  \/ owner[op] \in CallbackContexts
  \/ m_done[op]

(* Mutant: breakout(true). *)
FinishDispatchForced ==
  /\ cur # "none"
  /\ cur' = "none"
  /\ remaining' = IF Done(cur) THEN SizeDec(remaining) ELSE remaining
  /\ stop' = TRUE
  /\ UNCHANGED <<phase, call, queued, pending, ctxvars, opvars>>

(* The second half of _dispatch: count the operation off and break out of   *)
(* the loop when the count is zero.                                         *)
FinishDispatch ==
  /\ cur # "none"
  /\ cur' = "none"
  /\ IF Done(cur)
     THEN /\ remaining' = SizeDec(remaining)
          /\ stop' = (stop \/ remaining' = 0)
     ELSE UNCHANGED <<remaining, stop>>
  /\ UNCHANGED <<phase, call, queued, pending, ctxvars, opvars>>

Terminated == phase = "destroyed" /\ UNCHANGED vars

-----------------------------------------------------------------------------

(* All that the application and the library do but for the queries. *)
Calls ==
  \/ Connect
  \/ DestroyClient
  \/ \E c \in Contexts :
       NewContext(c) \/ Reset(c) \/ Submit(c) \/ Bail(c) \/ DestroyContext(c)
  \/ \E c, d \in Contexts : MoveContext(d, c)
  \/ \E c \in Contexts, op \in Ops : Add(c, op)
  \/ Wait("wait")
  \/ \E op \in Ops : Run(op) \/ Endure(op)
  \/ \E op \in Ops : HandleSingle(op) \/ HandleStats(op)
  \/ FinishDispatch

Next ==
  \/ Calls
  \/ Return(pending = {})
  \/ \E q \in Queries : Wait(q) \/ Breakout
  \/ Terminated

Spec == Init /\ [][Next]_vars

-----------------------------------------------------------------------------
(* Properties. *)

TypeOK ==
  /\ phase \in {"created", "connected", "failed", "destroyed"}
  /\ remaining \in 0 .. Word - 1
  /\ queued \in SUBSET Ops
  /\ pending \in SUBSET Ops
  /\ stop \in BOOLEAN
  /\ call \in Ops \cup Queries \cup {"none", "wait"}
  /\ cur \in Ops \cup {"none"}
  /\ life \in [Contexts -> {"unborn", "live", "dead"}]
  /\ entered \in [Contexts -> BOOLEAN]
  /\ m_remaining \in [Contexts -> Nat]
  /\ unwaited \in SUBSET Contexts
  /\ owner \in [Ops -> Contexts \cup {"unused", "run", "endure", "gone"}]
  /\ rc \in [Ops -> {"unset", "ok", "error"}]
  /\ m_done \in [Ops -> BOOLEAN]

(* Sent, and not yet counted off by _dispatch. *)
Outstanding == pending \cup ({cur} \cap Ops)

(* Answered for good, as _dispatch saw it, without done() ever being true:  *)
(* stats whose final response was an error.                                 *)
LostStats ==
  {op \in StatsOps : rc[op] # "unset" /\ ~m_done[op]} \ Outstanding

(* The operations that were added to `remaining' and not taken off ...      *)
Credited == {op \in Outstanding \cup LostStats : owner[op] # "run"}

(* ... and those that were taken off without having been added.             *)
Overdrawn ==
  {op \in Ops \ (Outstanding \cup LostStats) :
     owner[op] = "run" /\ rc[op] # "unset"}

(* up - down, as a size_t. *)
Balance(up, down) == IF down <= up THEN up - down ELSE (up + Word) - down

(* Statistics were not given to a CallbackCommand, which is done() at each  *)
(* of the responses.                                                        *)
NoCallbackStats == \A op \in StatsOps : owner[op] \notin CallbackContexts

(* Client::remaining is the number of counted operations outstanding, short *)
(* by one for every synchronous call answered so far, modulo Word, as long  *)
(* as each operation is counted off once.                                   *)
RemainingDrift ==
  NoCallbackStats =>
    remaining = Balance(Cardinality(Credited), Cardinality(Overdrawn))

(* With no synchronous calls, Client::remaining is the number of counted    *)
(* operations outstanding: _dispatch breaks out of the loop at the last one *)
(* and at no other.                                                         *)
RemainingExact == remaining = Cardinality(Credited)

(* The active batch has counted exactly the operations that submit() will   *)
(* send and bail() will drop, whatever was added, refused, submitted, bailed*)
(* out of and reset before, by it or by a callback.                         *)
BatchCounts ==
  /\ \A c \in Contexts : entered[c] => m_remaining[c] = Cardinality(queued)
  /\ \A op \in queued : owner[op] \in Contexts /\ entered[owner[op]]

(* No operation the library still holds has a cookie that points to a       *)
(* destroyed handler, so _dispatch never calls through one.                 *)
NoDanglingCookie == \A op \in queued \cup pending : HandlerLives(op)

(* wait(), and every call that waits, returns only when all operations sent *)
(* are answered: "Wait for all scheduled operations to complete."           *)
WaitCompletes == [][(call # "none" /\ call' = "none") => pending = {}]_vars

(* Nothing was sent yet by a call of run(), or was statistics with a        *)
(* callback.                                                                *)
AllCounted ==
  /\ NoCallbackStats
  /\ \A op \in Ops : owner[op] = "run" => rc[op] = "unset" /\ op \notin Outstanding

(* Up to the first synchronous call that sends something every wait is      *)
(* complete, whatever is refused, and however the waits of batches, endure  *)
(* and queries mix.                                                         *)
CountedWaitsComplete ==
  [][(AllCounted /\ call # "none" /\ call' = "none") => pending = {}]_vars

(* A synchronous call that sent its operation returns with its final        *)
(* response, not before it.                                                 *)
SyncAnswered == [][(call \in Ops /\ call' = "none") => call \notin pending]_vars

(* No batch was ever made, and there are no queries: the application makes  *)
(* synchronous calls only.                                                  *)
CallsAlone == Queries = {} /\ \A c \in Contexts : life[c] = "unborn"

(* ... and until the first batch this holds of every such call, get() and   *)
(* stats() too, although `remaining' is off, and wrapped, by then.          *)
LoneCallsAnswered ==
  [][(CallsAlone /\ call \in Ops /\ call' = "none") => call \notin pending]_vars

(* "Get status; @return the status of the operation": when a synchronous    *)
(* call has returned, the status of its response was written by someone.    *)
SyncStatusSet ==
  \A op \in Ops : owner[op] \in {"run", "endure"} /\ call # op => rc[op] # "unset"

(* "Indicate whether this is the final command for the request; @return     *)
(* true if done": _dispatch counts an operation off at its final response.  *)
DoneIffFinal == cur # "none" => (Done(cur) <=> cur \notin pending)

(* The promise of Completion, under the mapping that takes what the library *)
(* holds for outstanding.                                                   *)
Promise == INSTANCE Completion WITH
  outstanding <- pending,
  answered    <- {op \in Ops : rc[op] # "unset"} \ pending,
  waiting     <- call # "none"

KeepsPromise == Promise!Spec

=============================================================================
