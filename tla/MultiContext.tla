---------------------------- MODULE MultiContext ----------------------------
(***************************************************************************)
(* Operations of several commands or several responses with one handler:   *)
(* MultiContextT (mctx.inl.h) with the EndureContext (endure.h) and the    *)
(* observe contexts made of it, and statistics sent with schedule().  They *)
(* share `remaining' and the event loop, and only EndureContext counts.    *)
(*                                                                         *)
(* What the library answers is a set of responses: an endure command c has *)
(* the one response c; an observe context i has <<c, s>> from each server s*)
(* for each of its commands c, and then i; a statistics operation x has    *)
(* <<x, s>> from each server, and then x.  The handler of a context is a   *)
(* response object named after it.                                         *)
(***************************************************************************)
EXTENDS Naturals, FiniteSets

CONSTANTS
  EndureObjs,     (* EndureContext objects, each with a MultiContextT       *)
  ObserveObjs,    (* MultiContextT objects for observe                      *)
  EndureInners,   (* the C library's lcb_MULTICMD_CTX, by kind              *)
  ObserveInners,
  Cmds,           (* EndureCommand and ObserveCommand objects               *)
  StatsOps,
  Servers,
  Errors,         (* status codes but LCB_SUCCESS                           *)
  Word            (* size_t counts modulo Word                              *)

Objects == EndureObjs \cup ObserveObjs
Inners  == EndureInners \cup ObserveInners
Counted == Cmds
Uncounted == ((Cmds \cup StatsOps) \X Servers) \cup ObserveInners \cup StatsOps

ASSUME MultiAssumption ==
  /\ EndureObjs \cap ObserveObjs = {} /\ EndureInners \cap ObserveInners = {}
  /\ Cmds \cap Uncounted = {} /\ Cmds \cap StatsOps = {} /\ ObserveInners \cap StatsOps = {}
  /\ (ObserveInners \cup StatsOps) \cap ((Cmds \cup StatsOps) \X Servers) = {}
  /\ IsFiniteSet(Cmds) /\ IsFiniteSet(Uncounted)
  /\ "none" \notin Inners /\ "ok" \notin Errors /\ "unset" \notin Errors
  /\ Word \in Nat /\ Cardinality(Cmds) + Cardinality(Uncounted) < Word

VARIABLES
  olife,        (* objects: "unborn", "live", "dead"                        *)
  m_inner,      (* MultiContextT::m_inner, or "none" for NULL               *)
  m_remaining,  (* EndureContext::m_remaining                               *)
  ilife,        (* inner contexts: "unused", "open", "sent", "dropped"      *)
  cmds,         (* the commands added to each                               *)
  due,          (* the responses the library will deliver                   *)
  overdrawn,    (* those delivered, done() and never counted                *)
  remaining,    (* Client::remaining                                        *)
  loop,         (* whether the application is in wait()                     *)
  stop,         (* whether lcb_breakout was called in this loop             *)
  status,       (* of the response of an observe context or statistics      *)
  sinfo,        (* ObserveResponse::sinfo: the replies it keeps             *)
  stats         (* StatsResponse::stats: the servers it has entries of      *)

objvars  == <<olife, m_inner, m_remaining>>
libvars  == <<ilife, cmds, due>>
loopvars == <<overdrawn, remaining, loop, stop>>
respvars == <<status, sinfo, stats>>
vars     == <<objvars, libvars, loopvars, respvars>>

Init ==
  /\ olife = [o \in Objects |-> "unborn"]
  /\ m_inner = [o \in Objects |-> "none"]
  /\ m_remaining = [o \in Objects |-> 0]
  /\ ilife = [i \in Inners |-> "unused"]
  /\ cmds = [i \in Inners |-> {}]
  /\ due = {}
  /\ overdrawn = {}
  /\ remaining = 0
  /\ loop = FALSE
  /\ stop = FALSE
  /\ status = [r \in ObserveInners \cup StatsOps |-> "unset"]
  /\ sinfo = [i \in ObserveInners |-> {}]
  /\ stats = [x \in StatsOps |-> {}]

-----------------------------------------------------------------------------
(* The contexts. *)

(* EndureContext's constructor: mctx_endure, which assigns a temporary      *)
(* MultiContextT to m_ctx, or leaves it alone if the library has refused.   *)
NewEndureContext(o, i) ==
  /\ ~loop
  /\ o \in EndureObjs /\ olife[o] = "unborn"
  /\ i \in EndureInners /\ ilife[i] = "unused"
  /\ olife' = [olife EXCEPT ![o] = "live"]
  /\ \/ /\ m_inner' = [m_inner EXCEPT ![o] = i]
        /\ ilife' = [ilife EXCEPT ![i] = "open"]
     \/ UNCHANGED <<m_inner, ilife>>
  /\ UNCHANGED <<m_remaining, cmds, due, loopvars, respvars>>

NewMultiContext(o) ==
  /\ ~loop
  /\ o \in ObserveObjs /\ olife[o] = "unborn"
  /\ olife' = [olife EXCEPT ![o] = "live"]
  /\ UNCHANGED <<m_inner, m_remaining, libvars, loopvars, respvars>>

(* Client::mctx_observe.  The assignment asserts that the object has none.  *)
MctxObserve(o, i) ==
  /\ ~loop
  /\ o \in ObserveObjs /\ olife[o] = "live" /\ m_inner[o] = "none"
  /\ i \in ObserveInners /\ ilife[i] = "unused"
  /\ m_inner' = [m_inner EXCEPT ![o] = i]
  /\ ilife' = [ilife EXCEPT ![i] = "open"]
  /\ UNCHANGED <<olife, m_remaining, cmds, due, loopvars, respvars>>

(* Mutant: the source of a move keeps what it gave away. *)
MoveAssignKeeps(o, other) ==
  /\ ~loop
  /\ o \in ObserveObjs /\ olife[o] = "live" /\ m_inner[o] = "none"
  /\ other \in ObserveObjs /\ olife[other] = "live"
  /\ m_inner' = [m_inner EXCEPT ![o] = m_inner[other]]
  /\ UNCHANGED <<olife, m_remaining, libvars, loopvars, respvars>>

MoveAssign(o, other) ==
  /\ ~loop
  /\ o \in ObserveObjs /\ olife[o] = "live" /\ m_inner[o] = "none"
  /\ other \in ObserveObjs /\ olife[other] = "live"
  /\ m_inner' = [m_inner EXCEPT ![o] = m_inner[other], ![other] = "none"]
  /\ UNCHANGED <<olife, m_remaining, libvars, loopvars, respvars>>

Unadded == Cmds \ UNION {cmds[i] : i \in Inners}

(* Mutant: EndureContext::add counts a command that was refused. *)
AddCountsRefused(o, c) ==
  /\ ~loop
  /\ olife[o] = "live" /\ m_inner[o] # "none"
  /\ c \in Unadded
  /\ \/ cmds' = [cmds EXCEPT ![m_inner[o]] = @ \cup {c}]
     \/ UNCHANGED cmds
  /\ m_remaining' = IF o \in EndureObjs THEN [m_remaining EXCEPT ![o] = @ + 1] ELSE m_remaining
  /\ UNCHANGED <<olife, m_inner, ilife, due, loopvars, respvars>>

(* MultiContextT::add and EndureContext::add, which counts what was taken.  *)
Add(o, c) ==
  /\ ~loop
  /\ olife[o] = "live" /\ m_inner[o] # "none"
  /\ c \in Unadded
  /\ \/ /\ cmds' = [cmds EXCEPT ![m_inner[o]] = @ \cup {c}]
        /\ m_remaining' = IF o \in EndureObjs THEN [m_remaining EXCEPT ![o] = @ + 1]
                                              ELSE m_remaining
     \/ UNCHANGED <<cmds, m_remaining>>
  /\ UNCHANGED <<olife, m_inner, ilife, due, loopvars, respvars>>

Responses(i) ==
  IF i \in EndureInners THEN cmds[i] ELSE (cmds[i] \X Servers) \cup {i}

(* Mutant: EndureContext::submit does not count. *)
DoneUncounted(o) ==
  /\ ~loop
  /\ olife[o] = "live" /\ m_inner[o] # "none" /\ cmds[m_inner[o]] # {}
  /\ \/ /\ ilife' = [ilife EXCEPT ![m_inner[o]] = "sent"]
        /\ due' = due \cup Responses(m_inner[o])
     \/ /\ ilife' = [ilife EXCEPT ![m_inner[o]] = "dropped"]
        /\ UNCHANGED due
  /\ m_inner' = [m_inner EXCEPT ![o] = "none"]
  /\ UNCHANGED <<olife, m_remaining, cmds, loopvars, respvars>>

(* MultiContextT::done and EndureContext::submit, which then adds what it   *)
(* counted; it has counted nothing for an observe context.  The library     *)
(* takes the context back whether it sends the commands or refuses.  The    *)
(* application has added something before.                                  *)
DoneContext(o) ==
  /\ ~loop
  /\ olife[o] = "live" /\ m_inner[o] # "none" /\ cmds[m_inner[o]] # {}
  /\ \/ /\ ilife' = [ilife EXCEPT ![m_inner[o]] = "sent"]
        /\ due' = due \cup Responses(m_inner[o])
        /\ remaining' = (remaining + m_remaining[o]) % Word
     \/ /\ ilife' = [ilife EXCEPT ![m_inner[o]] = "dropped"]
        /\ UNCHANGED <<due, remaining>>
  /\ m_inner' = [m_inner EXCEPT ![o] = "none"]
  /\ UNCHANGED <<olife, m_remaining, cmds, overdrawn, loop, stop, respvars>>

(* MultiContextT::bail releases the context that is left, if any. *)
BailInner(o) ==
  /\ m_inner' = [m_inner EXCEPT ![o] = "none"]
  /\ ilife' = [i \in Inners |-> IF i = m_inner[o] THEN "dropped" ELSE ilife[i]]

BailContext(o) ==
  /\ ~loop
  /\ olife[o] = "live"
  /\ BailInner(o)
  /\ m_remaining' = [m_remaining EXCEPT ![o] = 0]
  /\ UNCHANGED <<olife, cmds, due, loopvars, respvars>>

DestroyContext(o) ==
  /\ ~loop
  /\ olife[o] = "live"
  /\ BailInner(o)
  /\ olife' = [olife EXCEPT ![o] = "dead"]
  /\ UNCHANGED <<m_remaining, cmds, due, loopvars, respvars>>

(* Client::schedule of a StatsCommand, between enter() and leave(): it may  *)
(* be refused.  Nothing counts it.                                          *)
ScheduleStats(x) ==
  /\ ~loop
  /\ status[x] = "unset" /\ x \notin due
  /\ due' = due \cup ({x} \X Servers) \cup {x}
  /\ UNCHANGED <<objvars, ilife, cmds, loopvars, respvars>>

-----------------------------------------------------------------------------
(* The event loop. *)

Wait ==
  /\ ~loop
  /\ loop' = TRUE
  /\ stop' = FALSE
  /\ UNCHANGED <<overdrawn, remaining, objvars, libvars, respvars>>

(* It ends when it was broken out of or nothing is due any more. *)
Return ==
  /\ loop
  /\ stop \/ due = {}
  /\ loop' = FALSE
  /\ UNCHANGED <<stop, overdrawn, remaining, objvars, libvars, respvars>>

(* Mutant: _dispatch breaks out of the loop after every operation. *)
CountOffForced ==
  /\ remaining' = IF remaining = 0 THEN Word - 1 ELSE remaining - 1
  /\ stop' = TRUE

(* _dispatch, when the handler is done(): remaining-- and breakout(). *)
CountOff ==
  /\ remaining' = IF remaining = 0 THEN Word - 1 ELSE remaining - 1
  /\ stop' = (stop \/ remaining' = 0)

(* The response of an endure command: done() is always true. *)
EndureResponse(c) ==
  /\ loop
  /\ c \in due \cap Cmds
  /\ due' = due \ {c}
  /\ CountOff
  /\ UNCHANGED <<overdrawn, loop, objvars, ilife, cmds, respvars>>

(* Mutant: each reply replaces the status. *)
ObserveReplyOverwrites(i, c, s, r) ==
  /\ loop
  /\ c \in cmds[i] /\ <<c, s>> \in due
  /\ due' = due \ {<<c, s>>}
  /\ status' = [status EXCEPT ![i] = r]
  /\ sinfo' = IF r = "ok" THEN [sinfo EXCEPT ![i] = @ \cup {<<c, s>>}] ELSE sinfo
  /\ overdrawn' = overdrawn \cup {<<c, s>>}
  /\ CountOff
  /\ UNCHANGED <<loop, objvars, ilife, cmds, stats>>

(* Mutant: only the last of the replies that succeed is kept. *)
ObserveReplyKeepsLast(i, c, s, r) ==
  /\ loop
  /\ c \in cmds[i] /\ <<c, s>> \in due
  /\ due' = due \ {<<c, s>>}
  /\ status' = IF status[i] \in {"unset", "ok"} THEN [status EXCEPT ![i] = r] ELSE status
  /\ sinfo' = IF r = "ok" THEN [sinfo EXCEPT ![i] = {<<c, s>>}] ELSE sinfo
  /\ overdrawn' = overdrawn \cup {<<c, s>>}
  /\ CountOff
  /\ UNCHANGED <<loop, objvars, ilife, cmds, stats>>

(* ObserveResponse::handle_response keeps the first status that is not a    *)
(* success, and the replies that are; done() is true of every one.          *)
ObserveReply(i, c, s, r) ==
  /\ loop
  /\ c \in cmds[i] /\ <<c, s>> \in due
  /\ due' = due \ {<<c, s>>}
  /\ status' = IF status[i] \in {"unset", "ok"} THEN [status EXCEPT ![i] = r] ELSE status
  /\ sinfo' = IF r = "ok" THEN [sinfo EXCEPT ![i] = @ \cup {<<c, s>>}] ELSE sinfo
  /\ overdrawn' = overdrawn \cup {<<c, s>>}
  /\ CountOff
  /\ UNCHANGED <<loop, objvars, ilife, cmds, stats>>

ObserveFinal(i) ==
  /\ loop
  /\ i \in due /\ (cmds[i] \X Servers) \cap due = {}
  /\ due' = due \ {i}
  /\ overdrawn' = overdrawn \cup {i}
  /\ CountOff
  /\ UNCHANGED <<loop, objvars, ilife, cmds, respvars>>

(* StatsResponse::handle_response: `initialized' is never set, so that each *)
(* response replaces the status; done() is true of a final success only.    *)
StatsEntry(x, s, r) ==
  /\ loop
  /\ <<x, s>> \in due
  /\ due' = due \ {<<x, s>>}
  /\ status' = [status EXCEPT ![x] = r]
  /\ stats' = IF r = "ok" THEN [stats EXCEPT ![x] = @ \cup {s}] ELSE stats
  /\ UNCHANGED <<sinfo, loopvars, objvars, ilife, cmds>>

StatsFinal(x, r) ==
  /\ loop
  /\ x \in due /\ ({x} \X Servers) \cap due = {}
  /\ due' = due \ {x}
  /\ status' = [status EXCEPT ![x] = r]
  /\ IF r = "ok" THEN overdrawn' = overdrawn \cup {x} /\ CountOff
                 ELSE UNCHANGED <<overdrawn, remaining, stop>>
  /\ UNCHANGED <<loop, sinfo, stats, objvars, ilife, cmds>>

Codes == Errors \cup {"ok"}

Deliver ==
  \/ \E c \in Cmds : EndureResponse(c)
  \/ \E i \in ObserveInners, c \in Cmds, s \in Servers, r \in Codes : ObserveReply(i, c, s, r)
  \/ \E i \in ObserveInners : ObserveFinal(i)
  \/ \E x \in StatsOps, s \in Servers, r \in Codes : StatsEntry(x, s, r)
  \/ \E x \in StatsOps, r \in Codes : StatsFinal(x, r)

Calls ==
  \/ \E o \in EndureObjs, i \in EndureInners : NewEndureContext(o, i)
  \/ \E o \in ObserveObjs : NewMultiContext(o)
  \/ \E o \in ObserveObjs, i \in ObserveInners : MctxObserve(o, i)
  \/ \E o, other \in ObserveObjs : MoveAssign(o, other)
  \/ \E o \in Objects, c \in Cmds : Add(o, c)
  \/ \E o \in Objects : DoneContext(o) \/ BailContext(o) \/ DestroyContext(o)
  \/ \E x \in StatsOps : ScheduleStats(x)
  \/ Wait

Next == Calls \/ Deliver \/ Return

Spec == Init /\ [][Next]_vars

-----------------------------------------------------------------------------
(* Properties. *)

TypeOK ==
  /\ olife \in [Objects -> {"unborn", "live", "dead"}]
  /\ m_inner \in [Objects -> Inners \cup {"none"}]
  /\ m_remaining \in [Objects -> Nat]
  /\ ilife \in [Inners -> {"unused", "open", "sent", "dropped"}]
  /\ cmds \in [Inners -> SUBSET Cmds]
  /\ due \in SUBSET (Counted \cup Uncounted)
  /\ overdrawn \in SUBSET Uncounted
  /\ remaining \in 0 .. Word - 1
  /\ loop \in BOOLEAN
  /\ stop \in BOOLEAN
  /\ status \in [ObserveInners \cup StatsOps -> Codes \cup {"unset"}]
  /\ sinfo \in [ObserveInners -> SUBSET (Cmds \X Servers)]
  /\ stats \in [StatsOps -> SUBSET Servers]

(* A context of the library is held by one object as long as it is open and *)
(* by none afterwards: done(), bail(), the move and the destructor release  *)
(* it once, in whatever order they come, and none is lost.                  *)
OwnedOnce ==
  /\ \A o \in Objects : m_inner[o] # "none" => olife[o] = "live" /\ ilife[m_inner[o]] = "open"
  /\ \A o, p \in Objects : m_inner[o] = m_inner[p] /\ m_inner[o] # "none" => o = p
  /\ \A i \in Inners : ilife[i] = "open" => \E o \in Objects : m_inner[o] = i

(* EndureContext::submit adds to `remaining' what the library will answer,  *)
(* whatever was refused before; an observe context has counted nothing.     *)
EndureCounts ==
  \A o \in Objects :
    m_inner[o] # "none"
      => m_remaining[o] = IF o \in EndureObjs THEN Cardinality(cmds[m_inner[o]]) ELSE 0

(* up - down, as a size_t. *)
Balance(up, down) == IF down <= up THEN up - down ELSE (up + Word) - down

(* Client::remaining is the number of endure commands outstanding, short by *)
(* one for each response of an observe context, and for each statistics     *)
(* operation that succeeded, modulo Word.                                   *)
CountsBalanced ==
  remaining = Balance(Cardinality(due \cap Counted), Cardinality(overdrawn))

(* "Wait for all scheduled operations to complete": it does for what        *)
(* EndureContext counts, as long as nothing else was answered, and for      *)
(* observe and statistics, as long as nothing was ever counted.             *)
WaitCompletes ==
  [][loop /\ ~loop' =>
       /\ overdrawn = {} => due \cap Counted = {}
       /\ (\A i \in EndureInners : ilife[i] # "sent") => due = {}]_vars

(* The status of an observe is that of its first reply that failed, and it  *)
(* is a success only if every reply so far is among all_replies().          *)
Received(i) == {t \in cmds[i] \X Servers : ilife[i] = "sent" /\ t \notin due}

SuccessIsComplete ==
  \A i \in ObserveInners : status[i] = "ok" => sinfo[i] = Received(i)

FirstErrorKept ==
  [][\A i \in ObserveInners : status[i] \in Errors => status'[i] = status[i]]_vars

(* "Get status; @return the status of the operation": statistics that       *)
(* report a success have the entries of every server.                       *)
StatsSuccessIsComplete ==
  \A x \in StatsOps :
    status[x] = "ok" /\ x \notin due => stats[x] = {s \in Servers : <<x, s>> \notin due}

(* done(), bail(), the destructor and the move hand a context of the        *)
(* library on or give it back, in the step in which its object lets go.     *)
Holding(i) == {o \in Objects : olife[o] = "live" /\ m_inner[o] = i}

Handing == INSTANCE Custody WITH
  Resources <- Inners, users <- [i \in Inners |-> Holding(i)],
  released <- {i \in Inners : ilife[i] \in {"sent", "dropped"}}

ContextsHandedOn == Handing!Spec

(* As long as no response that nobody counted was counted off, endure       *)
(* contexts keep the promise of Completion: what submit() sent is answered  *)
(* in a wait, once, and the wait goes on until all of it is.                *)
Sent(c) == \E i \in EndureInners : ilife[i] = "sent" /\ c \in cmds[i]

Endured == INSTANCE Completion WITH
  Ops <- Cmds, outstanding <- due \cap Counted, waiting <- loop,
  answered <- {c \in Cmds \ due : Sent(c)}

EnduresComplete ==
  [][overdrawn' = {} => Endured!Next \/ UNCHANGED Endured!vars]_vars

=============================================================================
