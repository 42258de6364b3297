------------------------- MODULE MultiContextProofs -------------------------
(***************************************************************************)
(* Proofs about MultiContext, for any number of objects, contexts,         *)
(* commands and servers.  OwnInv: who holds which context, and what it has *)
(* counted.  AnswerInv: every response due or delivered belongs to         *)
(* something that was sent, so that none is counted off twice.  On these   *)
(* rest the balance of `remaining' and the waits.                          *)
(***************************************************************************)
EXTENDS MultiContext, FiniteSetTheorems, TLAPS

KindsMatch ==
  \A o \in Objects : m_inner[o] \in (IF o \in EndureObjs THEN EndureInners ELSE ObserveInners) \cup {"none"}

NothingYet ==
  /\ \A o \in Objects : olife[o] = "unborn" \/ o \in ObserveObjs => m_remaining[o] = 0
  /\ \A i \in Inners : ilife[i] = "unused" => cmds[i] = {}

OwnInv == TypeOK /\ OwnedOnce /\ KindsMatch /\ NothingYet

AnswerInv ==
  /\ due \cap overdrawn = {}
  /\ \A i, j \in Inners : i # j => cmds[i] \cap cmds[j] = {}
  /\ \A c \in Cmds : c \in due => \E i \in EndureInners : c \in cmds[i] /\ ilife[i] = "sent"
  /\ \A c \in Cmds, s \in Servers : <<c, s>> \in due \cup overdrawn
       => \E i \in ObserveInners : c \in cmds[i] /\ ilife[i] = "sent"
  /\ \A i \in ObserveInners : i \in due \cup overdrawn => ilife[i] = "sent"
  /\ \A x \in StatsOps : x \in overdrawn => status[x] # "unset"
  /\ overdrawn \cap (StatsOps \X Servers) = {}

LEMMA Sizes ==
  /\ Cardinality(Cmds) \in Nat /\ Cardinality(Uncounted) \in Nat
  /\ Word \in Nat \ {0}
BY FS_CardinalityType, MultiAssumption

LEMMA OwnInit == Init => OwnInv
<1> SUFFICES ASSUME Init PROVE OwnInv
  OBVIOUS
<1>0. 0 \in 0 .. Word - 1
  BY Sizes
<1>1. TypeOK
  BY <1>0 DEF Init, TypeOK
<1>2. OwnedOnce /\ KindsMatch
  BY MultiAssumption DEF Init, OwnedOnce, KindsMatch, Objects, Inners
<1>3. NothingYet
  BY DEF Init, NothingYet, Inners, Objects
<1>. QED BY <1>1, <1>2, <1>3 DEF OwnInv

(* What no delivery and no part of the loop changes. *)
LEMMA LoopLeavesObjects ==
  ASSUME Deliver \/ Wait \/ Return
  PROVE  UNCHANGED <<objvars, ilife, cmds>>
BY DEF Deliver, Wait, Return, EndureResponse, ObserveReply, ObserveFinal, StatsEntry,
   StatsFinal, objvars, libvars

LEMMA CountOffTypes ==
  ASSUME TypeOK, CountOff
  PROVE  remaining' \in 0 .. Word - 1 /\ stop' \in BOOLEAN
BY Sizes DEF TypeOK, CountOff

LEMMA DeliverTypes ==
  ASSUME TypeOK, Deliver
  PROVE  TypeOK'
<1> USE DEF TypeOK
<1>0. UNCHANGED <<objvars, ilife, cmds>>
  BY LoopLeavesObjects
<1>1. ASSUME NEW c \in Cmds, EndureResponse(c)
      PROVE  TypeOK'
  BY <1>0, <1>1, CountOffTypes DEF EndureResponse, objvars, respvars
<1>2. ASSUME NEW i \in ObserveInners, NEW c \in Cmds, NEW s \in Servers, NEW r \in Codes,
             ObserveReply(i, c, s, r)
      PROVE  TypeOK'
  <2>1. <<c, s>> \in Cmds \X Servers /\ <<c, s>> \in Uncounted
    BY DEF Uncounted
  <2>2. overdrawn' \in SUBSET Uncounted /\ due' \in SUBSET (Counted \cup Uncounted)
    BY <1>2, <2>1 DEF ObserveReply
  <2>3. status' \in [ObserveInners \cup StatsOps -> Codes \cup {"unset"}]
    BY <1>2 DEF ObserveReply
  <2>4. sinfo' \in [ObserveInners -> SUBSET (Cmds \X Servers)]
    BY <1>2, <2>1 DEF ObserveReply
  <2>5. stats' = stats /\ loop' = loop
    BY <1>2 DEF ObserveReply
  <2>6. remaining' \in 0 .. Word - 1 /\ stop' \in BOOLEAN
    BY <1>2, CountOffTypes DEF ObserveReply
  <2>. QED BY <1>0, <2>2, <2>3, <2>4, <2>5, <2>6 DEF objvars
<1>3. ASSUME NEW i \in ObserveInners, ObserveFinal(i)
      PROVE  TypeOK'
  <2>1. i \in Uncounted
    BY DEF Uncounted
  <2>. QED BY <1>0, <1>3, <2>1, CountOffTypes DEF ObserveFinal, objvars, respvars
<1>4. ASSUME NEW x \in StatsOps, NEW s \in Servers, NEW r \in Codes, StatsEntry(x, s, r)
      PROVE  TypeOK'
  <2>1. status' \in [ObserveInners \cup StatsOps -> Codes \cup {"unset"}]
    BY <1>4 DEF StatsEntry
  <2>2. stats' \in [StatsOps -> SUBSET Servers]
    BY <1>4 DEF StatsEntry
  <2>. QED BY <1>0, <1>4, <2>1, <2>2 DEF StatsEntry, objvars, loopvars
<1>5. ASSUME NEW x \in StatsOps, NEW r \in Codes, StatsFinal(x, r)
      PROVE  TypeOK'
  <2>1. status' \in [ObserveInners \cup StatsOps -> Codes \cup {"unset"}]
    BY <1>5 DEF StatsFinal
  <2>2. overdrawn' \in SUBSET Uncounted /\ remaining' \in 0 .. Word - 1 /\ stop' \in BOOLEAN
    BY <1>5, CountOffTypes DEF StatsFinal, Uncounted
  <2>. QED BY <1>0, <1>5, <2>1, <2>2 DEF StatsFinal, objvars
<1>. QED BY <1>1, <1>2, <1>3, <1>4, <1>5 DEF Deliver

LEMMA TypeStep == TypeOK /\ [Next]_vars => TypeOK'
<1> SUFFICES ASSUME TypeOK, [Next]_vars PROVE TypeOK'
  OBVIOUS
<1> USE MultiAssumption
<1>1. CASE UNCHANGED vars
  BY <1>1 DEF TypeOK, vars, objvars, libvars, loopvars, respvars
<1>2. ASSUME NEW o \in EndureObjs, NEW i \in EndureInners, NewEndureContext(o, i)
      PROVE  TypeOK'
  BY <1>2 DEF NewEndureContext, TypeOK, loopvars, respvars, Objects, Inners
<1>3. ASSUME NEW o \in ObserveObjs, NewMultiContext(o)
      PROVE  TypeOK'
  BY <1>3 DEF NewMultiContext, TypeOK, libvars, loopvars, respvars, Objects
<1>4. ASSUME NEW o \in ObserveObjs, NEW i \in ObserveInners, MctxObserve(o, i)
      PROVE  TypeOK'
  BY <1>4 DEF MctxObserve, TypeOK, loopvars, respvars, Objects, Inners
<1>5. ASSUME NEW o \in ObserveObjs, NEW other \in ObserveObjs, MoveAssign(o, other)
      PROVE  TypeOK'
  BY <1>5 DEF MoveAssign, TypeOK, libvars, loopvars, respvars, Objects
<1>6. ASSUME NEW o \in Objects, NEW c \in Cmds, Add(o, c)
      PROVE  TypeOK'
  <2>1. m_inner[o] \in Inners
    BY <1>6 DEF Add, TypeOK
  <2>2. cmds' \in [Inners -> SUBSET Cmds]
    BY <1>6, <2>1 DEF Add, TypeOK
  <2>3. m_remaining' \in [Objects -> Nat]
    BY <1>6 DEF Add, TypeOK
  <2>. QED BY <1>6, <2>2, <2>3 DEF Add, TypeOK, loopvars, respvars
<1>7. ASSUME NEW o \in Objects, DoneContext(o)
      PROVE  TypeOK'
  <2>1. m_inner[o] \in Inners /\ Responses(m_inner[o]) \subseteq Counted \cup Uncounted
    BY <1>7 DEF DoneContext, TypeOK, Responses, Counted, Uncounted, Inners
  <2>2. due' \in SUBSET (Counted \cup Uncounted) /\ remaining' \in 0 .. Word - 1
    BY <1>7, <2>1 DEF DoneContext, TypeOK
  <2>3. m_inner' \in [Objects -> Inners \cup {"none"}]
    BY <1>7 DEF DoneContext, TypeOK
  <2>4. ilife' \in [Inners -> {"unused", "open", "sent", "dropped"}]
    BY <1>7, <2>1 DEF DoneContext, TypeOK
  <2>. QED BY <1>7, <2>2, <2>3, <2>4 DEF DoneContext, TypeOK, respvars
<1>8. ASSUME NEW o \in Objects, BailContext(o) \/ DestroyContext(o)
      PROVE  TypeOK'
  BY <1>8 DEF BailContext, DestroyContext, BailInner, TypeOK, loopvars, respvars
<1>9. ASSUME NEW x \in StatsOps, ScheduleStats(x)
      PROVE  TypeOK'
  BY <1>9 DEF ScheduleStats, TypeOK, Uncounted, objvars, loopvars, respvars
<1>10. CASE Wait \/ Return
  BY <1>10 DEF Wait, Return, TypeOK, objvars, libvars, respvars
<1>11. CASE Deliver
  BY <1>11, DeliverTypes
<1>. QED
  BY <1>1, <1>2, <1>3, <1>4, <1>5, <1>6, <1>7, <1>8, <1>9, <1>10, <1>11 DEF Next, Calls

LEMMA NothingYetStep ==
  ASSUME OwnInv, [Next]_vars
  PROVE  NothingYet'
<1> USE MultiAssumption DEF OwnInv, NothingYet, TypeOK
<1>1. CASE UNCHANGED vars \/ Deliver \/ Wait \/ Return
  BY <1>1, LoopLeavesObjects DEF vars, objvars, libvars
<1>2. CASE \E o \in EndureObjs, i \in EndureInners : NewEndureContext(o, i)
  BY <1>2 DEF NewEndureContext, Objects, Inners
<1>3. CASE \E o \in ObserveObjs : NewMultiContext(o)
  BY <1>3 DEF NewMultiContext, libvars, Objects
<1>4. CASE \E o \in ObserveObjs, i \in ObserveInners : MctxObserve(o, i)
  BY <1>4 DEF MctxObserve, Objects, Inners
<1>5. CASE \E o, other \in ObserveObjs : MoveAssign(o, other)
  BY <1>5 DEF MoveAssign, libvars
<1>6. ASSUME NEW o \in Objects, NEW c \in Cmds, Add(o, c)
      PROVE  NothingYet'
  <2>1. ilife[m_inner[o]] = "open" /\ ilife' = ilife
    BY <1>6 DEF Add, OwnedOnce
  <2>2. \A i \in Inners \ {m_inner[o]} : cmds'[i] = cmds[i]
    BY <1>6 DEF Add
  <2>3. \A p \in Objects : p # o \/ o \in ObserveObjs => m_remaining'[p] = m_remaining[p]
    BY <1>6 DEF Add
  <2>. QED BY <1>6, <2>1, <2>2, <2>3 DEF Add
<1>7. CASE \E o \in Objects : DoneContext(o)
  BY <1>7 DEF DoneContext, OwnedOnce
<1>8. CASE \E o \in Objects : BailContext(o) \/ DestroyContext(o)
  BY <1>8 DEF BailContext, DestroyContext, BailInner
<1>9. CASE \E x \in StatsOps : ScheduleStats(x)
  BY <1>9 DEF ScheduleStats, objvars
<1>. QED BY <1>1, <1>2, <1>3, <1>4, <1>5, <1>6, <1>7, <1>8, <1>9 DEF Next, Calls

LEMMA OwnStep == OwnInv /\ [Next]_vars => OwnInv'
<1> SUFFICES ASSUME OwnInv, [Next]_vars PROVE (OwnedOnce /\ KindsMatch)'
  BY TypeStep, NothingYetStep DEF OwnInv
<1> USE MultiAssumption DEF OwnInv, OwnedOnce, KindsMatch, TypeOK
<1>1. CASE UNCHANGED vars
  BY <1>1 DEF vars, objvars, libvars
<1>2. ASSUME NEW o \in EndureObjs, NEW i \in EndureInners, NewEndureContext(o, i)
      PROVE  (OwnedOnce /\ KindsMatch)'
  BY <1>2 DEF NewEndureContext, Objects, Inners
<1>3. ASSUME NEW o \in ObserveObjs, NewMultiContext(o)
      PROVE  (OwnedOnce /\ KindsMatch)'
  BY <1>3 DEF NewMultiContext, libvars, Objects
<1>4. ASSUME NEW o \in ObserveObjs, NEW i \in ObserveInners, MctxObserve(o, i)
      PROVE  (OwnedOnce /\ KindsMatch)'
  BY <1>4 DEF MctxObserve, Objects, Inners
<1>5. ASSUME NEW o \in ObserveObjs, NEW other \in ObserveObjs, MoveAssign(o, other)
      PROVE  (OwnedOnce /\ KindsMatch)'
  BY <1>5 DEF MoveAssign, libvars, Objects
<1>6. ASSUME NEW o \in Objects, NEW c \in Cmds, Add(o, c)
      PROVE  (OwnedOnce /\ KindsMatch)'
  BY <1>6 DEF Add
<1>7. ASSUME NEW o \in Objects, DoneContext(o)
      PROVE  (OwnedOnce /\ KindsMatch)'
  <2>1. \E r \in {"sent", "dropped"} : ilife' = [ilife EXCEPT ![m_inner[o]] = r]
    BY <1>7 DEF DoneContext
  <2>. QED BY <1>7, <2>1 DEF DoneContext
<1>8. ASSUME NEW o \in Objects, BailContext(o) \/ DestroyContext(o)
      PROVE  (OwnedOnce /\ KindsMatch)'
  BY <1>8 DEF BailContext, DestroyContext, BailInner
<1>9. ASSUME NEW x \in StatsOps, ScheduleStats(x)
      PROVE  (OwnedOnce /\ KindsMatch)'
  BY <1>9 DEF ScheduleStats, objvars
<1>10. CASE Deliver \/ Wait \/ Return
  BY <1>10, LoopLeavesObjects DEF objvars
<1>. QED
  BY <1>1, <1>2, <1>3, <1>4, <1>5, <1>6, <1>7, <1>8, <1>9, <1>10 DEF Next, Calls

(* What EndureContext has counted. *)
LEMMA CountsStep ==
  ASSUME OwnInv, EndureCounts, [Next]_vars
  PROVE  EndureCounts'
<1> USE MultiAssumption DEF OwnInv, KindsMatch, TypeOK, EndureCounts
<1>1. CASE UNCHANGED vars \/ Deliver \/ Wait \/ Return
  BY <1>1, LoopLeavesObjects DEF vars, objvars, libvars
<1>2. ASSUME NEW o \in Objects, NEW c \in Cmds, Add(o, c)
      PROVE  EndureCounts'
  <2>1. m_inner[o] \in Inners /\ c \notin cmds[m_inner[o]]
    BY <1>2 DEF Add, Unadded
  <2>2. CASE UNCHANGED <<cmds, m_remaining>>
    BY <1>2, <2>2 DEF Add
  <2>3. CASE /\ cmds' = [cmds EXCEPT ![m_inner[o]] = @ \cup {c}]
             /\ m_remaining' = IF o \in EndureObjs THEN [m_remaining EXCEPT ![o] = @ + 1]
                                                   ELSE m_remaining
    <3>1. Cardinality(cmds[m_inner[o]] \cup {c}) = Cardinality(cmds[m_inner[o]]) + 1
      <4>1. IsFiniteSet(cmds[m_inner[o]])
        BY <2>1, FS_Subset
      <4>. QED BY <4>1, <2>1, FS_AddElement
    <3>2. \A p \in Objects \ {o} : m_inner[p] # "none" => m_inner[p] # m_inner[o]
      BY <1>2 DEF Add, OwnedOnce
    <3>. QED BY <1>2, <2>1, <2>3, <3>1, <3>2 DEF Add, Inners
  <2>. QED BY <1>2, <2>2, <2>3 DEF Add
<1>3. ASSUME NEW o \in EndureObjs, NEW i \in EndureInners, NewEndureContext(o, i)
      PROVE  EndureCounts'
  <2>1. m_remaining[o] = 0 /\ cmds[i] = {} /\ Cardinality({}) = 0
    BY <1>3, FS_EmptySet DEF NewEndureContext, Objects, Inners, NothingYet
  <2>. QED BY <1>3, <2>1 DEF NewEndureContext, Objects, Inners
<1>4. CASE \E o \in ObserveObjs : NewMultiContext(o)
  BY <1>4 DEF NewMultiContext, libvars
<1>5. CASE \E o \in ObserveObjs, i \in ObserveInners : MctxObserve(o, i)
  BY <1>5 DEF MctxObserve, Objects, NothingYet
<1>6. CASE \E o, other \in ObserveObjs : MoveAssign(o, other)
  BY <1>6 DEF MoveAssign, libvars, Objects, NothingYet
<1>7. CASE \E o \in Objects : DoneContext(o)
  BY <1>7 DEF DoneContext
<1>8. CASE \E o \in Objects : BailContext(o) \/ DestroyContext(o)
  BY <1>8 DEF BailContext, DestroyContext, BailInner
<1>9. CASE \E x \in StatsOps : ScheduleStats(x)
  BY <1>9 DEF ScheduleStats, objvars
<1>. QED BY <1>1, <1>2, <1>3, <1>4, <1>5, <1>6, <1>7, <1>8, <1>9 DEF Next, Calls

-----------------------------------------------------------------------------
(* The responses. *)

LEMMA AnswerInit == Init => AnswerInv
BY DEF Init, AnswerInv, Inners

LEMMA AnswerDone ==
  ASSUME OwnInv, AnswerInv, NEW o \in Objects, DoneContext(o)
  PROVE  AnswerInv'
<1> USE MultiAssumption DEF AnswerInv
<1> DEFINE i == m_inner[o]
<1>0. i \in Inners /\ ilife[i] = "open" /\ cmds[i] \subseteq Cmds
  BY DEF DoneContext, OwnInv, TypeOK, OwnedOnce
<1>1. cmds' = cmds /\ overdrawn' = overdrawn /\ status' = status
  BY DEF DoneContext, respvars
<1>2. overdrawn \subseteq Uncounted /\ \A j \in Inners : ilife[j] = "sent" => ilife'[j] = "sent"
  BY <1>0 DEF DoneContext, OwnInv, TypeOK
<1>3. CASE due' = due
  BY <1>1, <1>2, <1>3 DEF Inners
<1>4. CASE ilife' = [ilife EXCEPT ![i] = "sent"] /\ due' = due \cup Responses(i)
  <2>1. ilife'[i] = "sent"
    BY <1>0, <1>4 DEF OwnInv, TypeOK
  <2>2. CASE i \in EndureInners
    <3>1. due' = due \cup cmds[i]
      BY <1>4, <2>2 DEF Responses
    <3>2. cmds[i] \cap Uncounted = {}
      BY <1>0
    <3>3. due' \cap overdrawn' = {}
      BY <1>1, <1>2, <3>1, <3>2
    <3>4. \A c \in Cmds : c \in due' => \E j \in EndureInners : c \in cmds[j] /\ ilife'[j] = "sent"
      BY <1>2, <2>1, <2>2, <3>1 DEF Inners
    <3>5. \A t \in Uncounted : t \in due' => t \in due
      BY <3>1, <3>2
    <3>6. \A c \in Cmds, s \in Servers : <<c, s>> \in due' \cup overdrawn'
            => \E j \in ObserveInners : c \in cmds[j] /\ ilife'[j] = "sent"
      BY <1>1, <1>2, <3>5 DEF Uncounted, Inners
    <3>7. \A j \in ObserveInners : j \in due' \cup overdrawn' => ilife'[j] = "sent"
      BY <1>1, <1>2, <3>5 DEF Uncounted, Inners
    <3>. QED BY <1>1, <3>3, <3>4, <3>6, <3>7
  <2>3. CASE i \in ObserveInners
    <3>1. due' = due \cup (cmds[i] \X Servers) \cup {i}
      BY <1>4, <2>3 DEF Responses
    <3>2. (cmds[i] \X Servers) \cap overdrawn = {} /\ i \notin overdrawn
      BY <1>0, <2>3 DEF Inners
    <3>3. due' \cap overdrawn' = {}
      BY <1>1, <3>1, <3>2
    <3>4. \A c \in Cmds : c \in due' => c \in due
      BY <1>0, <2>3, <3>1 DEF Uncounted
    <3>5. \A c \in Cmds : c \in due' => \E j \in EndureInners : c \in cmds[j] /\ ilife'[j] = "sent"
      BY <1>2, <3>4 DEF Inners
    <3>6. \A c \in Cmds, s \in Servers : <<c, s>> \in due' => <<c, s>> \in due \/ c \in cmds[i]
      BY <1>0, <2>3, <3>1
    <3>7. \A c \in Cmds, s \in Servers : <<c, s>> \in due' \cup overdrawn'
            => \E j \in ObserveInners : c \in cmds[j] /\ ilife'[j] = "sent"
      BY <1>1, <1>2, <2>1, <2>3, <3>6 DEF Inners
    <3>8. \A j \in ObserveInners : j \in due' => j \in due \/ j = i
      BY <1>0, <3>1
    <3>9. \A j \in ObserveInners : j \in due' \cup overdrawn' => ilife'[j] = "sent"
      BY <1>1, <1>2, <2>1, <3>8 DEF Inners
    <3>. QED BY <1>1, <3>3, <3>5, <3>7, <3>9
  <2>. QED BY <1>0, <2>2, <2>3 DEF Inners
<1>. QED BY <1>3, <1>4 DEF DoneContext

LEMMA AnswerDeliver ==
  ASSUME OwnInv, AnswerInv, Deliver
  PROVE  AnswerInv'
<1> USE MultiAssumption DEF AnswerInv
<1>0. ilife' = ilife /\ cmds' = cmds
  BY LoopLeavesObjects
<1>1. ASSUME NEW c \in Cmds, EndureResponse(c)
      PROVE  AnswerInv'
  BY <1>0, <1>1 DEF EndureResponse, respvars
<1>2. ASSUME NEW i \in ObserveInners, NEW c \in Cmds, NEW s \in Servers, NEW r \in Codes,
             ObserveReply(i, c, s, r)
      PROVE  AnswerInv'
  <2>1. due' = due \ {<<c, s>>} /\ overdrawn' = overdrawn \cup {<<c, s>>} /\ <<c, s>> \in due
    BY <1>2 DEF ObserveReply
  <2>2. \A x \in StatsOps : status'[x] = status[x]
    BY <1>2 DEF ObserveReply, OwnInv, TypeOK
  <2>3. <<c, s>> \notin StatsOps \cup ObserveInners \cup (StatsOps \X Servers)
    BY DEF Uncounted
  <2>. QED BY <1>0, <2>1, <2>2, <2>3
<1>3. ASSUME NEW i \in ObserveInners, ObserveFinal(i)
      PROVE  AnswerInv'
  BY <1>0, <1>3 DEF ObserveFinal, respvars
<1>4. ASSUME NEW x \in StatsOps, NEW s \in Servers, NEW r \in Codes, StatsEntry(x, s, r)
      PROVE  AnswerInv'
  <2>1. due' \subseteq due /\ overdrawn' = overdrawn
    BY <1>4 DEF StatsEntry, loopvars
  <2>2. \A y \in StatsOps : status[y] # "unset" => status'[y] # "unset"
    BY <1>4 DEF StatsEntry, OwnInv, TypeOK, Codes
  <2>. QED BY <1>0, <2>1, <2>2
<1>5. ASSUME NEW x \in StatsOps, NEW r \in Codes, StatsFinal(x, r)
      PROVE  AnswerInv'
  <2>1. due' = due \ {x} /\ overdrawn' \subseteq overdrawn \cup {x}
    BY <1>5 DEF StatsFinal
  <2>2. \A y \in StatsOps : status[y] # "unset" \/ y = x => status'[y] # "unset"
    BY <1>5 DEF StatsFinal, OwnInv, TypeOK, Codes
  <2>3. x \notin Cmds \cup ObserveInners \cup ((Cmds \cup StatsOps) \X Servers)
    OBVIOUS
  <2>. QED BY <1>0, <2>1, <2>2, <2>3
<1>. QED BY <1>1, <1>2, <1>3, <1>4, <1>5 DEF Deliver

LEMMA AnswerStep ==
  ASSUME OwnInv, AnswerInv, [Next]_vars
  PROVE  AnswerInv'
<1> USE MultiAssumption DEF AnswerInv, TypeOK, OwnInv
<1>1. CASE UNCHANGED vars \/ Wait \/ Return
  BY <1>1 DEF Wait, Return, vars, objvars, libvars, loopvars, respvars
<1>2. CASE \/ \E o \in EndureObjs, i \in EndureInners : NewEndureContext(o, i)
           \/ \E o \in ObserveObjs : NewMultiContext(o)
           \/ \E o \in ObserveObjs, i \in ObserveInners : MctxObserve(o, i)
           \/ \E o, other \in ObserveObjs : MoveAssign(o, other)
           \/ \E o \in Objects : BailContext(o) \/ DestroyContext(o)
  <2>1. cmds' = cmds /\ due' = due /\ overdrawn' = overdrawn /\ status' = status
    BY <1>2 DEF NewEndureContext, NewMultiContext, MctxObserve, MoveAssign, BailContext,
       DestroyContext, libvars, loopvars, respvars
  <2>2. \A i \in Inners : ilife[i] = "sent" => ilife'[i] = "sent"
    BY <1>2 DEF NewEndureContext, NewMultiContext, MctxObserve, MoveAssign, BailContext,
       DestroyContext, BailInner, libvars, OwnedOnce, Inners
  <2>. QED BY <2>1, <2>2 DEF Inners
<1>3. ASSUME NEW o \in Objects, NEW c \in Cmds, Add(o, c)
      PROVE  AnswerInv'
  <2>1. /\ UNCHANGED <<ilife, due, overdrawn, status>>
        /\ m_inner[o] \in Inners /\ c \notin UNION {cmds[i] : i \in Inners}
        /\ UNCHANGED cmds \/ cmds' = [cmds EXCEPT ![m_inner[o]] = @ \cup {c}]
    BY <1>3 DEF Add, Unadded, loopvars, respvars
  <2>2. \A i \in Inners : cmds[i] \subseteq cmds'[i]
    BY <2>1
  <2>3. \A i, j \in Inners : i # j => cmds'[i] \cap cmds'[j] = {}
    BY <2>1
  <2>. QED BY <2>1, <2>2, <2>3 DEF Inners
<1>4. ASSUME NEW x \in StatsOps, ScheduleStats(x)
      PROVE  AnswerInv'
  <2>1. /\ due' = due \cup ({x} \X Servers) \cup {x}
        /\ UNCHANGED <<ilife, cmds, overdrawn, status>> /\ status[x] = "unset"
    BY <1>4 DEF ScheduleStats, loopvars, respvars
  <2>2. \A c \in Cmds : c \in due' => c \in due
    BY <2>1 DEF Uncounted
  <2>3. \A c \in Cmds, s \in Servers : <<c, s>> \in due' => <<c, s>> \in due
    BY <2>1 DEF Uncounted
  <2>4. \A i \in ObserveInners : i \in due' => i \in due
    BY <2>1
  <2>5. due' \cap overdrawn = {}
    BY <2>1
  <2>. QED BY <2>1, <2>2, <2>3, <2>4, <2>5
<1>. QED
  BY <1>1, <1>2, <1>3, <1>4, AnswerDone, AnswerDeliver DEF Next, Calls

-----------------------------------------------------------------------------
(* The books of Client::remaining. *)

LEMMA BalanceAdd ==
  ASSUME NEW a \in Nat, NEW b \in Nat, NEW n \in Nat, a + n < Word, b < Word
  PROVE  (Balance(a, b) + n) % Word = Balance(a + n, b)
<1>1. \A k \in Nat : k < Word => k % Word = k /\ (k + Word) % Word = k
  BY Sizes
<1>2. CASE b <= a
  <2>1. Balance(a, b) + n = a + n - b /\ a + n - b \in Nat /\ a + n - b < Word
    BY <1>2, Sizes DEF Balance
  <2>2. b <= a + n
    BY <1>2
  <2>. QED BY <1>1, <2>1, <2>2 DEF Balance
<1>3. CASE a < b /\ b <= a + n
  <2>1. Balance(a, b) + n = (a + n - b) + Word /\ a + n - b \in Nat /\ a + n - b < Word
    BY <1>3, Sizes DEF Balance
  <2>. QED BY <1>1, <1>3, <2>1 DEF Balance
<1>4. CASE a + n < b
  <2>1. Balance(a, b) + n = Balance(a + n, b)
    BY <1>4, Sizes DEF Balance
  <2>2. Balance(a + n, b) \in Nat /\ Balance(a + n, b) < Word
    BY <1>4, Sizes DEF Balance
  <2>. QED BY <1>1, <2>1, <2>2
<1>. QED BY <1>2, <1>3, <1>4

LEMMA BalanceOff ==
  ASSUME NEW a \in Nat, NEW b \in Nat, a < Word, b < Word
  PROVE  LET r == Balance(a, b)
             off == IF r = 0 THEN Word - 1 ELSE r - 1
         IN  (a > 0 => off = Balance(a - 1, b)) /\ (b + 1 < Word => off = Balance(a, b + 1))
BY Sizes DEF Balance

LEMMA DueSizes ==
  ASSUME OwnInv
  PROVE  /\ IsFiniteSet(due \cap Counted) /\ IsFiniteSet(overdrawn)
         /\ Cardinality(due \cap Counted) \in Nat /\ Cardinality(due \cap Counted) < Word
         /\ Cardinality(overdrawn) \in Nat /\ Cardinality(overdrawn) < Word
<1>1. due \cap Counted \subseteq Cmds /\ overdrawn \subseteq Uncounted
  BY DEF OwnInv, TypeOK, Counted
<1>2. /\ IsFiniteSet(due \cap Counted) /\ Cardinality(due \cap Counted) <= Cardinality(Cmds)
      /\ IsFiniteSet(overdrawn) /\ Cardinality(overdrawn) <= Cardinality(Uncounted)
  BY <1>1, FS_Subset, MultiAssumption
<1>. QED BY <1>2, FS_CardinalityType, Sizes, MultiAssumption

LEMMA PrimedSizes ==
  ASSUME OwnInv'
  PROVE  /\ IsFiniteSet((due \cap Counted)') /\ IsFiniteSet(overdrawn')
         /\ Cardinality((due \cap Counted)') \in Nat /\ Cardinality((due \cap Counted)') < Word
         /\ Cardinality(overdrawn') \in Nat /\ Cardinality(overdrawn') < Word
<1>1. (due \cap Counted)' \subseteq Cmds /\ overdrawn' \subseteq Uncounted
  BY DEF OwnInv, TypeOK, Counted
<1>2. /\ IsFiniteSet((due \cap Counted)') /\ Cardinality((due \cap Counted)') <= Cardinality(Cmds)
      /\ IsFiniteSet(overdrawn') /\ Cardinality(overdrawn') <= Cardinality(Uncounted)
  BY <1>1, FS_Subset, MultiAssumption
<1>. QED BY <1>2, FS_CardinalityType, Sizes, MultiAssumption

LEMMA CountedOff ==
  ASSUME OwnInv, CountsBalanced, CountOff, NEW c \in due \cap Counted,
         due' = due \ {c}, overdrawn' = overdrawn
  PROVE  CountsBalanced'
<1>1. due' \cap Counted = (due \cap Counted) \ {c}
  OBVIOUS
<1>2. Cardinality(due' \cap Counted) = Cardinality(due \cap Counted) - 1
  BY <1>1, DueSizes, FS_RemoveElement
<1>3. Cardinality(due \cap Counted) > 0
  BY <1>2, <1>1, DueSizes, FS_CardinalityType, FS_Subset
<1>. QED BY <1>2, <1>3, DueSizes, BalanceOff DEF CountsBalanced, CountOff

LEMMA OverdrawnOff ==
  ASSUME OwnInv, OwnInv', CountsBalanced, CountOff, NEW t \in Uncounted, t \notin overdrawn,
         due' = due \ {t}, overdrawn' = overdrawn \cup {t}
  PROVE  CountsBalanced'
<1>1. due' \cap Counted = due \cap Counted
  BY MultiAssumption DEF Counted
<1>2. Cardinality(overdrawn') = Cardinality(overdrawn) + 1
  BY DueSizes, FS_AddElement
<1>3. Cardinality(overdrawn) + 1 < Word
  <2>1. overdrawn' \subseteq Uncounted
    BY DEF OwnInv, TypeOK
  <2>. QED BY <1>2, <2>1, DueSizes, FS_Subset, Sizes, MultiAssumption
<1> DEFINE a == Cardinality(due \cap Counted)
           b == Cardinality(overdrawn)
<1>4. a \in Nat /\ b \in Nat /\ a < Word /\ b < Word
  BY DueSizes
<1>5. remaining' = Balance(a, b + 1)
  <2>. HIDE DEF a, b
  <2>1. remaining = Balance(a, b)
    BY DEF CountsBalanced, a, b
  <2>2. b + 1 < Word
    BY <1>3 DEF b
  <2>. QED BY <1>4, <2>1, <2>2, BalanceOff DEF CountOff
<1>. QED BY <1>1, <1>2, <1>5 DEF CountsBalanced

LEMMA BalanceDone ==
  ASSUME OwnInv, AnswerInv, EndureCounts, CountsBalanced, NEW o \in Objects, DoneContext(o)
  PROVE  CountsBalanced'
<1> USE MultiAssumption
<1> DEFINE i == m_inner[o]
<1>0. i \in Inners /\ ilife[i] = "open" /\ cmds[i] \subseteq Cmds /\ overdrawn' = overdrawn
  BY DEF DoneContext, OwnInv, TypeOK, OwnedOnce
<1>1. CASE UNCHANGED <<due, remaining>>
  BY <1>0, <1>1 DEF CountsBalanced
<1>2. CASE due' = due \cup Responses(i) /\ remaining' = (remaining + m_remaining[o]) % Word
  <2>1. CASE o \in EndureObjs
    <3>1. i \in EndureInners /\ m_remaining[o] = Cardinality(cmds[i])
      BY <1>0, <2>1 DEF OwnInv, KindsMatch, EndureCounts, Inners
    <3>2. due' \cap Counted = (due \cap Counted) \cup cmds[i]
      BY <1>0, <1>2, <3>1 DEF Responses, Counted
    <3>3. (due \cap Counted) \cap cmds[i] = {}
      BY <1>0, <3>1 DEF AnswerInv, Counted, Inners
    <3>4. IsFiniteSet(cmds[i]) /\ Cardinality(cmds[i]) \in Nat
      BY <1>0, FS_Subset, FS_CardinalityType
    <3>5. Cardinality(due' \cap Counted) = Cardinality(due \cap Counted) + Cardinality(cmds[i])
      <4>1. Cardinality(due' \cap Counted)
              = Cardinality(due \cap Counted) + Cardinality(cmds[i]) - Cardinality({})
        BY <3>2, <3>3, <3>4, DueSizes, FS_Union
      <4>. QED BY <4>1, <3>4, DueSizes, FS_EmptySet
    <3>6. Cardinality(due' \cap Counted) <= Cardinality(Cmds)
      BY <1>0, <3>2, FS_Subset DEF Counted
    <3>7. Cardinality(due \cap Counted) + Cardinality(cmds[i]) < Word
      BY <3>4, <3>5, <3>6, DueSizes, Sizes
    <3>. QED
      BY <1>0, <1>2, <3>1, <3>4, <3>5, <3>7, DueSizes, BalanceAdd DEF CountsBalanced
  <2>2. CASE o \notin EndureObjs
    <3>1. i \in ObserveInners /\ i \notin EndureInners /\ m_remaining[o] = 0
      BY <1>0, <2>2 DEF OwnInv, KindsMatch, EndureCounts, Inners, Objects
    <3>2. due' \cap Counted = due \cap Counted
      BY <1>0, <1>2, <3>1 DEF Responses, Counted, Uncounted
    <3>3. remaining' = remaining
      BY <1>2, <3>1 DEF OwnInv, TypeOK
    <3>. QED BY <1>0, <3>2, <3>3 DEF CountsBalanced
  <2>. QED BY <2>1, <2>2
<1>. QED BY <1>1, <1>2 DEF DoneContext

LEMMA BalanceStep ==
  ASSUME OwnInv, AnswerInv, EndureCounts, CountsBalanced, [Next]_vars
  PROVE  CountsBalanced'
<1> USE MultiAssumption
<1>0. OwnInv'
  BY OwnStep
<1>1. CASE Deliver
  <2>1. ASSUME NEW c \in Cmds, EndureResponse(c)
        PROVE  CountsBalanced'
    BY <1>0, <2>1, CountedOff DEF EndureResponse, Counted
  <2>2. ASSUME NEW i \in ObserveInners, NEW c \in Cmds, NEW s \in Servers, NEW r \in Codes,
               ObserveReply(i, c, s, r)
        PROVE  CountsBalanced'
    <3>1. <<c, s>> \in Uncounted /\ <<c, s>> \notin overdrawn
      BY <2>2 DEF ObserveReply, Uncounted, AnswerInv
    <3>. QED BY <1>0, <2>2, <3>1, OverdrawnOff DEF ObserveReply
  <2>3. ASSUME NEW i \in ObserveInners, ObserveFinal(i)
        PROVE  CountsBalanced'
    <3>1. i \in Uncounted /\ i \notin overdrawn
      BY <2>3 DEF ObserveFinal, Uncounted, AnswerInv
    <3>. QED BY <1>0, <2>3, <3>1, OverdrawnOff DEF ObserveFinal
  <2>4. ASSUME NEW x \in StatsOps, NEW s \in Servers, NEW r \in Codes, StatsEntry(x, s, r)
        PROVE  CountsBalanced'
    <3>1. due' \cap Counted = due \cap Counted
      BY <2>4 DEF StatsEntry, Counted, Uncounted
    <3>. QED BY <2>4, <3>1 DEF StatsEntry, loopvars, CountsBalanced
  <2>5. ASSUME NEW x \in StatsOps, NEW r \in Codes, StatsFinal(x, r)
        PROVE  CountsBalanced'
    <3>1. x \in Uncounted /\ x \notin overdrawn /\ due' = due \ {x}
      BY <2>5 DEF StatsFinal, Uncounted, AnswerInv
    <3>2. CASE r = "ok"
      BY <1>0, <2>5, <3>1, <3>2, OverdrawnOff DEF StatsFinal
    <3>3. CASE r # "ok"
      <4>1. due' \cap Counted = due \cap Counted
        BY <3>1 DEF Counted
      <4>. QED BY <2>5, <3>3, <4>1 DEF StatsFinal, CountsBalanced
    <3>. QED BY <3>2, <3>3
  <2>. QED BY <1>1, <2>1, <2>2, <2>3, <2>4, <2>5 DEF Deliver
<1>2. ASSUME NEW x \in StatsOps, ScheduleStats(x)
      PROVE  CountsBalanced'
  <2>1. due' \cap Counted = due \cap Counted
    BY <1>2 DEF ScheduleStats, Counted, Uncounted
  <2>. QED BY <1>2, <2>1 DEF ScheduleStats, loopvars, CountsBalanced
<1>3. CASE /\ ~Deliver /\ ~\E x \in StatsOps : ScheduleStats(x)
           /\ ~\E o \in Objects : DoneContext(o)
  <2>1. UNCHANGED <<due, overdrawn, remaining>>
    BY <1>3 DEF Next, Calls, NewEndureContext, NewMultiContext, MctxObserve, MoveAssign, Add,
       BailContext, DestroyContext, Wait, Return, vars, libvars, loopvars
  <2>. QED BY <2>1 DEF CountsBalanced
<1>. QED BY <1>1, <1>2, <1>3, BalanceDone

-----------------------------------------------------------------------------
(* Waits. *)

WaitInv ==
  loop /\ stop =>
    /\ \E i \in EndureInners : ilife[i] = "sent"
    /\ overdrawn = {} => due \cap Counted = {}

(* What is counted off was due and counted, or is overdrawn afterwards. *)
LEMMA WhatCountsOff ==
  ASSUME Deliver, stop \in BOOLEAN, stop' # stop
  PROVE  /\ remaining' = 0
         /\ (\E c \in Cmds : c \in due) \/ overdrawn' # {}
BY DEF Deliver, EndureResponse, ObserveReply, ObserveFinal, StatsEntry, StatsFinal, loopvars,
   CountOff

LEMMA WaitStep ==
  ASSUME OwnInv, AnswerInv, EndureCounts, CountsBalanced, WaitInv, [Next]_vars
  PROVE  WaitInv'
<1>1. CASE UNCHANGED vars
  BY <1>1 DEF WaitInv, vars, libvars, loopvars
<1>2. CASE Wait \/ Return
  BY <1>2 DEF WaitInv, Wait, Return
<1>3. CASE Calls /\ ~Wait
  <2>1. ~loop'
    BY <1>3 DEF Calls, NewEndureContext, NewMultiContext, MctxObserve, MoveAssign, Add,
       DoneContext, BailContext, DestroyContext, ScheduleStats, loopvars
  <2>. QED BY <2>1 DEF WaitInv
<1>4. CASE Deliver
  <2>0. OwnInv' /\ CountsBalanced' /\ AnswerInv'
    BY OwnStep, BalanceStep, AnswerStep
  <2>1. ilife' = ilife /\ loop
    BY <1>4, LoopLeavesObjects DEF Deliver, EndureResponse, ObserveReply, ObserveFinal,
       StatsEntry, StatsFinal
  <2>2. due' \subseteq due /\ overdrawn \subseteq overdrawn'
    BY <1>4 DEF Deliver, EndureResponse, ObserveReply, ObserveFinal, StatsEntry, StatsFinal,
       loopvars
  <2>3. CASE stop' = stop
    BY <2>1, <2>2, <2>3 DEF WaitInv
  <2>4. CASE stop' # stop
    <3>1. remaining' = 0 /\ ((\E c \in Cmds : c \in due) \/ overdrawn' # {})
      BY <1>4, <2>4, WhatCountsOff DEF OwnInv, TypeOK
    <3>2. Cardinality((due \cap Counted)') = Cardinality(overdrawn')
      BY <2>0, <3>1, PrimedSizes, Sizes DEF CountsBalanced, Balance
    <3>3. overdrawn' = {} <=> (due \cap Counted)' = {}
      BY <2>0, <3>2, PrimedSizes, FS_EmptySet
    <3>4. \E i \in EndureInners : ilife[i] = "sent"
      <4>1. CASE \E c \in Cmds : c \in due
        BY <4>1 DEF AnswerInv
      <4>2. CASE overdrawn' # {}
        BY <4>2, <2>2, <3>3 DEF AnswerInv, Counted
      <4>. QED BY <3>1, <4>1, <4>2
    <3>. QED BY <2>1, <3>3, <3>4 DEF WaitInv
  <2>. QED BY <2>3, <2>4
<1>. QED BY <1>1, <1>2, <1>3, <1>4 DEF Next, Calls

-----------------------------------------------------------------------------
(* The status of an observe. *)

SuccessInv ==
  \A i \in ObserveInners : status[i] \in {"unset", "ok"} => sinfo[i] = Received(i)

LEMMA SuccessDeliver ==
  ASSUME OwnInv, AnswerInv, SuccessInv, Deliver
  PROVE  SuccessInv'
<1> USE MultiAssumption DEF OwnInv, TypeOK
<1>0. ilife' = ilife /\ cmds' = cmds
  BY LoopLeavesObjects
<1>1. CASE (\E c \in Cmds : EndureResponse(c)) \/ \E i \in ObserveInners : ObserveFinal(i)
  <2>1. status' = status /\ sinfo' = sinfo
    BY <1>1 DEF EndureResponse, ObserveFinal, respvars
  <2>2. \A t \in Cmds \X Servers : t \in due' <=> t \in due
    BY <1>1 DEF EndureResponse, ObserveFinal, Uncounted
  <2>. QED BY <1>0, <2>1, <2>2 DEF SuccessInv, Received, Inners
<1>2. ASSUME NEW i \in ObserveInners, NEW c \in Cmds, NEW s \in Servers, NEW r \in Codes,
             ObserveReply(i, c, s, r)
      PROVE  SuccessInv'
  <2>1. ilife[i] = "sent" /\ \A j \in ObserveInners : j # i => c \notin cmds[j]
    BY <1>2 DEF ObserveReply, AnswerInv, Inners
  <2>2. due' = due \ {<<c, s>>} /\ <<c, s>> \in (cmds[i] \X Servers) \cap due
    BY <1>2 DEF ObserveReply
  <2>3. \A j \in ObserveInners : j # i => status'[j] = status[j] /\ sinfo'[j] = sinfo[j]
    BY <1>2 DEF ObserveReply
  <2>4. \A j \in ObserveInners : j # i => Received(j)' = Received(j)
    BY <1>0, <2>1, <2>2 DEF Received
  <2>5. Received(i)' = Received(i) \cup {<<c, s>>}
    BY <1>0, <2>1, <2>2 DEF Received
  <2>6. status'[i] \in {"unset", "ok"} => r = "ok" /\ status[i] \in {"unset", "ok"}
    BY <1>2 DEF ObserveReply, Codes
  <2>7. r = "ok" => sinfo'[i] = sinfo[i] \cup {<<c, s>>}
    BY <1>2 DEF ObserveReply
  <2>. QED BY <2>3, <2>4, <2>5, <2>6, <2>7 DEF SuccessInv
<1>3. ASSUME NEW x \in StatsOps, NEW r \in Codes,
             StatsFinal(x, r) \/ \E s \in Servers : StatsEntry(x, s, r)
      PROVE  SuccessInv'
  <2>1. sinfo' = sinfo /\ \A j \in ObserveInners : status'[j] = status[j]
    BY <1>3 DEF StatsFinal, StatsEntry
  <2>2. \A t \in Cmds \X Servers : t \in due' <=> t \in due
    <3>1. due' = due \ {x} \/ \E s \in Servers : due' = due \ {<<x, s>>}
      BY <1>3 DEF StatsFinal, StatsEntry
    <3>2. \A c \in Cmds, p, s \in Servers : <<c, p>> # x /\ <<c, p>> # <<x, s>>
      OBVIOUS
    <3>. QED BY <3>1, <3>2
  <2>. QED BY <1>0, <2>1, <2>2 DEF SuccessInv, Received, Inners
<1>. QED BY <1>1, <1>2, <1>3 DEF Deliver

LEMMA SuccessStep ==
  ASSUME OwnInv, AnswerInv, SuccessInv, [Next]_vars
  PROVE  SuccessInv'
<1> USE MultiAssumption DEF OwnInv, TypeOK
<1>1. CASE UNCHANGED vars \/ Wait \/ Return
  BY <1>1 DEF Wait, Return, vars, libvars, respvars, SuccessInv, Received
<1>2. CASE Calls /\ ~Wait
  <2>1. status' = status /\ sinfo' = sinfo
    BY <1>2 DEF Calls, NewEndureContext, NewMultiContext, MctxObserve, MoveAssign, Add,
       DoneContext, BailContext, DestroyContext, ScheduleStats, respvars
  <2> SUFFICES ASSUME NEW i \in ObserveInners PROVE Received(i)' = Received(i)
    BY <2>1 DEF SuccessInv
  <2>2. CASE \E o \in Objects : DoneContext(o)
    <3>1. PICK o \in Objects : DoneContext(o)
      BY <2>2
    <3>2. cmds' = cmds /\ m_inner[o] \in Inners /\ ilife[m_inner[o]] = "open"
      BY <3>1 DEF DoneContext, OwnedOnce
    <3>3. CASE m_inner[o] = i
      <4>1. CASE ilife' = [ilife EXCEPT ![m_inner[o]] = "dropped"]
        <5>1. ilife'[i] = "dropped"
          BY <3>2, <3>3, <4>1
        <5>. QED BY <3>2, <3>3, <5>1 DEF Received
      <4>2. CASE due' = due \cup Responses(i)
        <5>1. i \notin EndureInners
          OBVIOUS
        <5>2. cmds[i] \X Servers \subseteq due'
          BY <4>2, <5>1 DEF Responses
        <5>3. Received(i) = {}
          BY <3>2, <3>3 DEF Received
        <5>4. Received(i)' = {}
          BY <3>2, <5>2 DEF Received
        <5>. QED BY <5>3, <5>4
      <4>. QED BY <3>1, <3>3, <4>1, <4>2 DEF DoneContext
    <3>4. CASE m_inner[o] # i
      <4>1. ilife'[i] = ilife[i]
        BY <3>1, <3>2, <3>4 DEF DoneContext, Inners
      <4>2. \A t \in cmds[i] \X Servers : t \in due' <=> t \in due
        BY <3>1, <3>2, <3>4 DEF DoneContext, Responses, AnswerInv, Inners, Uncounted
      <4>. QED BY <3>2, <4>1, <4>2 DEF Received
    <3>. QED BY <3>3, <3>4
  <2>3. CASE \E x \in StatsOps : ScheduleStats(x)
    BY <2>3 DEF ScheduleStats, Received, Inners
  <2>4. CASE \E o \in Objects, c \in Cmds : Add(o, c)
    <3>1. PICK o \in Objects, c \in Cmds : Add(o, c)
      BY <2>4
    <3>2. ilife' = ilife /\ due' = due /\ ilife[m_inner[o]] = "open"
      BY <3>1 DEF Add, OwnedOnce
    <3>3. m_inner[o] # i => cmds'[i] = cmds[i]
      BY <3>1 DEF Add, Inners
    <3>. QED BY <3>2, <3>3 DEF Received
  <2>5. CASE \/ \E o \in EndureObjs, j \in EndureInners : NewEndureContext(o, j)
             \/ \E o \in ObserveObjs : NewMultiContext(o)
             \/ \E o \in ObserveObjs, j \in ObserveInners : MctxObserve(o, j)
             \/ \E o, other \in ObserveObjs : MoveAssign(o, other)
             \/ \E o \in Objects : BailContext(o) \/ DestroyContext(o)
    <3>1. cmds' = cmds /\ due' = due
      BY <2>5 DEF NewEndureContext, NewMultiContext, MctxObserve, MoveAssign, BailContext,
         DestroyContext, libvars
    <3>2. ilife'[i] = "sent" <=> ilife[i] = "sent"
      BY <2>5 DEF NewEndureContext, NewMultiContext, MctxObserve, MoveAssign, BailContext,
         DestroyContext, BailInner, libvars, OwnedOnce, Inners
    <3>. QED BY <3>1, <3>2 DEF Received
  <2>. QED BY <1>2, <2>2, <2>3, <2>4, <2>5 DEF Calls
<1>. QED BY <1>1, <1>2, SuccessDeliver DEF Next, Calls

-----------------------------------------------------------------------------
(* The theorems. *)

MultiInv ==
  /\ OwnInv /\ AnswerInv /\ EndureCounts /\ CountsBalanced /\ WaitInv /\ SuccessInv

LEMMA MultiInit == Init => MultiInv
<1> SUFFICES ASSUME Init PROVE MultiInv
  OBVIOUS
<1>1. EndureCounts /\ WaitInv /\ SuccessInv
  BY MultiAssumption DEF Init, EndureCounts, WaitInv, SuccessInv, Received, Objects, Inners
<1>2. CountsBalanced
  <2>1. due \cap Counted = {} /\ overdrawn = {} /\ remaining = 0
    BY DEF Init
  <2>. QED BY <2>1, FS_EmptySet DEF CountsBalanced, Balance
<1>. QED BY OwnInit, AnswerInit, <1>1, <1>2 DEF MultiInv

THEOREM MultiInvariant == Spec => []MultiInv
<1>1. MultiInv /\ [Next]_vars => MultiInv'
  BY OwnStep, AnswerStep, CountsStep, BalanceStep, WaitStep, SuccessStep DEF MultiInv
<1>. QED BY MultiInit, <1>1, PTL DEF Spec

(* The types; `remaining' stays a size_t. *)
THEOREM TypeCorrect == Spec => []TypeOK
<1>1. MultiInv => TypeOK
  BY DEF MultiInv, OwnInv
<1>. QED BY <1>1, MultiInvariant, PTL

(* MultiContextT: every context of the library is released exactly once.    *)
THEOREM OwnershipCorrect == Spec => []OwnedOnce
<1>1. MultiInv => OwnedOnce
  BY DEF MultiInv, OwnInv
<1>. QED BY <1>1, MultiInvariant, PTL

(* EndureContext::add counts what EndureContext::submit will send.          *)
THEOREM EndureCountsCorrect == Spec => []EndureCounts
<1>1. MultiInv => EndureCounts
  BY DEF MultiInv
<1>. QED BY <1>1, MultiInvariant, PTL

(* By how much Client::remaining is off, after any history of endure,       *)
(* observe and statistics.                                                  *)
THEOREM BalanceCorrect == Spec => []CountsBalanced
<1>1. MultiInv => CountsBalanced
  BY DEF MultiInv
<1>. QED BY <1>1, MultiInvariant, PTL

(* Client::wait: complete for what is counted while nothing uncounted was   *)
(* answered, and for the rest while nothing was counted.                    *)
THEOREM WaitsComplete == Spec => WaitCompletes
<1>1. MultiInv /\ [Next]_vars
        => [loop /\ ~loop' =>
              /\ overdrawn = {} => due \cap Counted = {}
              /\ (\A i \in EndureInners : ilife[i] # "sent") => due = {}]_vars
  <2> SUFFICES ASSUME MultiInv, Next, loop, ~loop'
               PROVE  /\ overdrawn = {} => due \cap Counted = {}
                      /\ (\A i \in EndureInners : ilife[i] # "sent") => due = {}
    BY DEF vars, loopvars
  <2>1. Return
    BY DEF Next, Calls, Deliver, NewEndureContext, NewMultiContext, MctxObserve, MoveAssign,
       Add, DoneContext, BailContext, DestroyContext, ScheduleStats, Wait, EndureResponse,
       ObserveReply, ObserveFinal, StatsEntry, StatsFinal, loopvars
  <2>. QED BY <2>1 DEF Return, MultiInv, WaitInv
<1>. QED BY <1>1, MultiInvariant, PTL DEF Spec, WaitCompletes

(* ObserveResponse::handle_response: a success has all replies so far.      *)
THEOREM SuccessCorrect == Spec => []SuccessIsComplete
<1>1. MultiInv => SuccessIsComplete
  BY DEF MultiInv, SuccessInv, SuccessIsComplete
<1>. QED BY <1>1, MultiInvariant, PTL

(* ObserveResponse::handle_response: no later reply hides the first error.  *)
THEOREM FirstErrorStays == Spec => FirstErrorKept
<1>1. MultiInv /\ [Next]_vars
        => [\A i \in ObserveInners : status[i] \in Errors => status'[i] = status[i]]_vars
  <2> SUFFICES ASSUME MultiInv, Next, NEW i \in ObserveInners, status[i] \in Errors
               PROVE  status'[i] = status[i]
    OBVIOUS
  <2>1. status[i] \notin {"unset", "ok"}
    BY MultiAssumption
  <2>2. CASE Deliver
    <3>1. ASSUME NEW j \in ObserveInners, NEW c \in Cmds, NEW s \in Servers, NEW r \in Codes,
                 ObserveReply(j, c, s, r)
          PROVE  status'[i] = status[i]
      BY <2>1, <3>1 DEF ObserveReply, MultiInv, OwnInv, TypeOK
    <3>2. ASSUME NEW x \in StatsOps, NEW r \in Codes,
                 StatsFinal(x, r) \/ \E s \in Servers : StatsEntry(x, s, r)
          PROVE  status'[i] = status[i]
      BY <3>2, MultiAssumption DEF StatsFinal, StatsEntry, MultiInv, OwnInv, TypeOK
    <3>3. CASE (\E c \in Cmds : EndureResponse(c)) \/ \E j \in ObserveInners : ObserveFinal(j)
      BY <3>3 DEF EndureResponse, ObserveFinal, respvars
    <3>. QED BY <2>2, <3>1, <3>2, <3>3 DEF Deliver
  <2>3. CASE Calls \/ Return
    BY <2>3
    DEF Calls, NewEndureContext, NewMultiContext, MctxObserve, MoveAssign, Add, DoneContext,
        BailContext, DestroyContext, ScheduleStats, Wait, Return, respvars
  <2>. QED BY <2>2, <2>3 DEF Next
<1>. QED BY <1>1, MultiInvariant, PTL DEF Spec, FirstErrorKept

-----------------------------------------------------------------------------
(* The contexts of the library as resources in custody. *)

(* A context is open exactly while an object has it.                        *)
OpenIsHeld == \A i \in Inners : ilife[i] = "open" <=> Holding(i) # {}

LEMMA OpenHeld == MultiInv => OpenIsHeld
<1> SUFFICES ASSUME MultiInv, NEW i \in Inners
             PROVE  ilife[i] = "open" <=> \E o \in Objects : olife[o] = "live" /\ m_inner[o] = i
  BY DEF OpenIsHeld, Holding
<1>1. i # "none"
  BY MultiAssumption
<1>. QED BY <1>1 DEF MultiInv, OwnInv, OwnedOnce

LEMMA OpenHeldNext == MultiInv' => OpenIsHeld'
BY OpenHeld, PTL

Closed(i) == ilife[i] \in {"sent", "dropped"}

(* A context is closed once, when it has been open.                         *)
LEMMA ClosedOnce ==
  ASSUME MultiInv, [Next]_vars, NEW i \in Inners
  PROVE  Closed(i)' <=> Closed(i) \/ (ilife[i] = "open" /\ ilife'[i] # "open")
<1> USE DEF MultiInv, OwnInv, TypeOK, Closed, Inners
<1>1. CASE UNCHANGED vars \/ Deliver \/ Wait \/ Return
  <2>1. ilife' = ilife
    BY <1>1, LoopLeavesObjects DEF vars, libvars
  <2>. QED BY <2>1
<1>2. ASSUME NEW o \in Objects, NEW j \in Inners, ilife[j] = "unused",
             ilife' \in {ilife, [ilife EXCEPT ![j] = "open"]}
      PROVE  Closed(i)' <=> Closed(i) \/ (ilife[i] = "open" /\ ilife'[i] # "open")
  BY <1>2
<1>3. ASSUME NEW o \in EndureObjs, NEW j \in EndureInners, NewEndureContext(o, j)
      PROVE  Closed(i)' <=> Closed(i) \/ (ilife[i] = "open" /\ ilife'[i] # "open")
  BY <1>3 DEF NewEndureContext
<1>4. ASSUME NEW o \in ObserveObjs, NEW j \in ObserveInners, MctxObserve(o, j)
      PROVE  Closed(i)' <=> Closed(i) \/ (ilife[i] = "open" /\ ilife'[i] # "open")
  BY <1>4 DEF MctxObserve
<1>5. ASSUME NEW o \in Objects, DoneContext(o) \/ BailContext(o) \/ DestroyContext(o)
      PROVE  Closed(i)' <=> Closed(i) \/ (ilife[i] = "open" /\ ilife'[i] # "open")
  <2>1. m_inner[o] # "none" => ilife[m_inner[o]] = "open" /\ m_inner[o] \in Inners
    BY DEF OwnedOnce
  <2>2. CASE DoneContext(o)
    BY <2>1, <2>2 DEF DoneContext
  <2>3. CASE BailContext(o) \/ DestroyContext(o)
    BY <2>1, <2>3, MultiAssumption DEF BailContext, DestroyContext, BailInner
  <2>. QED BY <1>5, <2>2, <2>3
<1>6. CASE \/ \E o \in ObserveObjs : NewMultiContext(o)
           \/ \E o, other \in ObserveObjs : MoveAssign(o, other)
           \/ \E o \in Objects, c \in Cmds : Add(o, c)
           \/ \E x \in StatsOps : ScheduleStats(x)
  <2>1. ilife' = ilife
    BY <1>6 DEF NewMultiContext, MoveAssign, Add, ScheduleStats, libvars
  <2>. QED BY <2>1
<1>. QED BY <1>1, <1>3, <1>4, <1>5, <1>6 DEF Next, Calls

LEMMA HandingStep == MultiInv /\ MultiInv' /\ [Next]_vars => Handing!Next
<1> SUFFICES ASSUME MultiInv, MultiInv', [Next]_vars PROVE Handing!Next
  OBVIOUS
<1>1. \A i \in Inners : /\ ilife[i] = "open" <=> Holding(i) # {}
                        /\ ilife'[i] = "open" <=> Holding(i)' # {}
  BY OpenHeld, OpenHeldNext DEF OpenIsHeld
<1>2. ASSUME NEW i \in Inners
      PROVE  Closed(i)' <=> Closed(i) \/ (Holding(i) # {} /\ Holding(i)' = {})
  <2>1. Closed(i)' <=> Closed(i) \/ (ilife[i] = "open" /\ ilife'[i] # "open")
    BY ClosedOnce
  <2>. QED BY <1>1, <2>1
<1>3. \A i \in Inners : Closed(i) => Holding(i)' = {}
  BY <1>1, <1>2 DEF Closed
<1>. QED BY <1>2, <1>3 DEF Handing!Next, Closed

(* Every context that mctx_endure or mctx_observe made is sent or released  *)
(* in the step in which the object that has it, however often moved, lets   *)
(* it go: by done(), bail() or the destructor.                              *)
THEOREM HandingCorrect == Spec => ContextsHandedOn
<1>1. Init => Handing!Init
  <2> SUFFICES ASSUME Init PROVE Handing!Init
    OBVIOUS
  <2>1. \A i \in Inners : Holding(i) = {}
    BY DEF Init, Holding
  <2>2. {i \in Inners : ilife[i] \in {"sent", "dropped"}} = {}
    BY DEF Init
  <2>. QED BY <2>1, <2>2 DEF Handing!Init
<1>. QED BY <1>1, MultiInvariant, HandingStep, PTL DEF Spec, ContextsHandedOn, Handing!Spec

-----------------------------------------------------------------------------
(* Endure contexts keep the promise of Completion. *)

LEMMA SameEndured ==
  ASSUME \A c \in Cmds : c \in due' <=> c \in due,
         \A c \in Cmds : Sent(c)' <=> Sent(c),
         loop' = loop
  PROVE  UNCHANGED Endured!vars
BY DEF Endured!vars, Counted

(* What calls but done() and wait() do is of no concern to it. *)
LEMMA CallsStutter ==
  ASSUME MultiInv, Calls, ~Wait, \A o \in Objects : ~DoneContext(o)
  PROVE  UNCHANGED Endured!vars
<1> USE DEF MultiInv, OwnInv, TypeOK
<1>1. loop' = loop /\ \A c \in Cmds : c \in due' <=> c \in due
  <2>1. ASSUME NEW x \in StatsOps, ScheduleStats(x)
        PROVE  loop' = loop /\ \A c \in Cmds : c \in due' <=> c \in due
    BY <2>1, MultiAssumption DEF ScheduleStats, loopvars, Uncounted
  <2>2. CASE \A x \in StatsOps : ~ScheduleStats(x)
    BY <2>2 DEF Calls, NewEndureContext, NewMultiContext, MctxObserve, MoveAssign, Add,
       BailContext, DestroyContext, libvars, loopvars
  <2>. QED BY <2>1, <2>2
<1>2. ASSUME NEW i \in EndureInners
      PROVE  /\ ilife'[i] = "sent" <=> ilife[i] = "sent"
             /\ ilife[i] = "sent" => cmds'[i] = cmds[i]
  <2>1. i \in Inners
    BY DEF Inners
  <2>2. CASE \E o \in Objects, c \in Cmds : Add(o, c)
    <3>1. PICK o \in Objects, c \in Cmds : Add(o, c)
      BY <2>2
    <3>2. ilife' = ilife /\ ilife[m_inner[o]] = "open"
      BY <3>1 DEF Add, OwnedOnce
    <3>3. m_inner[o] # i => cmds'[i] = cmds[i]
      BY <2>1, <3>1 DEF Add
    <3>. QED BY <3>2, <3>3
  <2>3. CASE \A o \in Objects, c \in Cmds : ~Add(o, c)
    <3>1. cmds' = cmds
      BY <2>3 DEF Calls, NewEndureContext, NewMultiContext, MctxObserve, MoveAssign, BailContext,
                  DestroyContext, ScheduleStats, libvars
    <3>2. CASE \E o \in Objects : BailContext(o) \/ DestroyContext(o)
      BY <2>1, <3>1, <3>2, MultiAssumption DEF BailContext, DestroyContext, BailInner, OwnedOnce
    <3>3. ASSUME NEW o \in EndureObjs, NEW j \in EndureInners, NewEndureContext(o, j)
          PROVE  ilife'[i] = "sent" <=> ilife[i] = "sent"
      BY <2>1, <3>3 DEF NewEndureContext
    <3>4. ASSUME NEW o \in ObserveObjs, NEW j \in ObserveInners, MctxObserve(o, j)
          PROVE  ilife'[i] = "sent" <=> ilife[i] = "sent"
      BY <2>1, <3>4 DEF MctxObserve
    <3>5. CASE \/ \E o \in ObserveObjs : NewMultiContext(o)
               \/ \E o, other \in ObserveObjs : MoveAssign(o, other)
               \/ \E x \in StatsOps : ScheduleStats(x)
      BY <3>5 DEF NewMultiContext, MoveAssign, ScheduleStats, libvars
    <3>. QED BY <2>3, <3>1, <3>2, <3>3, <3>4, <3>5 DEF Calls
  <2>. QED BY <2>2, <2>3
<1>3. \A c \in Cmds : Sent(c)' <=> Sent(c)
  BY <1>2 DEF Sent
<1>. QED BY <1>1, <1>3, SameEndured

(* submit() submits what was added, at once and for the first time. *)
LEMMA DoneSubmits ==
  ASSUME MultiInv, NEW o \in Objects, DoneContext(o)
  PROVE  Endured!Next \/ UNCHANGED Endured!vars
<1> USE DEF MultiInv, OwnInv, TypeOK
<1> DEFINE i == m_inner[o]
<1>1. i \in Inners /\ ilife[i] = "open" /\ loop' = loop /\ cmds' = cmds
  BY DEF DoneContext, OwnedOnce
<1>2. CASE ilife' = [ilife EXCEPT ![i] = "dropped"] /\ due' = due
  <2>1. \A j \in EndureInners : ilife'[j] = "sent" <=> ilife[j] = "sent"
    BY <1>1, <1>2 DEF Inners
  <2>2. \A c \in Cmds : Sent(c)' <=> Sent(c)
    BY <1>1, <2>1 DEF Sent
  <2>. QED BY <1>1, <1>2, <2>2, SameEndured
<1>3. CASE ilife' = [ilife EXCEPT ![i] = "sent"] /\ due' = due \cup Responses(i)
  <2>1. CASE i \notin EndureInners
    <3>1. \A j \in EndureInners : ilife'[j] = "sent" <=> ilife[j] = "sent"
      BY <1>1, <1>3, <2>1 DEF Inners
    <3>2. \A c \in Cmds : Sent(c)' <=> Sent(c)
      BY <1>1, <3>1 DEF Sent
    <3>3. Responses(i) \cap Cmds = {}
      <4>1. Responses(i) \subseteq Uncounted
        BY <1>1, <2>1 DEF Responses, Uncounted, Inners
      <4>. QED BY <4>1, MultiAssumption
    <3>. QED BY <1>1, <1>3, <3>2, <3>3, SameEndured
  <2>2. CASE i \in EndureInners
    <3>1. due' = due \cup cmds[i] /\ cmds[i] \in SUBSET Cmds
      BY <1>1, <1>3, <2>2 DEF Responses
    <3>2. \A c \in cmds[i] : ~Sent(c) /\ c \notin due
      BY <1>1, <3>1 DEF AnswerInv, Sent, Inners
    <3>3. \A c \in Cmds : Sent(c)' <=> Sent(c) \/ c \in cmds[i]
      BY <1>1, <1>3, <2>2 DEF Sent, Inners
    <3>4. Endured!Submit(cmds[i])
      BY <1>1, <3>1, <3>2, <3>3 DEF Endured!Submit, Counted
    <3>. QED BY <3>1, <3>4 DEF Endured!Next
  <2>. QED BY <2>1, <2>2
<1>. QED BY <1>2, <1>3 DEF DoneContext

LEMMA DeliverAnswers ==
  ASSUME MultiInv, Deliver, overdrawn' = {}
  PROVE  Endured!Next \/ UNCHANGED Endured!vars
<1> USE DEF MultiInv, OwnInv, TypeOK
<1>1. ilife' = ilife /\ cmds' = cmds
  BY LoopLeavesObjects
<1>2. \A c \in Cmds : Sent(c)' <=> Sent(c)
  BY <1>1 DEF Sent
<1>3. ASSUME NEW c \in Cmds, EndureResponse(c)
      PROVE  Endured!Next
  <2>1. loop /\ loop' = loop /\ c \in due /\ due' = due \ {c}
    BY <1>3 DEF EndureResponse
  <2>2. Sent(c)
    BY <2>1 DEF AnswerInv, Sent
  <2>3. Endured!Answer(c)
    BY <1>2, <2>1, <2>2 DEF Endured!Answer, Counted
  <2>. QED BY <2>3 DEF Endured!Next
<1>4. ASSUME NEW x \in StatsOps, NEW s \in Servers, NEW r \in Codes, StatsEntry(x, s, r)
      PROVE  UNCHANGED Endured!vars
  <2>1. <<x, s>> \notin Cmds
    BY MultiAssumption DEF Uncounted
  <2>. QED BY <1>2, <1>4, <2>1, SameEndured DEF StatsEntry, loopvars
<1>5. ASSUME NEW x \in StatsOps, NEW r \in Codes, StatsFinal(x, r)
      PROVE  UNCHANGED Endured!vars
  <2>1. x \notin Cmds
    BY MultiAssumption
  <2>. QED BY <1>2, <1>5, <2>1, SameEndured DEF StatsFinal
<1>6. ASSUME \/ \E i \in ObserveInners, c \in Cmds, s \in Servers, r \in Codes :
                  ObserveReply(i, c, s, r)
             \/ \E i \in ObserveInners : ObserveFinal(i)
      PROVE  FALSE
  BY <1>6 DEF ObserveReply, ObserveFinal
<1>. QED BY <1>3, <1>4, <1>5, <1>6 DEF Deliver

(* As long as nothing is counted off that was not counted, what endure      *)
(* contexts submit is answered once each, while the application waits, and  *)
(* it waits until then.                                                     *)
THEOREM EndurePromise == Spec => EnduresComplete
<1>1. MultiInv /\ [Next]_vars
        => [overdrawn' = {} => Endured!Next \/ UNCHANGED Endured!vars]_vars
  <2> SUFFICES ASSUME MultiInv, Next, overdrawn' = {}
               PROVE  Endured!Next \/ UNCHANGED Endured!vars
    OBVIOUS
  <2>1. CASE Wait
    <3>1. Endured!Enter({})
      BY <2>1 DEF Wait, libvars, Sent, Endured!Enter
    <3>. QED BY <3>1 DEF Endured!Next
  <2>2. CASE Return
    <3>1. due \cap Counted = {}
      BY <2>2 DEF Return, MultiInv, WaitInv
    <3>2. Endured!Leave
      BY <2>2, <3>1 DEF Return, libvars, Sent, Endured!Leave
    <3>. QED BY <3>2 DEF Endured!Next
  <2>. QED BY <2>1, <2>2, CallsStutter, DoneSubmits, DeliverAnswers DEF Next
<1>. QED BY <1>1, MultiInvariant, PTL DEF Spec, EnduresComplete

=============================================================================
