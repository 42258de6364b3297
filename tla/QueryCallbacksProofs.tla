------------------------ MODULE QueryCallbacksProofs ------------------------
(***************************************************************************)
(* Proofs about QueryCallbacks, for an application that issues its queries *)
(* with commands that are no copies.  The three invariants support each    *)
(* other: a cancel ends the right request because handles are valid, and   *)
(* what is destroyed was cancelled because what is open is active.         *)
(***************************************************************************)
EXTENDS QueryCallbacks, TLAPS

(* A query is issued once: not again in its callback or afterwards. *)
IssuedOnce ==
  /\ \A q \in Queries : m_done[q] \/ running = q => qlife[q] # "unborn"
  /\ final => running \in Queries \ open

CallbackInv ==
  TypeOK /\ HandlesValid /\ NoDanglingCallback /\ ActiveWhileOpen /\ IssuedOnce

LEMMA CallbackInit == Init => CallbackInv
<1> SUFFICES ASSUME Init PROVE CallbackInv
  OBVIOUS
<1>1. 0 \in 0 .. MaxRows
  BY CallbacksAssumption
<1>2. TypeOK
  BY <1>1 DEF Init, TypeOK
<1>3. HandlesValid /\ NoDanglingCallback /\ ActiveWhileOpen /\ IssuedOnce
  BY CallbacksAssumption DEF Init, HandlesValid, NoDanglingCallback, ActiveWhileOpen, IssuedOnce
<1>. QED BY <1>2, <1>3 DEF CallbackInv

(* What stop() and the destructor of a view query do to the queries. *)
LEMMA CancelStep ==
  ASSUME CallbackInv, NEW q \in ViewQueries,
         open' = open \ Cancelled(q),
         requests' = requests \ Cancelled(q),
         vh' = [vh EXCEPT ![q] = "none"],
         m_done' = m_done,
         \A p \in Queries \ {q} : qlife'[p] = qlife[p],
         vh[q] # "none" \/ qlife'[q] # "live" => q \notin open'
  PROVE  HandlesValid' /\ NoDanglingCallback' /\ ActiveWhileOpen'
<1> USE CallbacksAssumption DEF CallbackInv
<1>q. q \in Queries
  OBVIOUS
<1>1. Cancelled(q) \subseteq {q}
  BY <1>q DEF Cancelled, HandlesValid
<1>2. HandlesValid'
  BY <1>1, <1>q DEF HandlesValid, TypeOK
<1>3. q \notin open'
  <2>1. CASE vh[q] = "none"
    BY <2>1, <1>q DEF ActiveWhileOpen, Active
  <2>2. CASE vh[q] # "none"
    BY <2>2
  <2>. QED BY <2>1, <2>2
<1>4. \A p \in open' : p # q /\ p \in open
  BY <1>3
<1>5. NoDanglingCallback'
  BY <1>4 DEF NoDanglingCallback, TypeOK
<1>6. ActiveWhileOpen'
  BY <1>4 DEF ActiveWhileOpen, Active, TypeOK
<1>. QED BY <1>2, <1>5, <1>6

LEMMA IssuedOnceStep ==
  ASSUME TypeOK, HandlesValid, NoDanglingCallback, IssuedOnce, [Next]_vars
  PROVE  IssuedOnce'
<1> USE CallbacksAssumption
<1>1. CASE \E q \in Queries : RowCallback(q) \/ DoneCallback(q)
  BY <1>1 DEF RowCallback, DoneCallback, IssuedOnce, NoDanglingCallback, TypeOK, queryvars
<1>2. CASE CallbackReturns
  BY <1>2 DEF CallbackReturns, IssuedOnce, TypeOK
<1>3. CASE ~(\E q \in Queries : RowCallback(q) \/ DoneCallback(q)) /\ ~CallbackReturns
  <2>1. m_done' = m_done /\ running' = running /\ final' = final
    BY <1>3 DEF Next, NewCommand, DestroyCommand, CopyCommand, NewViewQuery, NewN1qlQuery,
       Stop, DestroyViewQuery, DestroyN1qlQuery, Wait, Return, vars, queryvars, cbvars
  <2>2. \A q \in Queries : qlife[q] # "unborn" => qlife'[q] # "unborn"
    BY <1>3 DEF Next, NewCommand, DestroyCommand, CopyCommand, NewViewQuery, NewN1qlQuery,
       Stop, DestroyViewQuery, DestroyN1qlQuery, Wait, Return, vars, queryvars, TypeOK
  <2>3. \A q \in Queries : q \in open' => q \in open \/ qlife[q] = "unborn"
    BY <1>3 DEF Next, NewCommand, DestroyCommand, CopyCommand, NewViewQuery, NewN1qlQuery,
       Stop, DestroyViewQuery, DestroyN1qlQuery, Wait, Return, vars, libvars
  <2>4. final => running \in Queries \ open'
    BY <2>3 DEF IssuedOnce
  <2>. QED BY <2>1, <2>2, <2>4 DEF IssuedOnce
<1>. QED BY <1>1, <1>2, <1>3

LEMMA CallbackStep ==
  ASSUME ~UseCopies
  PROVE  CallbackInv /\ [Next]_vars => CallbackInv'
<1> SUFFICES ASSUME CallbackInv, [Next]_vars PROVE CallbackInv'
  OBVIOUS
<1> USE CallbacksAssumption
<1>a. TypeOK /\ HandlesValid /\ NoDanglingCallback /\ ActiveWhileOpen /\ IssuedOnce
  BY DEF CallbackInv
<1>d. IssuedOnce'
  BY <1>a, IssuedOnceStep
<1>1. ASSUME NEW c \in Commands, NewCommand(c) \/ DestroyCommand(c)
      PROVE  CallbackInv'
  BY <1>1, <1>a, <1>d DEF NewCommand, DestroyCommand, CallbackInv, TypeOK, HandlesValid,
     NoDanglingCallback, ActiveWhileOpen, Active, queryvars, libvars, cbvars
<1>2. ASSUME NEW c \in Commands, NEW other \in Commands, CopyCommand(c, other)
      PROVE  CallbackInv'
  BY <1>2, <1>a, <1>d DEF CopyCommand, CallbackInv, TypeOK, HandlesValid,
     NoDanglingCallback, ActiveWhileOpen, Active, queryvars, libvars, cbvars
<1>3. ASSUME NEW q \in Queries, NEW c \in Commands, NewViewQuery(q, c)
      PROVE  CallbackInv'
  <2>1. TypeOK'
    BY <1>3, <1>a DEF NewViewQuery, TypeOK, cbvars
  <2>2. CASE qlife' = [qlife EXCEPT ![q] = "refused"] /\ UNCHANGED <<vhptr, vh, open, requests>>
    <3>1. q \notin open
      BY <1>3, <1>a DEF NewViewQuery, NoDanglingCallback
    <3>. QED BY <1>3, <1>a, <1>d, <2>1, <2>2, <3>1
      DEF NewViewQuery, CallbackInv, TypeOK, HandlesValid, NoDanglingCallback,
          ActiveWhileOpen, Active
  <2>3. CASE /\ vhptr' = [vhptr EXCEPT ![handle[c]] = q]
             /\ open' = open \cup {q}
             /\ requests' = requests \cup {q}
             /\ qlife' = [qlife EXCEPT ![q] = "live"]
             /\ vh' = [vh EXCEPT ![q] = vhptr'[c]]
    <3>1. vhptr'[c] = q
      BY <1>3, <2>3, <1>a DEF NewViewQuery, TypeOK
    <3>2. vh' = [vh EXCEPT ![q] = q]
      BY <2>3, <3>1
    <3>3. q # "none" /\ m_done' = m_done /\ q \in ViewQueries
      BY <1>3 DEF NewViewQuery
    <3>4. HandlesValid'
      BY <2>3, <3>2, <1>a DEF HandlesValid, TypeOK
    <3>5. NoDanglingCallback'
      BY <2>3, <1>a DEF NoDanglingCallback, TypeOK
    <3>6. ActiveWhileOpen'
      BY <2>3, <3>2, <3>3, <1>a DEF ActiveWhileOpen, Active, TypeOK
    <3>. QED BY <1>d, <2>1, <3>4, <3>5, <3>6 DEF CallbackInv
  <2>. QED BY <1>3, <2>2, <2>3 DEF NewViewQuery
<1>4. ASSUME NEW q \in Queries, NewN1qlQuery(q)
      PROVE  CallbackInv'
  <2>1. TypeOK'
    BY <1>4, <1>a DEF NewN1qlQuery, TypeOK, cmdvars, cbvars
  <2>2. q \notin open
    BY <1>4, <1>a DEF NewN1qlQuery, NoDanglingCallback
  <2>3. vh' = vh /\ m_done' = m_done /\ requests' = requests
    BY <1>4 DEF NewN1qlQuery
  <2>4. HandlesValid'
    BY <2>3, <1>a DEF HandlesValid
  <2>5. NoDanglingCallback'
    BY <1>4, <2>2, <1>a DEF NewN1qlQuery, NoDanglingCallback, TypeOK
  <2>6. ActiveWhileOpen'
    <3>1. CASE open' = open
      BY <3>1, <2>3, <1>a DEF ActiveWhileOpen, Active
    <3>2. CASE open' = open \cup {q}
      BY <3>2, <2>3, <1>4, <1>a DEF ActiveWhileOpen, Active, IssuedOnce, NewN1qlQuery
    <3>. QED BY <1>4, <3>1, <3>2 DEF NewN1qlQuery
  <2>. QED BY <1>d, <2>1, <2>4, <2>5, <2>6 DEF CallbackInv
<1>5. ASSUME NEW q \in Queries, Stop(q)
      PROVE  CallbackInv'
  <2>1. TypeOK'
    BY <1>5, <1>a DEF Stop, TypeOK, cmdvars, cbvars
  <2>2. q \in ViewQueries /\ vh[q] # "none"
    BY <1>5 DEF Stop, Active
  <2>3. q \notin open'
    BY <1>5, <2>2, <1>a DEF Stop, Cancelled, HandlesValid
  <2>4. HandlesValid' /\ NoDanglingCallback' /\ ActiveWhileOpen'
    BY <1>5, <2>2, <2>3, CancelStep DEF Stop
  <2>. QED BY <1>d, <2>1, <2>4 DEF CallbackInv
<1>6. ASSUME NEW q \in Queries, DestroyViewQuery(q)
      PROVE  CallbackInv'
  <2>1. TypeOK'
    BY <1>6, <1>a DEF DestroyViewQuery, TypeOK, cmdvars, cbvars
  <2>2. q \in ViewQueries
    BY <1>6 DEF DestroyViewQuery
  <2>3. q \notin open'
    BY <1>6, <2>2, <1>a DEF DestroyViewQuery, Cancelled, HandlesValid, ActiveWhileOpen, Active
  <2>4. \A p \in Queries \ {q} : qlife'[p] = qlife[p]
    BY <1>6, <1>a DEF DestroyViewQuery, TypeOK
  <2>5. HandlesValid' /\ NoDanglingCallback' /\ ActiveWhileOpen'
    BY <1>6, <2>2, <2>3, <2>4, CancelStep DEF DestroyViewQuery
  <2>. QED BY <1>d, <2>1, <2>5 DEF CallbackInv
<1>7. ASSUME NEW q \in Queries, DestroyN1qlQuery(q)
      PROVE  CallbackInv'
  <2>1. q \notin open
    BY <1>7, <1>a DEF DestroyN1qlQuery, NoDanglingCallback, ActiveWhileOpen
  <2>. QED BY <1>7, <2>1, <1>a, <1>d DEF DestroyN1qlQuery, CallbackInv, TypeOK, HandlesValid,
     NoDanglingCallback, ActiveWhileOpen, Active, libvars, cmdvars, cbvars
<1>8. ASSUME NEW q \in Queries, RowCallback(q)
      PROVE  CallbackInv'
  BY <1>8, <1>a, <1>d DEF RowCallback, CallbackInv, TypeOK, HandlesValid,
     NoDanglingCallback, ActiveWhileOpen, Active, cmdvars, queryvars
<1>9. ASSUME NEW q \in Queries, DoneCallback(q)
      PROVE  CallbackInv'
  BY <1>9, <1>a, <1>d DEF DoneCallback, CallbackInv, TypeOK, HandlesValid,
     NoDanglingCallback, ActiveWhileOpen, Active, cmdvars
<1>10. ASSUME Wait \/ Return PROVE CallbackInv'
  <2>1. TypeOK'
    BY <1>10, <1>a DEF Wait, Return, TypeOK, cmdvars, queryvars, libvars
  <2>2. vh' = vh /\ requests' = requests /\ open' = open /\ qlife' = qlife /\ m_done' = m_done
    BY <1>10 DEF Wait, Return, queryvars, libvars
  <2>. QED BY <2>1, <2>2, <1>a, <1>d
     DEF CallbackInv, HandlesValid, NoDanglingCallback, ActiveWhileOpen, Active
<1>11. ASSUME CallbackReturns PROVE CallbackInv'
  <2>1. open' = open /\ qlife' = qlife /\ m_done' = m_done /\ running \in Queries
    BY <1>11, <1>a DEF CallbackReturns, TypeOK
  <2>2. CASE ~final
    <3>1. vh' = vh /\ requests' = requests
      BY <1>11, <2>2 DEF CallbackReturns
    <3>2. TypeOK'
      BY <1>11, <1>a, <3>1, CallbacksAssumption DEF CallbackReturns, TypeOK, cmdvars
    <3>. QED BY <3>1, <3>2, <2>1, <1>a, <1>d
       DEF CallbackInv, HandlesValid, NoDanglingCallback, ActiveWhileOpen, Active
  <2>3. CASE final
    <3>1. vh' = [vh EXCEPT ![running] = "none"] /\ requests' = requests \ {running}
      BY <1>11, <2>3 DEF CallbackReturns
    <3>2. TypeOK'
      <4>1. vh' \in [Queries -> ViewQueries \cup {"none"}] /\ requests' \in SUBSET ViewQueries
        BY <3>1, <1>a DEF TypeOK
      <4>. QED BY <1>11, <1>a, <4>1 DEF CallbackReturns, TypeOK, cmdvars
    <3>3. HandlesValid'
      BY <3>1, <2>1, <1>a DEF HandlesValid, TypeOK
    <3>4. ActiveWhileOpen'
      BY <3>1, <2>1, <2>3, <1>a DEF ActiveWhileOpen, Active, TypeOK, IssuedOnce
    <3>. QED BY <3>2, <3>3, <3>4, <2>1, <1>a, <1>d DEF CallbackInv, NoDanglingCallback
  <2>. QED BY <2>2, <2>3
<1>12. ASSUME UNCHANGED vars PROVE CallbackInv'
  BY <1>12, <1>a, <1>d DEF vars, cmdvars, queryvars, libvars, cbvars, CallbackInv, TypeOK,
     HandlesValid, NoDanglingCallback, ActiveWhileOpen, Active
<1>. QED
  BY <1>1, <1>2, <1>3, <1>4, <1>5, <1>6, <1>7, <1>8, <1>9, <1>10, <1>11, <1>12 DEF Next

(* Only an open query has a callback called, and it is active. *)
LEMMA SilentStep ==
  ASSUME CallbackInv, [Next]_vars
  PROVE  \A q \in Queries : ~Active(q) \/ qlife[q] = "dead"
           => ~(running' = q /\ running # q)
<1> SUFFICES ASSUME NEW q \in Queries, running' = q, running # q
             PROVE  Active(q) /\ qlife[q] # "dead"
  OBVIOUS
<1>1. q \in open
  <2>1. RowCallback(q) \/ DoneCallback(q)
    BY CallbacksAssumption
    DEF Next, NewCommand, DestroyCommand, CopyCommand, NewViewQuery, NewN1qlQuery,
        Stop, DestroyViewQuery, DestroyN1qlQuery, Wait, Return, vars, cbvars,
        CallbackReturns, RowCallback, DoneCallback
  <2>. QED BY <2>1 DEF RowCallback, DoneCallback
<1>. QED BY <1>1 DEF CallbackInv, ActiveWhileOpen, NoDanglingCallback

THEOREM CallbackInvariant ==
  ASSUME ~UseCopies
  PROVE  Spec => []CallbackInv
<1>1. CallbackInv /\ [Next]_vars => CallbackInv'
  BY CallbackStep
<1>. QED BY CallbackInit, <1>1, PTL DEF Spec

(* The types of all variables. *)
THEOREM TypeCorrect ==
  ASSUME ~UseCopies
  PROVE  Spec => []TypeOK
<1>1. CallbackInv => TypeOK
  BY DEF CallbackInv
<1>. QED BY <1>1, CallbackInvariant, PTL

(* CallbackViewQuery::stop and the destructor (views.inl.h) cancel the      *)
(* query's own request, and one the library still has.                      *)
THEOREM HandlesStayValid ==
  ASSUME ~UseCopies
  PROVE  Spec => []HandlesValid
<1>1. CallbackInv => HandlesValid
  BY DEF CallbackInv
<1>. QED BY <1>1, CallbackInvariant, PTL

(* viewcb and n1qlcb are only called with queries that exist. *)
THEOREM CallbacksLive ==
  ASSUME ~UseCopies
  PROVE  Spec => []NoDanglingCallback
<1>1. CallbackInv => NoDanglingCallback
  BY DEF CallbackInv
<1>. QED BY <1>1, CallbackInvariant, PTL

(* A query with responses to come is active(). *)
THEOREM OpenIsActive ==
  ASSUME ~UseCopies
  PROVE  Spec => []ActiveWhileOpen
<1>1. CallbackInv => ActiveWhileOpen
  BY DEF CallbackInv
<1>. QED BY <1>1, CallbackInvariant, PTL

(* No callback of a query after it was stopped or destroyed. *)
THEOREM StopIsSilent ==
  ASSUME ~UseCopies
  PROVE  Spec => StoppedIsSilent
<1>1. CallbackInv /\ [Next]_vars
        => [\A q \in Queries : ~Active(q) \/ qlife[q] = "dead"
              => ~(running' = q /\ running # q)]_vars
  BY SilentStep
<1>. QED BY <1>1, CallbackInvariant, PTL DEF Spec, StoppedIsSilent

=============================================================================
