---------------------------- MODULE ClientProofs ----------------------------
(***************************************************************************)
(* Proofs about Client, for every set of operations and contexts.          *)
(*                                                                         *)
(* BatchInv makes the types and the batch's own count inductive; OpInv     *)
(* says how far each operation has come; on these two rest the books of    *)
(* Client::remaining (RemainingDrift).  WaitInv is what wait() and the     *)
(* cookies need; it lasts until run() sends something (AllCounted).        *)
(***************************************************************************)
EXTENDS Client, FiniteSetTheorems, TLAPS

-----------------------------------------------------------------------------
(* The inductive invariants. *)

OneActive ==
  /\ \A c, d \in Contexts : entered[c] /\ entered[d] => c = d
  /\ \A c \in Contexts : entered[c] => life[c] = "live"

BatchInv == TypeOK /\ BatchCounts /\ OneActive

(* The library has not seen op, or not beyond its scheduling context. *)
Fresh(op) == op \notin pending /\ cur # op /\ rc[op] = "unset" /\ ~m_done[op]

OpInv ==
  /\ \A op \in Ops : owner[op] = "unused" \/ op \in queued => Fresh(op)
  /\ \A op \in pending : ~m_done[op]
  /\ cur \in Ops => rc[cur] # "unset"
  /\ cur \in Ops \ StatsOps => cur \notin pending
  /\ \A op \in Ops : owner[op] \in Contexts => life[owner[op]] # "unborn"
  /\ "run" \notin Uses => \A op \in Ops : owner[op] # "run"
  /\ "callback_stats" \notin Uses =>
       \A op \in StatsOps : owner[op] \notin CallbackContexts

(* Whom the library may still call, while nothing was sent through run(). *)
Reachable(op) ==
  \/ owner[op] \in Contexts /\ owner[op] \in unwaited /\ life[owner[op]] = "live"
  \/ owner[op] = "endure" /\ call = op

WaitInv ==
  /\ \A op \in Outstanding : Reachable(op)
  /\ \A c \in Contexts : entered[c] => life[c] = "live"
  /\ call = "none" => cur = "none" /\ ~stop
  /\ stop => pending = {} /\ cur = "none"

-----------------------------------------------------------------------------
(* Facts about finite sets of operations. *)

LEMMA OpsCardinality ==
  ASSUME NEW S, S \subseteq Ops
  PROVE  IsFiniteSet(S) /\ Cardinality(S) \in Nat /\ Cardinality(S) < Word
<1>1. IsFiniteSet(S) /\ Cardinality(S) <= Cardinality(Ops)
  BY FS_Subset, ClientAssumption
<1>2. Cardinality(S) \in Nat /\ Cardinality(Ops) \in Nat
  BY <1>1, FS_CardinalityType, ClientAssumption
<1>3. QED
  BY <1>1, <1>2, ClientAssumption

(* Two disjoint sets of operations are together smaller than Word. *)
LEMMA DisjointCardinality ==
  ASSUME NEW S, NEW T, S \subseteq Ops, T \subseteq Ops, S \cap T = {}
  PROVE  /\ Cardinality(S \cup T) = Cardinality(S) + Cardinality(T)
         /\ Cardinality(S) + Cardinality(T) < Word
<1>1. IsFiniteSet(S) /\ IsFiniteSet(T) /\ S \cup T \subseteq Ops
  BY OpsCardinality
<1>2. /\ Cardinality(S) \in Nat /\ Cardinality(T) \in Nat
      /\ Cardinality(S \cup T) \in Nat /\ Cardinality(S \cup T) < Word
  BY <1>1, OpsCardinality
<1>3. Cardinality(S \cup T) = Cardinality(S) + Cardinality(T) - Cardinality({})
  BY <1>1, FS_Union
<1>4. QED
  BY <1>2, <1>3, FS_EmptySet

LEMMA AddOp ==
  ASSUME NEW S, S \subseteq Ops, NEW op \in Ops, op \notin S
  PROVE  Cardinality(S \cup {op}) = Cardinality(S) + 1
BY OpsCardinality, FS_AddElement

LEMMA RemoveOp ==
  ASSUME NEW S, S \subseteq Ops, NEW op \in S
  PROVE  Cardinality(S \ {op}) = Cardinality(S) - 1
BY OpsCardinality, FS_RemoveElement

-----------------------------------------------------------------------------
(* Types and the batch's own count. *)

LEMMA BatchInit == Init => BatchInv
<1> SUFFICES ASSUME Init PROVE BatchInv
  OBVIOUS
<1>1. TypeOK
  <2>1. 0 \in 0 .. Word - 1
    <3>1. Cardinality({}) \in Nat /\ Cardinality({}) < Word
      BY OpsCardinality
    <3>2. QED
      BY <3>1, ClientAssumption
  <2>2. QED
    BY <2>1 DEF Init, TypeOK
<1>2. BatchCounts /\ OneActive
  BY DEF Init, BatchCounts, OneActive
<1>3. QED
  BY <1>1, <1>2 DEF BatchInv

LEMMA BatchStep == BatchInv /\ [Next]_vars => BatchInv'
<1> SUFFICES ASSUME BatchInv, [Next]_vars
             PROVE  BatchInv'
  OBVIOUS
<1> USE ClientAssumption DEF BatchInv, TypeOK, BatchCounts, OneActive
<1>0. queued \subseteq Ops /\ Cardinality(queued) \in Nat /\ Cardinality({}) = 0
  BY OpsCardinality, FS_EmptySet
<1>1. CASE Connect
  BY <1>1 DEF Connect, libvars, ctxvars, opvars
<1>2. CASE DestroyClient
  BY <1>2 DEF DestroyClient, libvars, ctxvars, opvars
<1>3. ASSUME NEW c \in Contexts, NewContext(c)
      PROVE  BatchInv'
  BY <1>0, <1>3 DEF NewContext, NoneActive, libvars, opvars
<1>4. ASSUME NEW c \in Contexts, Reset(c)
      PROVE  BatchInv'
  BY <1>0, <1>4 DEF Reset, NoneActive, libvars, opvars
<1>5. ASSUME NEW c \in Contexts, NEW op \in Ops, Add(c, op)
      PROVE  BatchInv'
  <2>1. op \notin queued
    BY <1>5 DEF Add
  <2>2. Cardinality(queued \cup {op}) = Cardinality(queued) + 1
    BY <2>1, AddOp
  <2>3. TypeOK'
    BY <1>0, <1>5 DEF Add
  <2>4. BatchCounts' /\ OneActive'
    <3>1. \A d \in Contexts : entered[d] => d = c
      BY <1>5 DEF Add
    <3>2. CASE /\ queued' = queued \cup {op}
               /\ m_remaining' = [m_remaining EXCEPT ![c] = @ + 1]
      BY <1>0, <1>5, <2>2, <3>1, <3>2 DEF Add
    <3>3. CASE UNCHANGED <<queued, m_remaining>>
      BY <1>0, <1>5, <2>1, <3>3 DEF Add
    <3>4. QED
      BY <1>5, <3>2, <3>3 DEF Add
  <2>5. QED
    BY <2>3, <2>4
<1>6. ASSUME NEW c \in Contexts, Submit(c)
      PROVE  BatchInv'
  <2>1. m_remaining[c] \in 0 .. Word - 1
    BY <1>6, OpsCardinality DEF Submit
  <2>2. SizeAdd(remaining, m_remaining[c]) \in 0 .. Word - 1
    BY <2>1 DEF SizeAdd
  <2>3. QED
    BY <1>0, <1>6, <2>2 DEF Submit, opvars
<1>7. ASSUME NEW c \in Contexts, Bail(c)
      PROVE  BatchInv'
  BY <1>0, <1>7 DEF Bail, opvars
<1>8. ASSUME NEW c \in Contexts, DestroyContext(c)
      PROVE  BatchInv'
  BY <1>0, <1>8 DEF DestroyContext, opvars
<1>9. ASSUME NEW w \in Queries \cup {"wait"}, Wait(w)
     PROVE  BatchInv'
  BY <1>9 DEF Wait, ctxvars, opvars
<1>10. ASSUME NEW op \in Ops, Run(op)
       PROVE  BatchInv'
  BY <1>0, <1>10 DEF Run, NoneActive, ctxvars
<1>11. ASSUME NEW op \in Ops, Endure(op)
       PROVE  BatchInv'
  <2>1. SizeAdd(remaining, 1) \in 0 .. Word - 1
    BY <1>0, OpsCardinality DEF SizeAdd
  <2>2. QED
    BY <1>0, <1>11, <2>1 DEF Endure, NoneActive, ctxvars
<1>12. CASE Return(pending = {})
  BY <1>12 DEF Return, opvars
<1>13. ASSUME NEW op \in Ops, HandleSingle(op)
       PROVE  BatchInv'
  BY <1>13 DEF HandleSingle, Deliver, ctxvars
<1>14. ASSUME NEW op \in Ops, HandleStats(op)
       PROVE  BatchInv'
  BY <1>14 DEF HandleStats, Deliver, ctxvars
<1>15. CASE FinishDispatch
  <2>1. SizeDec(remaining) \in 0 .. Word - 1
    BY DEF SizeDec
  <2>2. QED
    BY <1>15, <2>1 DEF FinishDispatch, ctxvars, opvars
<1>16. CASE UNCHANGED vars
  BY <1>16 DEF vars, libvars, ctxvars, opvars
<1>17. CASE Breakout
  BY <1>17 DEF Breakout, ctxvars, opvars
<1>18. ASSUME NEW c \in Contexts, NEW d \in Contexts, MoveContext(d, c)
      PROVE  BatchInv'
  <2>1. TypeOK'
    <3>1. life' \in [Contexts -> {"unborn", "live", "dead"}]
          /\ entered' \in [Contexts -> BOOLEAN] /\ m_remaining' \in [Contexts -> Nat]
      BY <1>18 DEF MoveContext
    <3>2. unwaited' \in SUBSET Contexts
      BY <1>18 DEF MoveContext
    <3>3. owner' \in [Ops -> Contexts \cup {"unused", "run", "endure", "gone"}]
      BY <1>18 DEF MoveContext
    <3>4. QED
      BY <1>18, <3>1, <3>2, <3>3 DEF MoveContext, libvars
  <2>2. \A e \in Contexts : entered'[e] =>
          \/ e = d /\ entered[c] /\ m_remaining'[e] = m_remaining[c]
          \/ e # c /\ e # d /\ entered[e] /\ m_remaining'[e] = m_remaining[e]
    BY <1>18 DEF MoveContext
  <2>3. OneActive'
    BY <1>18, <2>2 DEF MoveContext
  <2>4. BatchCounts'
    <3>1. queued' = queued
      BY <1>18 DEF MoveContext, libvars
    <3>2. \A op \in queued : owner'[op] \in Contexts /\ entered'[owner'[op]]
      <4> SUFFICES ASSUME NEW op \in queued
                   PROVE  owner'[op] \in Contexts /\ entered'[owner'[op]]
        OBVIOUS
      <4>1. op \in Ops /\ owner[op] \in Contexts /\ entered[owner[op]] /\ owner[op] # d
        BY <1>18 DEF MoveContext
      <4>2. owner'[op] = IF owner[op] = c THEN d ELSE owner[op]
        BY <1>18, <4>1 DEF MoveContext
      <4>3. QED
        BY <1>18, <4>1, <4>2 DEF MoveContext
    <3>3. QED
      BY <2>2, <3>1, <3>2
  <2>5. QED
    BY <2>1, <2>3, <2>4
<1>19. QED
  BY <1>1, <1>2, <1>3, <1>4, <1>5, <1>6, <1>7, <1>8, <1>9, <1>10, <1>11,
     <1>12, <1>13, <1>14, <1>15, <1>16, <1>17, <1>18 DEF Next, Calls, Terminated

(* Every variable keeps its type; above all, Client::remaining and the sums *)
(* made of it stay within a size_t of Word values.                          *)
THEOREM TypeCorrect == Spec => []TypeOK
<1>1. BatchInv => TypeOK
  BY DEF BatchInv
<1>2. QED
  BY BatchInit, BatchStep, <1>1, PTL DEF Spec

(* An active batch has counted exactly what its submit() will send. *)
THEOREM BatchCountsCorrect == Spec => []BatchCounts
<1>1. BatchInv => BatchCounts
  BY DEF BatchInv
<1>2. QED
  BY BatchInit, BatchStep, <1>1, PTL DEF Spec

-----------------------------------------------------------------------------
(* How far each operation has come. *)

LEMMA OpInit == Init => OpInv
BY ClientAssumption DEF Init, OpInv, Fresh

LEMMA OpStep == BatchInv /\ OpInv /\ [Next]_vars => OpInv'
<1> SUFFICES ASSUME BatchInv, OpInv, [Next]_vars
             PROVE  OpInv'
  OBVIOUS
<1> USE ClientAssumption DEF BatchInv, TypeOK, BatchCounts, OpInv, Fresh
<1>1. CASE Connect
  BY <1>1 DEF Connect, libvars, ctxvars, opvars
<1>2. CASE DestroyClient
  BY <1>2 DEF DestroyClient, libvars, ctxvars, opvars
<1>3. ASSUME NEW c \in Contexts, NewContext(c)
      PROVE  OpInv'
  BY <1>3 DEF NewContext, libvars, opvars
<1>4. ASSUME NEW c \in Contexts, Reset(c)
      PROVE  OpInv'
  BY <1>4 DEF Reset, libvars, opvars
<1>5. ASSUME NEW c \in Contexts, NEW op \in Ops, Add(c, op)
      PROVE  OpInv'
  BY <1>5 DEF Add, OneActive
<1>6. ASSUME NEW c \in Contexts, Submit(c)
      PROVE  OpInv'
  BY <1>6 DEF Submit, opvars
<1>7. ASSUME NEW c \in Contexts, Bail(c)
      PROVE  OpInv'
  BY <1>7 DEF Bail, opvars
<1>8. ASSUME NEW c \in Contexts, DestroyContext(c)
      PROVE  OpInv'
  BY <1>8 DEF DestroyContext, opvars
<1>9. ASSUME NEW w \in Queries \cup {"wait"}, Wait(w)
     PROVE  OpInv'
  BY <1>9 DEF Wait, ctxvars, opvars
<1>10. ASSUME NEW op \in Ops, Run(op)
       PROVE  OpInv'
  BY <1>10 DEF Run, NoneActive, ctxvars
<1>11. ASSUME NEW op \in Ops, Endure(op)
       PROVE  OpInv'
  BY <1>11 DEF Endure, NoneActive, ctxvars
<1>12. CASE Return(pending = {})
  BY <1>12 DEF Return, opvars
<1>13. ASSUME NEW op \in Ops, HandleSingle(op)
       PROVE  OpInv'
  BY <1>13 DEF HandleSingle, Deliver, ctxvars
<1>14. ASSUME NEW op \in Ops, HandleStats(op)
       PROVE  OpInv'
  BY <1>14 DEF HandleStats, Deliver, ctxvars
<1>15. CASE FinishDispatch
  BY <1>15 DEF FinishDispatch, ctxvars, opvars
<1>16. CASE UNCHANGED vars
  BY <1>16 DEF vars, libvars, ctxvars, opvars
<1>17. CASE Breakout
  BY <1>17 DEF Breakout, ctxvars, opvars
<1>18. ASSUME NEW c \in Contexts, NEW d \in Contexts, MoveContext(d, c)
      PROVE  OpInv'
  BY <1>18 DEF MoveContext, libvars
<1>19. QED
  BY <1>1, <1>2, <1>3, <1>4, <1>5, <1>6, <1>7, <1>8, <1>9, <1>10, <1>11,
     <1>12, <1>13, <1>14, <1>15, <1>16, <1>17, <1>18 DEF Next, Calls, Terminated

LEMMA OpInvariant == Spec => [](BatchInv /\ OpInv)
BY BatchInit, BatchStep, OpInit, OpStep, PTL DEF Spec

-----------------------------------------------------------------------------
(* The books of Client::remaining. *)

LEMMA BalanceAdd ==
  ASSUME NEW up \in Nat, NEW down \in Nat, NEW n \in Nat,
         up + down < Word, up + n < Word
  PROVE  SizeAdd(Balance(up, down), n) = Balance(up + n, down)
BY ClientAssumption DEF SizeAdd, Balance

LEMMA BalanceSettle ==
  ASSUME NEW up \in Nat, NEW down \in Nat, up > 0, up + down < Word
  PROVE  SizeDec(Balance(up, down)) = Balance(up - 1, down)
BY ClientAssumption DEF SizeDec, Balance

LEMMA BalanceOverdraw ==
  ASSUME NEW up \in Nat, NEW down \in Nat, up + down < Word
  PROVE  SizeDec(Balance(up, down)) = Balance(up, down + 1)
BY ClientAssumption DEF SizeDec, Balance

LEMMA Books ==
  ASSUME TypeOK
  PROVE  /\ Credited \subseteq Ops /\ Overdrawn \subseteq Ops
         /\ Credited \cap Overdrawn = {}
         /\ Cardinality(Credited) \in Nat /\ Cardinality(Overdrawn) \in Nat
         /\ Cardinality(Credited) + Cardinality(Overdrawn) < Word
<1>1. /\ Credited \subseteq Ops /\ Overdrawn \subseteq Ops
      /\ Credited \cap Overdrawn = {}
  BY ClientAssumption DEF TypeOK, Credited, Overdrawn, Outstanding, LostStats
<1>2. QED
  BY <1>1, OpsCardinality, DisjointCardinality

(* What is to be shown of `remaining' until statistics have a callback. *)
Balanced == remaining = Balance(Cardinality(Credited), Cardinality(Overdrawn))

(* Entries of the books that nothing touches. *)
BooksUnchanged ==
  Credited' = Credited /\ Overdrawn' = Overdrawn /\ remaining' = remaining

LEMMA BooksSame == Balanced /\ BooksUnchanged => Balanced'
BY DEF Balanced, BooksUnchanged

LEMMA DriftInit == Init => Balanced
<1> SUFFICES ASSUME Init PROVE Balanced
  OBVIOUS
<1>1. Credited = {} /\ Overdrawn = {}
  BY ClientAssumption DEF Init, Credited, Overdrawn, Outstanding, LostStats
<1>2. QED
  BY <1>1, FS_EmptySet DEF Init, Balanced, Balance

LEMMA DriftSubmit ==
  ASSUME BatchInv, OpInv, Balanced, NEW c \in Contexts, Submit(c)
  PROVE  Balanced'
<1> USE DEF BatchInv, OpInv, BatchCounts, Fresh
<1>1. queued \subseteq Ops
  BY DEF TypeOK
<1>2. Credited' = Credited \cup queued
  BY <1>1, ClientAssumption
     DEF Submit, opvars, TypeOK, Credited, Outstanding, LostStats
<1>3. Overdrawn' = Overdrawn
  BY <1>1, ClientAssumption
     DEF Submit, opvars, TypeOK, Overdrawn, Outstanding, LostStats
<1>4. Credited \cap queued = {}
  BY <1>1 DEF Credited, Outstanding, LostStats
<1>5. m_remaining[c] = Cardinality(queued) /\ Cardinality(queued) \in Nat
  BY <1>1, OpsCardinality DEF Submit
<1>6. /\ Cardinality(Credited') = Cardinality(Credited) + Cardinality(queued)
      /\ Cardinality(Credited) + Cardinality(queued) < Word
  BY <1>1, <1>2, <1>4, Books, DisjointCardinality
<1>7. SizeAdd(remaining, m_remaining[c])
        = Balance(Cardinality(Credited'), Cardinality(Overdrawn))
  BY <1>5, <1>6, Books, BalanceAdd DEF Balanced
<1>8. QED
  BY <1>3, <1>7 DEF Balanced, Submit

LEMMA DriftEndure ==
  ASSUME BatchInv, OpInv, Balanced, NEW op \in Ops, Endure(op)
  PROVE  Balanced'
<1> USE DEF BatchInv, OpInv, BatchCounts, Fresh
<1>1. queued = {} /\ op \notin Credited /\ op \notin Overdrawn
  BY ClientAssumption
     DEF Endure, NoneActive, TypeOK, Credited, Overdrawn, Outstanding, LostStats
<1>2. Overdrawn' = Overdrawn
  BY <1>1, ClientAssumption
     DEF Endure, TypeOK, Overdrawn, Outstanding, LostStats
<1>3. CASE rc' = [rc EXCEPT ![op] = "error"] /\ UNCHANGED <<remaining, pending>>
  <2>1. Credited' = Credited
    BY <1>1, <1>3, ClientAssumption
       DEF Endure, TypeOK, Credited, Outstanding, LostStats
  <2>2. QED
    BY <1>2, <1>3, <2>1, BooksSame DEF BooksUnchanged
<1>4. CASE /\ pending' = pending \cup queued \cup {op}
           /\ remaining' = SizeAdd(remaining, 1)
           /\ UNCHANGED rc
  <2>1. Credited' = Credited \cup {op}
    BY <1>1, <1>4, ClientAssumption
       DEF Endure, TypeOK, Credited, Outstanding, LostStats
  <2>2. Cardinality(Credited') = Cardinality(Credited) + 1
    BY <1>1, <2>1, Books, AddOp
  <2>3. Cardinality(Credited) + 1 < Word
    BY <1>1, <2>1, <2>2, Books, OpsCardinality
  <2>4. remaining' = Balance(Cardinality(Credited'), Cardinality(Overdrawn))
    BY <1>4, <2>2, <2>3, Books, BalanceAdd DEF Balanced
  <2>5. QED
    BY <1>2, <2>4 DEF Balanced
<1>5. QED
  BY <1>3, <1>4 DEF Endure

LEMMA DriftFinish ==
  ASSUME NoCallbackStats,
         BatchInv, OpInv, Balanced, FinishDispatch
  PROVE  Balanced'
<1> USE DEF BatchInv, OpInv, NoCallbackStats
<1>1. cur \in Ops /\ cur' = "none" /\ cur \in Outstanding
  BY DEF FinishDispatch, TypeOK, Outstanding
<1>2. Outstanding' = IF cur \in pending THEN Outstanding ELSE Outstanding \ {cur}
  BY <1>1, ClientAssumption DEF FinishDispatch, TypeOK, Outstanding
<1>3. CASE ~Done(cur)
  <2>1. cur \in StatsOps /\ ~m_done[cur] /\ UNCHANGED remaining
    BY <1>1, <1>3 DEF Done, FinishDispatch
  <2>2. (Outstanding \cup LostStats)' = Outstanding \cup LostStats
    BY <1>1, <1>2, <2>1 DEF FinishDispatch, LostStats, opvars, TypeOK
  <2>3. QED
    BY <2>1, <2>2, BooksSame
       DEF BooksUnchanged, Credited, Overdrawn, FinishDispatch, opvars
<1>4. CASE Done(cur)
  <2>1. cur \notin pending /\ cur \notin LostStats'
    BY <1>1, <1>4 DEF Done, FinishDispatch, LostStats, opvars, TypeOK
  <2>2. remaining' = SizeDec(remaining)
    BY <1>4 DEF FinishDispatch
  <2>3. (Outstanding \cup LostStats)' = (Outstanding \cup LostStats) \ {cur}
    BY <1>1, <1>2, <2>1 DEF FinishDispatch, LostStats, opvars, TypeOK
  <2>4. CASE owner[cur] = "run"
    <3>1. Credited' = Credited /\ Overdrawn' = Overdrawn \cup {cur}
      BY <1>1, <2>3, <2>4 DEF Credited, Overdrawn, FinishDispatch, opvars
    <3>2. cur \notin Overdrawn
      BY <1>1 DEF Overdrawn
    <3>3. Cardinality(Overdrawn') = Cardinality(Overdrawn) + 1
      BY <1>1, <3>1, <3>2, Books, AddOp
    <3>4. QED
      BY <2>2, <3>1, <3>3, Books, BalanceOverdraw DEF Balanced
  <2>5. CASE owner[cur] # "run"
    <3>1. Credited' = Credited \ {cur} /\ Overdrawn' = Overdrawn
      BY <1>1, <2>3, <2>5 DEF Credited, Overdrawn, FinishDispatch, opvars
    <3>2. cur \in Credited
      BY <1>1, <2>5 DEF Credited
    <3>3. Cardinality(Credited') = Cardinality(Credited) - 1
      BY <3>1, <3>2, Books, RemoveOp
    <3>4. Cardinality(Credited) > 0
      BY <3>2, Books, FS_EmptySet, OpsCardinality
    <3>5. QED
      BY <2>2, <3>1, <3>3, <3>4, Books, BalanceSettle DEF Balanced
  <2>6. QED
    BY <2>4, <2>5
<1>5. QED
  BY <1>3, <1>4

LEMMA DriftStep ==
  ASSUME NoCallbackStats,
         BatchInv, OpInv, Balanced, [Next]_vars
  PROVE  Balanced'
<1> USE DEF BatchInv, OpInv, Fresh, TypeOK, BatchCounts,
            Credited, Overdrawn, Outstanding, LostStats
<1>1. CASE Connect
  BY <1>1, BooksSame DEF BooksUnchanged, Connect, libvars, opvars
<1>2. CASE DestroyClient
  BY <1>2, BooksSame DEF BooksUnchanged, DestroyClient, libvars, opvars
<1>3. ASSUME NEW c \in Contexts, NewContext(c)
      PROVE  Balanced'
  BY <1>3, BooksSame DEF BooksUnchanged, NewContext, libvars, opvars
<1>4. ASSUME NEW c \in Contexts, Reset(c)
      PROVE  Balanced'
  BY <1>4, BooksSame DEF BooksUnchanged, Reset, libvars, opvars
<1>5. ASSUME NEW c \in Contexts, NEW op \in Ops, Add(c, op)
      PROVE  Balanced'
  <2>1. BooksUnchanged
    BY <1>5, ClientAssumption DEF BooksUnchanged, Add
  <2>2. QED
    BY <2>1, BooksSame
<1>6. ASSUME NEW c \in Contexts, Submit(c)
      PROVE  Balanced'
  BY <1>6, DriftSubmit
<1>7. ASSUME NEW c \in Contexts, Bail(c)
      PROVE  Balanced'
  BY <1>7, BooksSame DEF BooksUnchanged, Bail, opvars
<1>8. ASSUME NEW c \in Contexts, DestroyContext(c)
      PROVE  Balanced'
  BY <1>8, BooksSame DEF BooksUnchanged, DestroyContext, opvars
<1>9. ASSUME NEW w \in Queries \cup {"wait"}, Wait(w)
     PROVE  Balanced'
  BY <1>9, BooksSame DEF BooksUnchanged, Wait, opvars
<1>10. ASSUME NEW op \in Ops, Run(op)
       PROVE  Balanced'
  <2>1. queued = {}
    BY <1>10 DEF Run, NoneActive
  <2>2. BooksUnchanged
    BY <1>10, <2>1, ClientAssumption DEF BooksUnchanged, Run
  <2>3. QED
    BY <2>2, BooksSame
<1>11. ASSUME NEW op \in Ops, Endure(op)
       PROVE  Balanced'
  BY <1>11, DriftEndure
<1>12. CASE Return(pending = {})
  BY <1>12, BooksSame DEF BooksUnchanged, Return, opvars
<1>13. ASSUME NEW op \in Ops, HandleSingle(op)
       PROVE  Balanced'
  <2>1. Outstanding' = Outstanding /\ UNCHANGED <<remaining, owner, m_done>>
    BY <1>13, ClientAssumption DEF HandleSingle, Deliver
  <2>2. \A o \in Ops \ Outstanding : rc'[o] = rc[o]
    BY <1>13 DEF HandleSingle, Deliver
  <2>3. BooksUnchanged
    BY <2>1, <2>2, ClientAssumption DEF BooksUnchanged
  <2>4. QED
    BY <2>3, BooksSame
<1>14. ASSUME NEW op \in Ops, HandleStats(op)
       PROVE  Balanced'
  <2>1. Outstanding' = Outstanding /\ UNCHANGED <<remaining, owner>>
    BY <1>14, ClientAssumption DEF HandleStats, Deliver
  <2>2. \A o \in Ops \ Outstanding : rc'[o] = rc[o] /\ m_done'[o] = m_done[o]
    BY <1>14 DEF HandleStats, Deliver
  <2>3. BooksUnchanged
    BY <2>1, <2>2, ClientAssumption DEF BooksUnchanged
  <2>4. QED
    BY <2>3, BooksSame
<1>15. CASE FinishDispatch
  BY <1>15, DriftFinish
<1>16. CASE UNCHANGED vars
  BY <1>16, BooksSame DEF BooksUnchanged, vars, libvars, opvars
<1>17. CASE Breakout
  BY <1>17, BooksSame DEF BooksUnchanged, Breakout, opvars
<1>18. ASSUME NEW c \in Contexts, NEW d \in Contexts, MoveContext(d, c)
      PROVE  Balanced'
  <2>1. \A op \in Ops : owner'[op] = "run" <=> owner[op] = "run"
    BY <1>18, ClientAssumption DEF MoveContext
  <2>2. UNCHANGED <<remaining, pending, cur, rc, m_done>>
    BY <1>18 DEF MoveContext, libvars
  <2>3. Outstanding' = Outstanding /\ LostStats' = LostStats
    BY <2>2
  <2>4. Credited' = Credited /\ Overdrawn' = Overdrawn
    BY <2>1, <2>2, <2>3, ClientAssumption
  <2>5. QED
    BY <2>2, <2>4, BooksSame DEF BooksUnchanged
<1>19. QED
  BY <1>1, <1>2, <1>3, <1>4, <1>5, <1>6, <1>7, <1>8, <1>9, <1>10, <1>11,
     <1>12, <1>13, <1>14, <1>15, <1>16, <1>17, <1>18 DEF Next, Calls, Terminated

(* The steps that give operations an owner. *)
LEMMA OwnerSteps ==
  ASSUME [Next]_vars, owner' # owner
  PROVE  \/ \E c \in Contexts, op \in Ops : Add(c, op)
         \/ \E c, d \in Contexts : MoveContext(d, c)
         \/ \E op \in Ops : Run(op) \/ Endure(op)
BY DEF Next, Calls, Terminated, Breakout, vars, opvars, Connect, DestroyClient,
       NewContext, Reset, Submit, Bail, DestroyContext, Wait, Return, HandleSingle,
       HandleStats, Deliver, FinishDispatch

(* Statistics that have a callback keep it. *)
LEMMA CallbackStatsStay ==
  ASSUME BatchInv, OpInv, [Next]_vars, NoCallbackStats'
  PROVE  NoCallbackStats
<1> USE ClientAssumption DEF BatchInv, TypeOK, OpInv, NoCallbackStats
<1>1. CASE owner' = owner
  BY <1>1
<1>2. ASSUME NEW c \in Contexts, NEW op \in Ops, Add(c, op)
      PROVE  NoCallbackStats
  BY <1>2 DEF Add
<1>3. ASSUME NEW c \in Contexts, NEW d \in Contexts, MoveContext(d, c)
      PROVE  NoCallbackStats
  BY <1>3 DEF MoveContext
<1>4. ASSUME NEW op \in Ops, Run(op) \/ Endure(op)
      PROVE  NoCallbackStats
  BY <1>4 DEF Run, Endure
<1>5. QED
  BY <1>1, <1>2, <1>3, <1>4, OwnerSteps

LEMMA DriftInvariant == Spec => [](BatchInv /\ OpInv /\ RemainingDrift)
<1>1. Init => RemainingDrift
  BY DriftInit DEF RemainingDrift, Balanced
<1>2. BatchInv /\ OpInv /\ RemainingDrift /\ [Next]_vars => RemainingDrift'
  <2> SUFFICES ASSUME BatchInv, OpInv, RemainingDrift, [Next]_vars, NoCallbackStats'
               PROVE  Balanced'
    BY DEF RemainingDrift, Balanced
  <2>1. NoCallbackStats /\ Balanced
    BY CallbackStatsStay DEF RemainingDrift, Balanced
  <2>2. QED
    BY <2>1, DriftStep
<1>3. QED
  BY <1>1, <1>2, BatchInit, BatchStep, OpInit, OpStep, PTL DEF Spec

(* Client::remaining is, modulo Word, what was counted and is still to be   *)
(* answered less what run() had answered, until statistics have a callback. *)
THEOREM DriftCorrect == Spec => []RemainingDrift
BY DriftInvariant, PTL

LEMMA ExactFromDrift ==
  ASSUME OpInv, BatchInv, RemainingDrift, AllCounted
  PROVE  RemainingExact
<1>1. Overdrawn = {}
  BY DEF AllCounted, Overdrawn
<1>2. Cardinality(Overdrawn) = 0 /\ Cardinality(Credited) \in Nat
  BY <1>1, Books, FS_EmptySet DEF BatchInv
<1>3. QED
  BY <1>2 DEF RemainingDrift, RemainingExact, Balance, AllCounted

(* Once uncounted, always: what run() has sent stays its own. *)
LEMMA UncountedStays ==
  ASSUME BatchInv, OpInv, [Next]_vars, AllCounted'
  PROVE  AllCounted
<1>1. NoCallbackStats
  BY CallbackStatsStay DEF AllCounted
<1>2. ASSUME NEW op \in Ops, owner[op] = "run"
      PROVE  rc[op] = "unset" /\ op \notin Outstanding
  <2> USE ClientAssumption DEF BatchInv, TypeOK, OpInv, Outstanding, Fresh
  <2>1. owner'[op] = "run"
    <3>1. \A c, d \in Contexts : MoveContext(d, c) => owner'[op] = "run"
      BY <1>2 DEF MoveContext
    <3>2. CASE owner' = owner
      BY <1>2, <3>2
    <3>3. CASE owner' # owner
      <4>1. \/ \E c \in Contexts, o \in Ops : Add(c, o)
            \/ \E c, d \in Contexts : MoveContext(d, c)
            \/ \E o \in Ops : Run(o) \/ Endure(o)
        BY <3>3, OwnerSteps
      <4>2. QED
        BY <3>1, <4>1, <1>2 DEF Add, Run, Endure
    <3>4. QED
      BY <3>2, <3>3
  <2>2. rc'[op] = "unset" /\ op \notin Outstanding'
    BY <2>1 DEF AllCounted
  <2>3. \A o \in Ops : HandleSingle(o) \/ HandleStats(o) => o # op
    BY <2>2 DEF HandleSingle, HandleStats, Deliver
  <2>4. \A o \in Ops : Run(o) \/ Endure(o) => o # op
    BY <1>2 DEF Run, Endure
  <2>5. rc[op] = "unset"
    BY <2>2, <2>3, <2>4 DEF Next, Calls, Terminated, Breakout, vars, opvars,
         Connect, DestroyClient, NewContext, Reset, Add, Submit, Bail, DestroyContext,
         MoveContext, Wait, Return, Run, Endure, HandleSingle, HandleStats, Deliver,
         FinishDispatch
  <2>6. cur # op
    BY <1>2, <2>5
  <2>7. op \notin pending
    BY <2>2, <2>3, <2>4 DEF Next, Calls, Terminated, Breakout, vars, libvars,
         Connect, DestroyClient, NewContext, Reset, Add, Submit, Bail, DestroyContext,
         MoveContext, Wait, Return, Run, Endure, HandleSingle, HandleStats, Deliver,
         FinishDispatch
  <2>8. QED
    BY <2>5, <2>6, <2>7
<1>3. QED
  BY <1>1, <1>2 DEF AllCounted

(* When the application makes no such calls, nothing is uncounted.          *)
LEMMA CountedUses ==
  ASSUME Uses \subseteq {"endure"}
  PROVE  OpInv => AllCounted
BY DEF OpInv, AllCounted, NoCallbackStats

LEMMA ExactInvariant ==
  Spec => [](BatchInv /\ OpInv /\ (AllCounted => RemainingExact))
<1>1. BatchInv /\ OpInv /\ RemainingDrift => (AllCounted => RemainingExact)
  BY ExactFromDrift
<1>2. QED
  BY <1>1, DriftInvariant, PTL

(* Until run() has sent something it is exact ...                           *)
THEOREM ExactUntilRun == Spec => [](AllCounted => RemainingExact)
BY ExactInvariant, PTL

(* ... and always without run().                                            *)
THEOREM ExactCorrect ==
  ASSUME Uses \subseteq {"endure"}
  PROVE  Spec => []RemainingExact
BY ExactInvariant, CountedUses, PTL

-----------------------------------------------------------------------------
(* What wait() and the cookies rest on. *)

(* A call that blocks ends in Return and nowhere else. *)
LEMMA ReturnOnly ==
  ASSUME [Next]_vars, call # "none", call' = "none"
  PROVE  Return(pending = {})
BY ClientAssumption
   DEF Next, Calls, Terminated, Breakout, vars, libvars, Connect, DestroyClient, NewContext, Reset, MoveContext,
       Add, Submit, Bail, DestroyContext, Wait, Run, Endure, HandleSingle,
       HandleStats, Deliver, FinishDispatch

LEMMA WaitInit == Init => WaitInv
BY ClientAssumption DEF Init, WaitInv, Outstanding

LEMMA WaitStep ==
  ASSUME AllCounted', [Next]_vars, WaitInv,
         BatchInv, OpInv, BatchInv', OpInv', RemainingExact'
  PROVE  WaitInv'
<1> USE ClientAssumption
    DEF BatchInv, TypeOK, BatchCounts, OpInv, WaitInv, Reachable, Outstanding
<1>0. remaining' = 0 => Outstanding' = {}
  <2>1. SUFFICES ASSUME remaining' = 0 PROVE Outstanding' = {}
    OBVIOUS
  <2>2. Outstanding' \subseteq Credited' /\ Credited' \subseteq Ops
    BY DEF Credited, LostStats, AllCounted
  <2>3. IsFiniteSet(Credited') /\ Cardinality(Credited') = 0
    BY <2>1, <2>2, OpsCardinality DEF RemainingExact
  <2>4. QED
    BY <2>2, <2>3, FS_EmptySet
<1>1. CASE Connect
  BY <1>1 DEF Connect, libvars, ctxvars, opvars
<1>2. CASE DestroyClient
  BY <1>2 DEF DestroyClient, libvars, ctxvars, opvars
<1>3. ASSUME NEW c \in Contexts, NewContext(c)
      PROVE  WaitInv'
  BY <1>3 DEF NewContext, libvars, opvars
<1>4. ASSUME NEW c \in Contexts, Reset(c)
      PROVE  WaitInv'
  BY <1>4 DEF Reset, libvars, opvars
<1>5. ASSUME NEW c \in Contexts, NEW op \in Ops, Add(c, op)
      PROVE  WaitInv'
  BY <1>5 DEF Add, Fresh
<1>6. ASSUME NEW c \in Contexts, Submit(c)
      PROVE  WaitInv'
  <2>1. \A op \in queued : owner[op] = c
    BY <1>6 DEF Submit, OneActive
  <2>2. life[c] = "live"
    BY <1>6 DEF Submit
  <2>3. \A op \in Outstanding' : Reachable(op)'
    BY <1>6, <2>1, <2>2 DEF Submit, opvars
  <2>4. call # "none" => cur # "none"
    BY <1>6 DEF Submit, AppRuns, Idle, InCallback
  <2>5. QED
    BY <1>6, <2>3, <2>4 DEF Submit
<1>7. ASSUME NEW c \in Contexts, Bail(c)
      PROVE  WaitInv'
  BY <1>7 DEF Bail, opvars
<1>8. ASSUME NEW c \in Contexts, DestroyContext(c)
      PROVE  WaitInv'
  BY <1>8 DEF DestroyContext, Idle, opvars
<1>9. ASSUME NEW w \in Queries \cup {"wait"}, Wait(w)
     PROVE  WaitInv'
  BY <1>9 DEF Wait, Idle, ctxvars, opvars
<1>10. ASSUME NEW op \in Ops, Run(op)
       PROVE  WaitInv'
  <2>1. queued = {} /\ Fresh(op) /\ call = "none" /\ owner' = [owner EXCEPT ![op] = "run"]
    BY <1>10 DEF Run, NoneActive, Idle
  <2>2. op \notin pending' /\ call' = "none" /\ stop' = stop
    BY <1>10, <2>1 DEF Run, AllCounted
  <2>3. pending' = pending
    BY <1>10, <2>1, <2>2 DEF Run
  <2>4. QED
    BY <1>10, <2>1, <2>2, <2>3 DEF Run, Fresh, ctxvars
<1>11. ASSUME NEW op \in Ops, Endure(op)
       PROVE  WaitInv'
  <2>1. queued = {} /\ Fresh(op) /\ call = "none" /\ cur = "none" /\ ~stop
    BY <1>11 DEF Endure, NoneActive, Idle
  <2>2. QED
    BY <1>11, <2>1 DEF Endure, Fresh, ctxvars
<1>12. CASE Return(pending = {})
  <2>1. Outstanding = {}
    BY <1>12 DEF Return
  <2>2. QED
    BY <1>12, <2>1 DEF Return, opvars
<1>13. ASSUME NEW op \in Ops, HandleSingle(op)
       PROVE  WaitInv'
  BY <1>13 DEF HandleSingle, Deliver, ctxvars
<1>14. ASSUME NEW op \in Ops, HandleStats(op)
       PROVE  WaitInv'
  BY <1>14 DEF HandleStats, Deliver, ctxvars
<1>15. CASE FinishDispatch
  <2>1. ~stop /\ call # "none"
    BY <1>15 DEF FinishDispatch
  <2>4. QED
    BY <1>0, <1>15, <2>1 DEF FinishDispatch, ctxvars, opvars
<1>16. CASE UNCHANGED vars
  BY <1>16 DEF vars, libvars, ctxvars, opvars
<1>17. CASE Breakout
  BY <1>0, <1>17 DEF Breakout, ctxvars, opvars
<1>18. ASSUME NEW c \in Contexts, NEW d \in Contexts, MoveContext(d, c)
      PROVE  WaitInv'
  <2>1. UNCHANGED <<pending, cur, stop, call>>
    BY <1>18 DEF MoveContext, libvars
  <2>2. \A op \in Outstanding : Reachable(op)'
    BY <1>18, <2>1 DEF MoveContext
  <2>3. \A e \in Contexts : entered'[e] => life'[e] = "live"
    BY <1>18 DEF MoveContext
  <2>4. QED
    BY <2>1, <2>2, <2>3
<1>19. QED
  BY <1>1, <1>2, <1>3, <1>4, <1>5, <1>6, <1>7, <1>8, <1>9, <1>10, <1>11,
     <1>12, <1>13, <1>14, <1>15, <1>16, <1>17, <1>18 DEF Next, Calls, Terminated

LEMMA WaitInvariant ==
  Spec => [](BatchInv /\ OpInv /\ (AllCounted => WaitInv))
<1>1. (AllCounted => WaitInv) /\ [Next]_vars
        /\ BatchInv /\ OpInv /\ BatchInv' /\ OpInv' /\ (AllCounted => RemainingExact)'
        => (AllCounted => WaitInv)'
  BY WaitStep, UncountedStays
<1>2. QED
  BY <1>1, WaitInit, ExactInvariant, PTL DEF Spec

LEMMA CountedWaitInvariant ==
  ASSUME Uses \subseteq {"endure"}
  PROVE  Spec => [](BatchInv /\ OpInv /\ WaitInv)
BY WaitInvariant, CountedUses, PTL

(* Until run() has sent something, the library never calls back through the *)
(* cookie of a destroyed batch or a call that has returned ...              *)
THEOREM CookiesLiveUntilRun == Spec => [](AllCounted => NoDanglingCookie)
<1>1. BatchInv /\ OpInv /\ WaitInv => NoDanglingCookie
  BY ClientAssumption
     DEF BatchInv, TypeOK, BatchCounts, WaitInv, Outstanding, Reachable,
         NoDanglingCookie, HandlerLives
<1>2. QED
  BY <1>1, WaitInvariant, PTL

(* ... and never at all when every operation that waits is counted.         *)
THEOREM CookiesLive ==
  ASSUME Uses \subseteq {"endure"}
  PROVE  Spec => []NoDanglingCookie
BY CookiesLiveUntilRun, OpInvariant, CountedUses, PTL

(* Nor does a call that waits return before everything sent is answered,    *)
(* until run() has sent something ...                                       *)
THEOREM CountedWaitsCorrect == Spec => CountedWaitsComplete
<1>1. BatchInv /\ OpInv /\ (AllCounted => WaitInv) /\ [Next]_vars
        => [(AllCounted /\ call # "none" /\ call' = "none") => pending = {}]_vars
  <2> SUFFICES ASSUME WaitInv, [Next]_vars, call # "none", call' = "none"
               PROVE  pending = {}
    OBVIOUS
  <2>1. Return(pending = {})
    BY ReturnOnly
  <2>2. QED
    BY <2>1 DEF Return, WaitInv
<1>2. QED
  BY <1>1, WaitInvariant, PTL DEF Spec, CountedWaitsComplete

(* ... and ever without run().                                              *)
THEOREM WaitCorrect ==
  ASSUME Uses \subseteq {"endure"}
  PROVE  Spec => WaitCompletes
<1>1. AllCounted /\ [(AllCounted /\ call # "none" /\ call' = "none") => pending = {}]_vars
        => [(call # "none" /\ call' = "none") => pending = {}]_vars
  OBVIOUS
<1>2. QED
  BY <1>1, CountedUses, OpInvariant, CountedWaitsCorrect, PTL
     DEF CountedWaitsComplete, WaitCompletes

(* In particular a synchronous call that is counted has its answer.         *)
THEOREM CountedCallsAnswered ==
  ASSUME Uses \subseteq {"endure"}
  PROVE  Spec => SyncAnswered
<1>1. [(call # "none" /\ call' = "none") => pending = {}]_vars
        => [(call \in Ops /\ call' = "none") => call \notin pending]_vars
  BY ClientAssumption
<1>2. QED
  BY <1>1, WaitCorrect, PTL DEF WaitCompletes, SyncAnswered

-----------------------------------------------------------------------------
(* The promise of Completion. *)

LEMMA PromiseInit == Init => Promise!Init
BY DEF Init, Promise!Init

LEMMA PromiseStep ==
  ASSUME AllCounted', [Next]_vars, BatchInv, OpInv, WaitInv
  PROVE  [Promise!Next]_Promise!vars
<1> DEFINE answered == {op \in Ops : rc[op] # "unset"} \ pending
           Stutter == UNCHANGED <<pending, answered, call # "none">>
<1> USE ClientAssumption DEF BatchInv, TypeOK, BatchCounts, OpInv
<1>0. Stutter => [Promise!Next]_Promise!vars
  BY DEF Promise!vars
<1>1. CASE Connect
  BY <1>0, <1>1 DEF Connect, libvars, opvars
<1>2. CASE DestroyClient
  BY <1>0, <1>2 DEF DestroyClient, libvars, opvars
<1>3. ASSUME NEW c \in Contexts, NewContext(c)
      PROVE  Stutter
  BY <1>3 DEF NewContext, libvars, opvars
<1>4. ASSUME NEW c \in Contexts, Reset(c)
      PROVE  Stutter
  BY <1>4 DEF Reset, libvars, opvars
<1>5. ASSUME NEW c \in Contexts, NEW op \in Ops, Add(c, op)
      PROVE  Stutter
  BY <1>5 DEF Add
<1>6. ASSUME NEW c \in Contexts, Submit(c)
      PROVE  Promise!Submit(queued)
  BY <1>6 DEF Submit, opvars, Promise!Submit, Fresh
<1>7. ASSUME NEW c \in Contexts, Bail(c)
      PROVE  Stutter
  BY <1>7 DEF Bail, opvars
<1>8. ASSUME NEW c \in Contexts, DestroyContext(c)
      PROVE  Stutter
  BY <1>8 DEF DestroyContext, opvars
<1>9. ASSUME NEW w \in Queries \cup {"wait"}, Wait(w)
     PROVE  Promise!Next
  <2>1. Promise!Enter({})
    BY <1>9 DEF Wait, Idle, opvars, Promise!Enter
  <2>2. QED
    BY <2>1 DEF Promise!Next
<1>10. ASSUME NEW op \in Ops, Run(op)
       PROVE  Stutter
  <2>1. owner'[op] = "run" /\ queued = {} /\ UNCHANGED rc
    BY <1>10 DEF Run, NoneActive
  <2>2. op \notin pending'
    BY <2>1 DEF AllCounted, Outstanding
  <2>3. QED
    BY <1>10, <2>1, <2>2 DEF Run
<1>11. ASSUME NEW op \in Ops, Endure(op)
       PROVE  Promise!Refuse(op) \/ Promise!Enter({op})
  <2>1. queued = {} /\ Fresh(op) /\ call = "none"
    BY <1>11 DEF Endure, NoneActive, Idle
  <2>2. CASE rc' = [rc EXCEPT ![op] = "error"] /\ UNCHANGED <<pending, call>>
    BY <2>1, <2>2 DEF Fresh, Promise!Refuse
  <2>3. CASE pending' = pending \cup queued \cup {op} /\ call' = op /\ UNCHANGED rc
    BY <2>1, <2>3 DEF Fresh, Promise!Enter
  <2>4. QED
    BY <1>11, <2>2, <2>3 DEF Endure
<1>12. CASE Return(pending = {})
  BY <1>12 DEF Return, WaitInv, opvars, Promise!Next, Promise!Leave
<1>13. ASSUME NEW op \in Ops, HandleSingle(op)
       PROVE  Promise!Answer(op)
  BY <1>13 DEF HandleSingle, Deliver, Promise!Answer
<1>14. ASSUME NEW op \in Ops, HandleStats(op)
       PROVE  Stutter \/ Promise!Answer(op)
  <2>1. /\ op \in pending /\ call # "none" /\ UNCHANGED call
        /\ rc'[op] # "unset" /\ \A o \in Ops \ {op} : rc'[o] = rc[o]
    BY <1>14 DEF HandleStats, Deliver
  <2>2. CASE pending' = pending
    BY <2>1, <2>2
  <2>3. CASE pending' = pending \ {op}
    BY <2>1, <2>3 DEF Promise!Answer
  <2>4. QED
    BY <1>14, <2>2, <2>3 DEF HandleStats
<1>15. CASE FinishDispatch
  BY <1>0, <1>15 DEF FinishDispatch, opvars
<1>16. CASE UNCHANGED vars
  BY <1>0, <1>16 DEF vars, libvars, opvars
<1>17. CASE Breakout
  BY <1>0, <1>17 DEF Breakout, opvars
<1>18. ASSUME NEW c \in Contexts, NEW d \in Contexts, MoveContext(d, c)
       PROVE  Stutter
  BY <1>18 DEF MoveContext, libvars
<1>19. QED
  <2>1. queued \in SUBSET Ops /\ \A op \in Ops : {op} \in SUBSET Ops
    OBVIOUS
  <2>2. \A c \in Contexts : Submit(c) => Promise!Next
    BY <1>6, <2>1 DEF Promise!Next
  <2>3. \A op \in Ops : Endure(op) \/ HandleSingle(op) => Promise!Next
    BY <1>11, <1>13, <2>1 DEF Promise!Next
  <2>4. \A op \in Ops : HandleStats(op) => [Promise!Next]_Promise!vars
    BY <1>0, <1>14 DEF Promise!Next
  <2>5. QED
    BY <1>0, <1>1, <1>2, <1>3, <1>4, <1>5, <2>2, <1>7, <1>8, <1>9, <1>10, <2>3,
       <1>12, <2>4, <1>15, <1>16, <1>17, <1>18 DEF Next, Calls, Terminated

(* The client keeps the promise of Completion: what wait() was given to do  *)
(* is answered, each operation once, and only then does it return.  It      *)
(* keeps it step by step until run() sends something ...                    *)
THEOREM PromiseUntilRun ==
  Spec => [][AllCounted' => [Promise!Next]_Promise!vars]_vars
<1>1. BatchInv /\ OpInv /\ (AllCounted => WaitInv) /\ [Next]_vars
        => (AllCounted' => [Promise!Next]_Promise!vars)
  BY PromiseStep, UncountedStays
<1>2. QED
  BY <1>1, WaitInvariant, PTL DEF Spec

(* ... and throughout without run().                                        *)
THEOREM PromiseKept ==
  ASSUME Uses \subseteq {"endure"}
  PROVE  Spec => KeepsPromise
<1>1. BatchInv /\ OpInv /\ OpInv' /\ WaitInv /\ [Next]_vars
        => [Promise!Next]_Promise!vars
  <2>1. OpInv' => AllCounted'
    BY DEF OpInv, AllCounted, NoCallbackStats
  <2>2. QED
    BY <2>1, PromiseStep
<1>2. QED
  BY <1>1, PromiseInit, CountedWaitInvariant, PTL DEF Spec, KeepsPromise, Promise!Spec

-----------------------------------------------------------------------------
(* Synchronous calls alone. *)

SyncInv ==
  CallsAlone =>
    /\ \A c \in Contexts : ~entered[c]
    /\ pending \subseteq {call}
    /\ cur \in Ops => cur = call
    /\ call \in Ops => owner[call] \notin Contexts
    /\ stop => pending = {}

LEMMA SyncStep ==
  ASSUME BatchInv, OpInv, SyncInv, [Next]_vars
  PROVE  SyncInv'
<1> USE ClientAssumption DEF BatchInv, TypeOK, BatchCounts, OpInv, SyncInv, CallsAlone
<1>1. ASSUME NEW c \in Contexts,
             NewContext(c) \/ Reset(c) \/ Submit(c) \/ Bail(c) \/ DestroyContext(c)
                \/ (\E op \in Ops : Add(c, op))
      PROVE  SyncInv'
  <2>1. life[c] = "unborn" => life' # life \/ entered[c]
    BY <1>1 DEF NewContext, Reset, Submit, Bail, DestroyContext, Add
  <2>2. CASE life' = life
    BY <1>1, <2>1, <2>2 DEF Reset, Submit, Bail, Add, NewContext, DestroyContext
  <2>3. CASE life' # life
    BY <1>1, <2>3 DEF NewContext, Reset, Submit, Bail, DestroyContext, Add
  <2>4. QED
    BY <2>2, <2>3
<1>2. CallsAlone => queued = {}
  OBVIOUS
<1>3. CASE Connect \/ DestroyClient \/ UNCHANGED vars
  BY <1>3 DEF Connect, DestroyClient, vars, libvars, ctxvars, opvars
<1>4. CASE Wait("wait")
  BY <1>4 DEF Wait, Idle, ctxvars, opvars
<1>5. ASSUME NEW op \in Ops, Run(op) PROVE SyncInv'
  <2> SUFFICES ASSUME CallsAlone' PROVE SyncInv'
    OBVIOUS
  <2>1. UNCHANGED <<life, entered, cur>> /\ call = "none"
    BY <1>5 DEF Run, Idle, ctxvars
  <2>2. pending = {} /\ cur \notin Ops /\ queued = {}
    BY <1>2, <2>1
  <2>3. call' \in {"none", op} /\ pending' \subseteq {call'} /\ stop' \in {stop, FALSE}
    BY <1>5, <2>1, <2>2 DEF Run
  <2>4. owner'[op] = "run" /\ (stop' => pending' = {})
    BY <1>5, <2>1, <2>2 DEF Run
  <2>5. QED
    BY <2>1, <2>2, <2>3, <2>4
<1>6. ASSUME NEW op \in Ops, Endure(op) PROVE SyncInv'
  <2> SUFFICES ASSUME CallsAlone' PROVE SyncInv'
    OBVIOUS
  <2>1. UNCHANGED <<life, entered, cur>> /\ call = "none"
    BY <1>6 DEF Endure, Idle, ctxvars
  <2>2. pending = {} /\ cur \notin Ops /\ queued = {}
    BY <1>2, <2>1
  <2>3. call' \in {"none", op} /\ pending' \subseteq {call'} /\ stop' \in {stop, FALSE}
    BY <1>6, <2>1, <2>2 DEF Endure
  <2>4. owner'[op] = "endure" /\ (stop' => pending' = {})
    BY <1>6, <2>1, <2>2 DEF Endure
  <2>5. QED
    BY <2>1, <2>2, <2>3, <2>4
<1>7. CASE Return(pending = {})
  BY <1>7 DEF Return
<1>8. ASSUME NEW op \in Ops, HandleSingle(op) \/ HandleStats(op) PROVE SyncInv'
  BY <1>8 DEF HandleSingle, HandleStats, Deliver, ctxvars
<1>9. CASE FinishDispatch
  <2>1. ASSUME CallsAlone, Done(cur), cur \in Ops
        PROVE  cur \notin pending
    BY <2>1 DEF Done
  <2>2. QED
    BY <1>9, <2>1 DEF FinishDispatch, ctxvars, opvars
<1>10. ASSUME NEW c \in Contexts, NEW d \in Contexts, MoveContext(d, c)
       PROVE  SyncInv'
  <2>1. life'[c] # "unborn"
    BY <1>10 DEF MoveContext
  <2>2. QED
    BY <2>1
<1>11. QED
  BY <1>1, <1>3, <1>4, <1>5, <1>6, <1>7, <1>8, <1>9, <1>10 DEF Next, Calls, Terminated

(* An application that makes synchronous calls only, until its first batch, *)
(* gets the final response of each, although none of them, but for          *)
(* endure(), is counted: a count that reaches zero by underflow still stops *)
(* no loop that has work left.                                              *)
THEOREM SyncCorrect == Spec => LoneCallsAnswered
<1>1. Init => SyncInv
  BY ClientAssumption DEF Init, SyncInv, CallsAlone
<1>2. BatchInv /\ OpInv /\ SyncInv /\ [Next]_vars => SyncInv'
  BY SyncStep
<1>3. BatchInv /\ OpInv /\ SyncInv /\ [Next]_vars
        => [(CallsAlone /\ call \in Ops /\ call' = "none") => call \notin pending]_vars
  <2> SUFFICES ASSUME BatchInv, OpInv, SyncInv, [Next]_vars,
                      CallsAlone, call \in Ops, call' = "none"
               PROVE  call \notin pending
    OBVIOUS
  <2>1. call # "none"
    BY ClientAssumption
  <2>2. Return(pending = {})
    BY <2>1, ReturnOnly
  <2>3. QED
    BY <2>2 DEF Return, SyncInv, CallsAlone
<1>4. QED
  BY <1>1, <1>2, <1>3, BatchInit, BatchStep, OpInit, OpStep, PTL
     DEF Spec, LoneCallsAnswered

=============================================================================
