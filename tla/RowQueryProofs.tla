--------------------------- MODULE RowQueryProofs ---------------------------
(***************************************************************************)
(* Proofs about RowQuery.  Its steps are steps of Client, so what          *)
(* ClientProofs shows of a client holds with queries on it.  RowInv says   *)
(* where each row of a query is: shown, in front of the iterator, buffered *)
(* behind it, or not yet here.                                             *)
(***************************************************************************)
EXTENDS RowQuery, ClientProofs, SequenceTheorems

-----------------------------------------------------------------------------
(* Queries only call what Client offers. *)

LEMMA ClientStep == [RowNext]_rowvars => [Next]_vars
<1> SUFFICES ASSUME [RowNext]_rowvars PROVE [Next]_vars
  OBVIOUS
<1>1. ASSUME NEW q \in Queries,
             \/ NewQuery(q) \/ Stop(q) \/ DestroyQuery(q)
             \/ Begin(q) \/ Increment(q) \/ TakeRow(q) \/ NoRow(q)
      PROVE  UNCHANGED vars
  BY <1>1 DEF NewQuery, Stop, DestroyQuery, Begin, Increment, TakeRow, NoRow
<1>2. ASSUME NEW q \in Queries, AwaitRow(q)
      PROVE  Next
  BY <1>2 DEF AwaitRow, Next
<1>3. ASSUME NEW q \in Queries, RowResponse(q) \/ FinalResponse(q)
      PROVE  Next
  BY <1>3 DEF RowResponse, FinalResponse, Next
<1>4. CASE LoopReturns
  <2>1. Return(pending = {})
    BY <1>4 DEF LoopReturns, Return
  <2>2. QED
    BY <2>1 DEF Next
<1>5. CASE OtherCalls
  BY <1>5 DEF OtherCalls, Next
<1>6. CASE RowTerminated
  BY <1>6 DEF RowTerminated, Next
<1>7. CASE UNCHANGED rowvars
  BY <1>7 DEF rowvars
<1>8. QED
  BY <1>1, <1>2, <1>3, <1>4, <1>5, <1>6, <1>7 DEF RowNext

(* A client with queries on it is a client: every theorem of ClientProofs   *)
(* about Spec is one about RowSpec.                                         *)
THEOREM RowsOnClient == RowSpec => Spec
<1>1. RowInit => Init
  BY DEF RowInit
<1>2. QED
  BY <1>1, ClientStep, PTL DEF RowSpec, Spec

(* So no cookie dangles ...                                                 *)
THEOREM CookiesLiveWithRows ==
  ASSUME Uses \subseteq {"endure"}
  PROVE  RowSpec => []NoDanglingCookie
BY RowsOnClient, CookiesLive, PTL

(* ... and a counted call that is made between the rows of a query gets its *)
(* answer before it returns.                                                *)
THEOREM CallsAnsweredWithRows ==
  ASSUME Uses \subseteq {"endure"}
  PROVE  RowSpec => SyncAnswered
BY RowsOnClient, CountedCallsAnswered, PTL

-----------------------------------------------------------------------------
(* Where the rows are. *)

(* The rows that operator++ has dropped. *)
Dropped(q) == IF iter[q] = "row" THEN Len(seen[q]) - 1 ELSE Len(seen[q])

QueryTypeOK ==
  /\ qlife \in [Queries -> {"unborn", "refused", "live", "dead"}]
  /\ active \in [Queries -> BOOLEAN]
  /\ open \in SUBSET Queries
  /\ fetched \in [Queries -> Nat]
  /\ rows \in [Queries -> Seq(Nat)]
  /\ iter \in [Queries -> {"none", "next", "row", "end"}]
  /\ seen \in [Queries -> Seq(Nat)]

RowsInPlace(q) ==
  /\ Dropped(q) >= 0
  /\ Len(rows[q]) = fetched[q] - Dropped(q)
  /\ \A i \in 1 .. Len(rows[q]) : rows[q][i] = Dropped(q) + i
  /\ iter[q] = "row" => rows[q] # <<>>

(* The library answers the live and active queries, and only they are       *)
(* waited for.                                                              *)
Answerable(q) ==
  /\ q \in open <=> qlife[q] = "live" /\ active[q]
  /\ iter[q] = "next" => Constructed(q)
  /\ qlife[q] = "unborn" => iter[q] = "none"
  /\ qlife[q] = "refused" /\ ~IterateFailed => iter[q] = "none"

RowInv ==
  /\ QueryTypeOK
  /\ \A q \in Queries : Answerable(q) /\ RowsInPlace(q)

LEMMA RowInvInit == RowInit => RowInv
BY DEF RowInit, RowInv, QueryTypeOK, RowsInPlace, Dropped, Answerable

LEMMA AppendRow ==
  ASSUME NEW s \in Seq(Nat), NEW n \in Nat
  PROVE  /\ Append(s, n) \in Seq(Nat) /\ Append(s, n) # <<>>
         /\ Len(Append(s, n)) = Len(s) + 1
         /\ \A i \in 1 .. Len(s) : Append(s, n)[i] = s[i]
         /\ Append(s, n)[Len(s) + 1] = n
BY AppendProperties

LEMMA QueryFacts ==
  ASSUME RowInv, NEW q \in Queries
  PROVE  /\ rows[q] \in Seq(Nat) /\ seen[q] \in Seq(Nat)
         /\ fetched[q] \in Nat /\ Len(rows[q]) \in Nat /\ Len(seen[q]) \in Nat
         /\ Dropped(q) \in Nat
         /\ RowsInPlace(q)
<1>1. /\ rows[q] \in Seq(Nat) /\ seen[q] \in Seq(Nat) /\ fetched[q] \in Nat
      /\ RowsInPlace(q)
  BY DEF RowInv, QueryTypeOK
<1>2. Len(rows[q]) \in Nat /\ Len(seen[q]) \in Nat
  BY <1>1
<1>3. QED
  BY <1>1, <1>2 DEF RowsInPlace, Dropped

LEMMA RowInvResponse ==
  ASSUME RowInv, NEW q \in Queries, RowResponse(q)
  PROVE  RowInv'
<1> DEFINE longer == Append(rows[q], fetched[q] + 1)
<1>1. rows[q] \in Seq(Nat) /\ fetched[q] \in Nat /\ fetched[q] + 1 \in Nat
  BY QueryFacts
<1>2. /\ longer \in Seq(Nat) /\ longer # <<>>
      /\ Len(longer) = Len(rows[q]) + 1
      /\ \A i \in 1 .. Len(rows[q]) : longer[i] = rows[q][i]
      /\ longer[Len(rows[q]) + 1] = fetched[q] + 1
  BY <1>1, AppendRow
<1>3. rows' = [rows EXCEPT ![q] = longer]
  BY DEF RowResponse, RowInv, QueryTypeOK
<1> HIDE DEF longer
<1>4. QueryTypeOK'
  BY <1>2, <1>3 DEF RowResponse, RowInv, QueryTypeOK
<1>5. RowsInPlace(q)'
  <2>1. /\ rows'[q] = longer /\ fetched'[q] = fetched[q] + 1
        /\ iter' = iter /\ seen' = seen
    BY <1>3 DEF RowResponse, RowInv, QueryTypeOK
  <2>2. /\ Len(rows[q]) \in Nat /\ Dropped(q) \in Nat
        /\ Len(rows[q]) + Dropped(q) = fetched[q]
        /\ \A i \in 1 .. Len(rows[q]) : rows[q][i] = Dropped(q) + i
    BY QueryFacts DEF RowsInPlace
  <2>3. ASSUME NEW i \in 1 .. Len(longer)
        PROVE  longer[i] = Dropped(q) + i
    <3>1. i \in 1 .. Len(rows[q]) \/ i = Len(rows[q]) + 1
      BY <1>2, <2>2
    <3>2. QED
      BY <1>2, <2>2, <3>1
  <2>4. Len(longer) = fetched[q] + 1 - Dropped(q) /\ Dropped(q) >= 0
    BY <1>2, <2>2
  <2>5. \A i \in 1 .. Len(longer) : longer[i] = Dropped(q) + i
    BY <2>3
  <2>6. Dropped(q)' = Dropped(q)
    BY <2>1 DEF Dropped
  <2>7. Dropped(q)' >= 0 /\ Len(rows'[q]) = fetched'[q] - Dropped(q)'
    BY <1>1, <2>1, <2>2, <2>4, <2>6
  <2>8. \A i \in 1 .. Len(rows'[q]) : rows'[q][i] = Dropped(q)' + i
    BY <2>1, <2>5, <2>6
  <2>9. rows'[q] # <<>>
    BY <1>2, <2>1
  <2>10. QED
    BY <2>7, <2>8, <2>9 DEF RowsInPlace
<1>6. \A p \in Queries \ {q} : RowsInPlace(p)'
  BY DEF RowResponse, RowsInPlace, Dropped, RowInv, QueryTypeOK
<1>7. \A p \in Queries : Answerable(p)'
  BY DEF RowResponse, RowInv, Answerable, Constructed
<1>8. QED
  BY <1>4, <1>5, <1>6, <1>7 DEF RowInv

LEMMA AnswerableStep ==
  ASSUME QueryTypeOK, \A q \in Queries : Answerable(q), [RowNext]_rowvars
  PROVE  \A q \in Queries : Answerable(q)'
<1> USE DEF QueryTypeOK, Answerable, Constructed
<1>1. ASSUME NEW q \in Queries, NewQuery(q) PROVE \A p \in Queries : Answerable(p)'
  <2>1. CASE qlife' = [qlife EXCEPT ![q] = "live"]
             /\ active' = [active EXCEPT ![q] = TRUE] /\ open' = open \cup {q}
    BY <1>1, <2>1 DEF NewQuery
  <2>2. CASE qlife' = [qlife EXCEPT ![q] = "refused"] /\ UNCHANGED <<active, open>>
    BY <1>1, <2>2 DEF NewQuery
  <2>3. QED
    BY <1>1, <2>1, <2>2 DEF NewQuery
<1>2. ASSUME NEW q \in Queries, Stop(q) PROVE \A p \in Queries : Answerable(p)'
  BY <1>2 DEF Stop
<1>3. ASSUME NEW q \in Queries, DestroyQuery(q)
      PROVE  \A p \in Queries : Answerable(p)'
  <2>1. q \notin open' /\ qlife'[q] = "dead" /\ UNCHANGED iter /\ iter[q] # "next"
    BY <1>3 DEF DestroyQuery, Settled
  <2>2. \A p \in Queries \ {q} : /\ p \in open' <=> p \in open
                                /\ qlife'[p] = qlife[p] /\ active'[p] = active[p]
    BY <1>3 DEF DestroyQuery
  <2>3. QED
    BY <2>1, <2>2
<1>4. ASSUME NEW q \in Queries, Begin(q) \/ Increment(q) \/ TakeRow(q) \/ NoRow(q)
      PROVE  \A p \in Queries : Answerable(p)'
  BY <1>4 DEF Begin, Increment, TakeRow, NoRow
<1>5. ASSUME NEW q \in Queries, RowResponse(q) \/ FinalResponse(q)
      PROVE  \A p \in Queries : Answerable(p)'
  BY <1>5 DEF RowResponse, FinalResponse
<1>6. ASSUME UNCHANGED queryvars PROVE \A p \in Queries : Answerable(p)'
  BY <1>6 DEF queryvars
<1>7. QED
  BY <1>1, <1>2, <1>3, <1>4, <1>5, <1>6
     DEF RowNext, AwaitRow, LoopReturns, OtherCalls, RowTerminated, rowvars

LEMMA RowInvStep == RowInv /\ [RowNext]_rowvars => RowInv'
<1> SUFFICES ASSUME RowInv, [RowNext]_rowvars,
                    \A q \in Queries : Answerable(q)'
             PROVE  RowInv'
  BY AnswerableStep DEF RowInv
<1> USE DEF RowInv, QueryTypeOK
<1>1. ASSUME NEW q \in Queries, NewQuery(q) \/ Stop(q) \/ DestroyQuery(q)
      PROVE  RowInv'
  <2>1. QueryTypeOK'
    BY <1>1 DEF NewQuery, Stop, DestroyQuery
  <2>2. UNCHANGED <<fetched, rows, iter, seen>>
    BY <1>1 DEF NewQuery, Stop, DestroyQuery
  <2>3. QED
    BY <2>1, <2>2 DEF RowsInPlace, Dropped
<1>2. ASSUME NEW q \in Queries, Begin(q)
      PROVE  RowInv'
  BY <1>2 DEF Begin, RowsInPlace, Dropped
<1>3. ASSUME NEW q \in Queries, Increment(q)
      PROVE  RowInv'
  <2>1. rows[q] # <<>> /\ Len(seen[q]) = Dropped(q) + 1
    BY <1>3 DEF Increment, RowsInPlace, Dropped
  <2>2. /\ Tail(rows[q]) \in Seq(Nat)
        /\ Len(Tail(rows[q])) = Len(rows[q]) - 1
        /\ \A i \in 1 .. Len(rows[q]) - 1 : Tail(rows[q])[i] = rows[q][i + 1]
    BY <2>1
  <2>3. QueryTypeOK'
    BY <1>3, <2>2 DEF Increment
  <2>4. RowsInPlace(q)'
    BY <1>3, <2>1, <2>2 DEF Increment, RowsInPlace, Dropped
  <2>5. \A p \in Queries \ {q} : RowsInPlace(p)'
    BY <1>3 DEF Increment, RowsInPlace, Dropped
  <2>6. QED
    BY <1>3, <2>3, <2>4, <2>5 DEF Increment
<1>4. ASSUME NEW q \in Queries, TakeRow(q)
      PROVE  RowInv'
  <2>1. /\ Head(rows[q]) \in Nat
        /\ Append(seen[q], Head(rows[q])) \in Seq(Nat)
        /\ Len(Append(seen[q], Head(rows[q]))) = Len(seen[q]) + 1
    BY <1>4 DEF TakeRow
  <2>2. QueryTypeOK'
    BY <1>4, <2>1 DEF TakeRow
  <2>3. RowsInPlace(q)'
    BY <1>4, <2>1 DEF TakeRow, RowsInPlace, Dropped
  <2>4. \A p \in Queries \ {q} : RowsInPlace(p)'
    BY <1>4 DEF TakeRow, RowsInPlace, Dropped
  <2>5. QED
    BY <1>4, <2>2, <2>3, <2>4 DEF TakeRow
<1>5. ASSUME NEW q \in Queries, NoRow(q)
      PROVE  RowInv'
  BY <1>5 DEF NoRow, RowsInPlace, Dropped
<1>6. ASSUME NEW q \in Queries, RowResponse(q)
      PROVE  RowInv'
  BY <1>6, RowInvResponse
<1>7. ASSUME NEW q \in Queries, FinalResponse(q)
      PROVE  RowInv'
  BY <1>7 DEF FinalResponse, RowsInPlace, Dropped
<1>8. ASSUME UNCHANGED queryvars
      PROVE  RowInv'
  BY <1>8 DEF queryvars, RowsInPlace, Dropped
<1>9. QED
  BY <1>1, <1>2, <1>3, <1>4, <1>5, <1>6, <1>7, <1>8
     DEF RowNext, AwaitRow, LoopReturns, OtherCalls, RowTerminated, rowvars

LEMMA RowInvariant == RowSpec => []RowInv
BY RowInvInit, RowInvStep, PTL DEF RowSpec

(* An iterator that waits has a query with responses to come, unless it is  *)
(* one that could not be issued: together with the library's promise to end *)
(* every query, no iteration hangs.                                         *)
THEOREM AwaitsAnswered ==
  ASSUME ~IterateFailed
  PROVE  RowSpec => []AwaitsAnswer
<1>1. RowInv => AwaitsAnswer
  BY DEF RowInv, Answerable, AwaitsAnswer, Constructed
<1>2. QED
  BY <1>1, RowInvariant, PTL

(* The library never calls back into a query object that is gone: the       *)
(* destructor of a view query cancels it exactly when it has to.            *)
THEOREM QueriesLive == RowSpec => []NoDanglingQuery
<1>1. RowInv => NoDanglingQuery
  BY DEF RowInv, QueryTypeOK, Answerable, NoDanglingQuery
<1>2. QED
  BY <1>1, RowInvariant, PTL

-----------------------------------------------------------------------------
(* The promise of RowStream. *)

LEMMA StreamInit == RowInit => Stream!Init
BY DEF RowInit, Stream!Init

LEMMA StreamStep ==
  ASSUME RowInv, RowInv', [RowNext]_rowvars
  PROVE  [Stream!Next]_Stream!vars
<1> DEFINE stream == [q \in Queries |->
                        IF q \in open THEN "open"
                        ELSE IF qlife[q] = "unborn" THEN "new" ELSE "closed"]
           ended  == [q \in Queries |-> iter[q] = "end"]
<1> USE DEF QueryTypeOK
<1>0. QueryTypeOK /\ QueryTypeOK' /\ \A q \in open : qlife[q] = "live" /\ active[q]
  BY DEF RowInv, Answerable
<1>1. ASSUME NEW q \in Queries, NewQuery(q)
      PROVE  Stream!Open(q)
  <2>1. q \notin open /\ stream[q] = "new"
    BY <1>0, <1>1 DEF NewQuery
  <2>2. stream' \in {[stream EXCEPT ![q] = s] : s \in {"open", "closed"}}
    <3>1. CASE open' = open \cup {q}
      <4>1. stream' = [stream EXCEPT ![q] = "open"]
        BY <1>0, <1>1, <3>1 DEF NewQuery
      <4>2. QED
        BY <4>1
    <3>2. CASE open' = open /\ qlife' = [qlife EXCEPT ![q] = "refused"]
      <4>1. stream' = [stream EXCEPT ![q] = "closed"]
        BY <1>0, <1>1, <2>1, <3>2 DEF NewQuery
      <4>2. QED
        BY <4>1
    <3>3. QED
      BY <1>1, <3>1, <3>2 DEF NewQuery
  <2>3. UNCHANGED <<fetched, seen, ended>>
    BY <1>1 DEF NewQuery
  <2>4. QED
    BY <2>1, <2>2, <2>3 DEF Stream!Open
<1>2. ASSUME NEW q \in Queries, q \in open,
             open' = open \ {q}, qlife'[q] # "unborn",
             \A p \in Queries \ {q} : qlife'[p] = qlife[p],
             UNCHANGED <<fetched, seen, iter>>
      PROVE  Stream!Close(q)
  <2>1. stream[q] = "open" /\ stream' = [stream EXCEPT ![q] = "closed"]
    <3>1. stream'[q] = "closed" /\ stream[q] = "open"
      BY <1>2
    <3>2. \A p \in Queries \ {q} : stream'[p] = stream[p]
      BY <1>2
    <3>3. QED
      BY <3>1, <3>2
  <2>2. QED
    BY <1>2, <2>1 DEF Stream!Close
<1>3. ASSUME UNCHANGED <<open, fetched, seen, iter>>,
             \A p \in Queries : qlife'[p] = "unborn" <=> qlife[p] = "unborn"
      PROVE  UNCHANGED Stream!vars
  BY <1>3 DEF Stream!vars
<1>4. ASSUME NEW q \in Queries, Stop(q) \/ DestroyQuery(q)
      PROVE  [Stream!Next]_Stream!vars
  <2>1. CASE q \in open
    <3>1. Stream!Close(q)
      BY <1>0, <1>2, <1>4, <2>1 DEF Stop, DestroyQuery, Constructed
    <3>2. QED
      BY <3>1 DEF Stream!Next
  <2>2. CASE q \notin open
    <3>1. UNCHANGED <<open, fetched, seen, iter>>
      BY <1>4, <2>2 DEF Stop, DestroyQuery
    <3>2. \A p \in Queries : qlife'[p] = "unborn" <=> qlife[p] = "unborn"
      BY <1>0, <1>4 DEF Stop, DestroyQuery, Constructed
    <3>3. QED
      BY <1>3, <3>1, <3>2
  <2>3. QED
    BY <2>1, <2>2
<1>5. ASSUME NEW q \in Queries, Begin(q) \/ Increment(q)
      PROVE  UNCHANGED Stream!vars
  <2>1. \A p \in Queries : iter'[p] = iter[p] \/ (iter[p] # "end" /\ iter'[p] # "end")
    BY <1>0, <1>5 DEF Begin, Increment
  <2>2. UNCHANGED <<qlife, open, fetched, seen>>
    BY <1>5 DEF Begin, Increment
  <2>3. QED
    BY <2>1, <2>2 DEF Stream!vars
<1>6. ASSUME NEW q \in Queries, TakeRow(q)
      PROVE  Stream!See(q)
  <2>1. Head(rows[q]) = Len(seen[q]) + 1 /\ Len(seen[q]) < fetched[q]
    <3>1. Len(rows[q]) > 0 /\ Head(rows[q]) = rows[q][1]
      BY <1>6, QueryFacts, EmptySeq DEF TakeRow
    <3>2. Dropped(q) = Len(seen[q])
      BY <1>6 DEF TakeRow, Dropped
    <3>3. /\ Len(rows[q]) = fetched[q] - Dropped(q)
          /\ \A i \in 1 .. Len(rows[q]) : rows[q][i] = Dropped(q) + i
      BY QueryFacts DEF RowsInPlace
    <3>4. /\ Len(rows[q]) \in Nat /\ Len(seen[q]) \in Nat /\ fetched[q] \in Nat
      BY QueryFacts
    <3>5. QED
      BY <3>1, <3>2, <3>3, <3>4
  <2>2. ended' = ended /\ ~ended[q]
    BY <1>0, <1>6 DEF TakeRow
  <2>3. UNCHANGED <<stream, fetched>>
    BY <1>6 DEF TakeRow
  <2>4. seen' = [seen EXCEPT ![q] = Append(@, Len(@) + 1)]
    BY <1>6, <2>1 DEF TakeRow
  <2>5. QED
    BY <2>1, <2>2, <2>3, <2>4 DEF Stream!See
<1>7. ASSUME NEW q \in Queries, NoRow(q)
      PROVE  Stream!End(q)
  <2>1. Len(seen[q]) = fetched[q]
    <3>1. Len(rows[q]) = 0 /\ Dropped(q) = Len(seen[q])
      BY <1>7 DEF NoRow, Dropped
    <3>2. QED
      BY <3>1, QueryFacts DEF RowsInPlace
  <2>2. stream[q] = "closed"
    BY <1>0, <1>7 DEF NoRow, RowInv, Answerable, Constructed
  <2>3. ended' = [ended EXCEPT ![q] = TRUE]
    BY <1>0, <1>7 DEF NoRow
  <2>4. QED
    BY <1>7, <2>1, <2>2, <2>3 DEF NoRow, Stream!End
<1>8. ASSUME NEW q \in Queries, RowResponse(q)
      PROVE  Stream!Fetch(q)
  BY <1>8 DEF RowResponse, Stream!Fetch
<1>9. ASSUME NEW q \in Queries, FinalResponse(q)
      PROVE  Stream!Close(q)
  BY <1>2, <1>9 DEF FinalResponse
<1>10. ASSUME UNCHANGED queryvars
       PROVE  UNCHANGED Stream!vars
  BY <1>3, <1>10 DEF queryvars
<1>11. QED
  <2>1. \A q \in Queries :
          \/ NewQuery(q) \/ TakeRow(q) \/ NoRow(q)
          \/ RowResponse(q) \/ FinalResponse(q)
          => Stream!Next
    BY <1>1, <1>6, <1>7, <1>8, <1>9 DEF Stream!Next
  <2>2. QED
    BY <2>1, <1>4, <1>5, <1>10
       DEF RowNext, AwaitRow, LoopReturns, OtherCalls, RowTerminated, rowvars

(* Iterating over a query shows every row that arrived, once and in order,  *)
(* and ends only when the query has: no breakout() on behalf of another     *)
(* operation, and no return of the library's own, is taken for the end.     *)
THEOREM RowsKept == RowSpec => StreamsRows
<1>1. RowInv /\ RowInv' /\ [RowNext]_rowvars => [Stream!Next]_Stream!vars
  BY StreamStep
<1>2. QED
  BY <1>1, StreamInit, RowInvariant, PTL DEF RowSpec, StreamsRows, Stream!Spec

-----------------------------------------------------------------------------
(* Rows are handed over one by one. *)

LEMMA IncrementalInit == RowInit => Incremental
BY ClientAssumption DEF RowInit, Init, Incremental

LEMMA IncrementalStep ==
  ASSUME [RowNext]_rowvars, Incremental, OpInv,
         BatchInv, RemainingExact, BatchInv', AllCounted', RemainingExact'
  PROVE  Incremental'
<1> SUFFICES ASSUME NEW q \in Queries,
                    call' = q, cur' = "none", rows'[q] # <<>> \/ ~active'[q],
                    Credited' = {}
             PROVE  stop'
  BY DEF Incremental
<1> USE ClientAssumption DEF Incremental, rowvars, queryvars
<1>0. remaining' = 0 /\ (Credited = {} => remaining = 0) /\ AllCounted
  <2>1. AllCounted
    BY ClientStep, UncountedStays
  <2>2. QED
    BY <2>1, FS_EmptySet DEF RemainingExact
<1>1. CASE UNCHANGED <<vars, rows, active>>
  BY <1>1 DEF vars, libvars, opvars, Credited, Outstanding, LostStats
<1>2. ASSUME NEW p \in Queries,
             NewQuery(p) \/ Increment(p) \/ Stop(p) \/ DestroyQuery(p)
      PROVE  stop'
  BY <1>2 DEF NewQuery, Increment, Stop, DestroyQuery, AppRuns, Idle, InCallback, vars
<1>3. ASSUME NEW p \in Queries, AwaitRow(p)
      PROVE  stop'
  BY <1>3 DEF AwaitRow, Wait
<1>4. ASSUME NEW p \in Queries, RowResponse(p) \/ FinalResponse(p)
      PROVE  stop'
  <2>1. Breakout
    BY <1>4 DEF RowResponse, FinalResponse
  <2>2. Credited = {}
    BY <2>1 DEF Breakout, opvars, Credited, Outstanding, LostStats
  <2>3. QED
    BY <1>0, <2>1, <2>2 DEF Breakout
<1>5. CASE LoopReturns
  BY <1>5 DEF LoopReturns, Return
<1>6. CASE FinishDispatch /\ UNCHANGED <<rows, active>>
  <2>1. cur \in Credited
    BY <1>0, <1>6 DEF FinishDispatch, BatchInv, TypeOK, AllCounted, Credited, Outstanding
  <2>2. remaining # 0
    <3>1. IsFiniteSet(Credited)
      BY Books, OpsCardinality DEF BatchInv
    <3>2. QED
      BY <2>1, <3>1, FS_EmptySet DEF RemainingExact
  <2>3. QED
    BY <1>0, <1>6, <2>2 DEF FinishDispatch
<1>7. CASE Calls /\ ~FinishDispatch /\ UNCHANGED <<rows, active>>
  <2>1. call = call' => ~AppRuns \/ cur # cur'
    BY DEF AppRuns, Idle, InCallback
  <2>2. CASE Connect \/ DestroyClient
    BY <1>7, <2>2 DEF Connect, DestroyClient, libvars, opvars,
                      Credited, Outstanding, LostStats
  <2>3. CASE \E c \in Contexts :
               NewContext(c) \/ Reset(c) \/ Submit(c) \/ Bail(c) \/ DestroyContext(c)
    BY <2>1, <2>3 DEF NewContext, Reset, Submit, Bail, DestroyContext, AppRuns
  <2>4. CASE \/ \E c \in Contexts, op \in Ops : Add(c, op)
             \/ \E c, d \in Contexts : MoveContext(d, c)
    BY <2>1, <2>4 DEF Add, MoveContext
  <2>5. CASE Wait("wait")
    BY <2>5 DEF Wait
  <2>6. CASE \E op \in Ops : Run(op) \/ Endure(op)
    BY <2>6 DEF Run, Endure, Idle
  <2>7. CASE \E op \in Ops : HandleSingle(op) \/ HandleStats(op)
    BY <2>7 DEF HandleSingle, HandleStats, Deliver
  <2>8. QED
    BY <1>7, <2>2, <2>3, <2>4, <2>5, <2>6, <2>7 DEF Calls
<1>8. \A p \in Queries :
        Begin(p) \/ TakeRow(p) \/ NoRow(p) => UNCHANGED <<vars, rows, active>>
  BY DEF Begin, TakeRow, NoRow
<1>9. RowTerminated => UNCHANGED <<vars, rows, active>>
  BY DEF RowTerminated, Terminated
<1>10. OtherCalls => Calls /\ UNCHANGED <<rows, active>>
  BY DEF OtherCalls
<1>11. QED
  BY <1>1, <1>2, <1>3, <1>4, <1>5, <1>6, <1>7, <1>8, <1>9, <1>10 DEF RowNext

(* Until run() sends something an iterator that waits gets a row as soon as *)
(* it has come, unless a counted operation is outstanding: rows do not pile *)
(* up behind a loop that nobody breaks out of ...                           *)
THEOREM IncrementalUntilRun == RowSpec => [](AllCounted => Incremental)
<1>1. (AllCounted => Incremental) /\ [RowNext]_rowvars
        /\ BatchInv /\ OpInv /\ (AllCounted => RemainingExact)
        /\ BatchInv' /\ (AllCounted => RemainingExact)'
        => (AllCounted => Incremental)'
  <2> SUFFICES ASSUME AllCounted => Incremental, [RowNext]_rowvars, BatchInv, OpInv,
                      AllCounted => RemainingExact, BatchInv',
                      (AllCounted => RemainingExact)', AllCounted'
               PROVE  Incremental'
    OBVIOUS
  <2>1. AllCounted
    BY ClientStep, UncountedStays
  <2>2. QED
    BY <2>1, IncrementalStep
<1>2. QED
  BY <1>1, IncrementalInit, RowsOnClient, ExactInvariant, PTL DEF RowSpec

(* ... and always without run().                                            *)
THEOREM RowsIncremental ==
  ASSUME Uses \subseteq {"endure"}
  PROVE  RowSpec => []Incremental
BY IncrementalUntilRun, RowsOnClient, OpInvariant, CountedUses, PTL

=============================================================================
