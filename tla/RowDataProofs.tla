---------------------------- MODULE RowDataProofs ----------------------------
(***************************************************************************)
(* Proofs about RowData, for any finite set of rows and responses and any  *)
(* buffers and blocks: its steps are GetValue's or leave the values alone, *)
(* so that the theorems of GetValueProofs hold of documents in rows, and a *)
(* row keeps what it has detached.                                         *)
(***************************************************************************)
EXTENDS RowData, GetValueProofs

(* A row's own block is the one its fields point into, and a dead row has   *)
(* none.                                                                    *)
OwnBlock ==
  \A r \in Rows : m_buf[r] # "none" => data[r] = m_buf[r] /\ life[r] = "live"

(* A row in the queue was constructed and, if it has any bytes, detached.   *)
QueueDetached ==
  \A r \in rows :
    /\ life[r] # "unborn"
    /\ life[r] = "live" => m_buf[r] # "none" \/ empty[r]

RowDataInv ==
  /\ RowDataTypeOK
  /\ life \in [Objects -> {"unborn", "live", "dead"}]
  /\ stage # "none" => temp \in Rows
  /\ OwnBlock
  /\ QueueDetached

-----------------------------------------------------------------------------
LEMMA RowDataInitInv == RowDataInit => RowDataInv
BY RowDataAssumption
   DEF RowDataInit, Init, RowDataInv, RowDataTypeOK, OwnBlock, QueueDetached

(* A row comes into being, with the fields and the block of another.        *)
LEMMA SameFieldsStep ==
  ASSUME RowDataInv, NEW q \in Rows, NEW r \in Rows, q \notin rows, life[r] = "live",
         SameFields(q, r), life' = [life EXCEPT ![q] = "live"],
         UNCHANGED <<temp, rows>>, stage' = stage
  PROVE  RowDataInv'
<1> USE RowDataAssumption DEF RowDataInv, SameFields
<1>1. RowDataTypeOK'
  BY DEF RowDataTypeOK
<1>2. OwnBlock' /\ QueueDetached'
  BY DEF OwnBlock, QueueDetached, RowDataTypeOK
<1>3. QED
  BY <1>1, <1>2

(* The values change and the rows stay alive. *)
LEMMA ValuesOnlyStep ==
  ASSUME RowDataInv, UNCHANGED <<rowvars, rows, temp>>,
         life' \in [Objects -> {"unborn", "live", "dead"}],
         \A r \in Rows : life'[r] = life[r],
         stage' \in {"none", "fill", "row", "callback", "end"},
         stage' # "none" => temp \in Rows
  PROVE  RowDataInv'
BY DEF RowDataInv, RowDataTypeOK, OwnBlock, QueueDetached, rowvars

LEMMA RowDataInvStep == RowDataInv /\ [RowDataNext]_allvars => RowDataInv'
<1> SUFFICES ASSUME RowDataInv, [RowDataNext]_allvars PROVE RowDataInv'
  OBVIOUS
<1> USE RowDataAssumption
<1>1. ASSUME NEW r \in Rows, NEW k \in {"view", "query"}, NEW e \in BOOLEAN,
             RowArrives(r, k, e)
      PROVE  RowDataInv'
  <2> USE <1>1 DEF RowArrives, Construct, RowDataInv
  <2>1. RowDataTypeOK'
    BY DEF RowDataTypeOK
  <2>2. OwnBlock' /\ QueueDetached'
    BY DEF OwnBlock, QueueDetached, RowDataTypeOK
  <2>3. QED
    BY <2>1, <2>2
<1>2. CASE FillDocument
  <2>1. life' = life
    BY <1>2 DEF FillDocument, HandleShared, HandleAllocated, HandleNoValue, vars
  <2>2. QED
    BY <1>2, <2>1, ValuesOnlyStep DEF FillDocument, RowDataInv
<1>3. ASSUME NEW q \in Rows, HandleRow(q) PROVE RowDataInv'
  <2> USE <1>3 DEF HandleRow, Copy, RowDataInv
  <2>1. temp \in Rows /\ q \notin rows /\ q # temp
    BY DEF QueueDetached
  <2>2. CASE ~DetatchNeeded(temp)
    <3>1. RowDataTypeOK'
      BY <2>1, <2>2 DEF RowDataTypeOK, SameFields
    <3>2. OwnBlock'
      BY <2>1, <2>2 DEF OwnBlock, RowDataTypeOK, SameFields
    <3>3. QueueDetached'
      BY <2>1, <2>2 DEF QueueDetached, RowDataTypeOK, SameFields, DetatchNeeded
    <3>4. QED
      BY <2>1, <3>1, <3>2, <3>3
  <2>3. CASE DetatchNeeded(temp)
    <3>1. PICK b \in Blocks \ blocks :
            /\ blocks' = blocks \cup {b}
            /\ data' = [data EXCEPT ![temp] = b, ![q] = b]
            /\ m_buf' = [m_buf EXCEPT ![temp] = b, ![q] = b]
      BY <2>3
    <3>2. RowDataTypeOK'
      BY <2>1, <2>3, <3>1 DEF RowDataTypeOK
    <3>3. OwnBlock' /\ QueueDetached'
      BY <2>1, <2>3, <3>1 DEF OwnBlock, QueueDetached, RowDataTypeOK
    <3>4. QED
      BY <2>1, <3>2, <3>3
  <2>4. QED
    BY <2>2, <2>3
<1>4. CASE CallbackReturns
  BY <1>4, ValuesOnlyStep DEF CallbackReturns, RowDataInv, vars
<1>5. CASE EndRow
  <2> USE <1>5 DEF EndRow, Destroy, RowDataInv
  <2>1. RowDataTypeOK'
    BY DEF RowDataTypeOK
  <2>2. OwnBlock' /\ QueueDetached'
    BY DEF OwnBlock, QueueDetached, RowDataTypeOK
  <2>3. QED
    BY <2>1, <2>2
<1>6. ASSUME NEW r \in Rows, Detatch(r) PROVE RowDataInv'
  <2> USE <1>6 DEF Detatch, RowDataInv, Own
  <2>1. RowDataTypeOK'
    BY DEF RowDataTypeOK, stagevars
  <2>2. OwnBlock' /\ QueueDetached'
    BY DEF OwnBlock, QueueDetached, RowDataTypeOK, vars
  <2>3. QED
    BY <2>1, <2>2 DEF stagevars, vars
<1>7. ASSUME NEW r \in Rows, DestroyRow(r) PROVE RowDataInv'
  <2> USE <1>7 DEF DestroyRow, Destroy, RowDataInv
  <2>1. RowDataTypeOK'
    BY DEF RowDataTypeOK, stagevars
  <2>2. OwnBlock' /\ QueueDetached'
    BY DEF OwnBlock, QueueDetached, RowDataTypeOK
  <2>3. QED
    BY <2>1, <2>2 DEF stagevars
<1>8. ASSUME NEW q \in Rows, NEW r \in Rows, CopyRow(q, r) PROVE RowDataInv'
  <2>1. q \notin rows
    BY <1>8 DEF CopyRow, Copy, RowDataInv, QueueDetached
  <2>2. QED
    BY <1>8, <2>1, SameFieldsStep DEF CopyRow, Copy, stagevars
<1>9. ASSUME NEW q \in Rows, NEW r \in Rows, MoveRow(q, r) PROVE RowDataInv'
  <2> USE <1>9 DEF MoveRow, Copy, RowDataInv, Own
  <2>1. q \notin rows /\ q # r
    BY DEF QueueDetached
  <2>2. RowDataTypeOK'
    BY DEF RowDataTypeOK, stagevars
  <2>3. OwnBlock' /\ QueueDetached'
    BY <2>1 DEF OwnBlock, QueueDetached, RowDataTypeOK
  <2>4. QED
    BY <2>2, <2>3 DEF stagevars
<1>10. ASSUME NEW q \in Rows, NEW r \in Rows, AssignRow(q, r) PROVE RowDataInv'
  <2>1. life' = [life EXCEPT ![q] = "live"]
    BY <1>10 DEF AssignRow, Assign, RowDataInv
  <2>2. q \notin rows /\ life[r] = "live"
    BY <1>10 DEF AssignRow, Assign, Own
  <2>3. QED
    BY <1>10, <2>1, <2>2, SameFieldsStep DEF AssignRow, stagevars
<1>11. CASE OtherValues
  <2> DEFINE RowsStay == /\ life' \in [Objects -> {"unborn", "live", "dead"}]
                         /\ \A r \in Rows : life'[r] = life[r]
  <2>1. RowsStay
    <3> USE DEF RowDataInv
    <3>1. ASSUME NEW o \in Objects \ Rows,
                 Construct(o) \/ HandleNoValue(o) \/ Clear(o) \/ Destroy(o)
          PROVE  RowsStay
      BY <3>1 DEF Construct, HandleNoValue, Clear, Destroy
    <3>2. ASSUME NEW o \in Objects \ Rows, NEW b \in Buffers,
                 HandleShared(o, b) \/ HandleAllocated(o, b)
          PROVE  RowsStay
      BY <3>2 DEF HandleShared, HandleAllocated
    <3>3. ASSUME NEW o \in Objects \ Rows, NEW other \in Objects,
                 Copy(o, other) \/ Assign(o, other)
          PROVE  RowsStay
      BY <3>3 DEF Copy, Assign
    <3>4. ASSUME NEW b \in Buffers, LibraryReleases(b)
          PROVE  RowsStay
      BY <3>4 DEF LibraryReleases
    <3>5. QED
      BY <1>11, <3>1, <3>2, <3>3, <3>4 DEF OtherValues
  <2>2. QED
    BY <1>11, <2>1, ValuesOnlyStep DEF OtherValues, stagevars, RowDataInv, RowDataTypeOK
<1>12. CASE UNCHANGED allvars
  BY <1>12, ValuesOnlyStep DEF allvars, stagevars, vars, RowDataInv, RowDataTypeOK
<1>13. QED
  BY <1>1, <1>2, <1>3, <1>4, <1>5, <1>6, <1>7, <1>8, <1>9, <1>10, <1>11, <1>12
     DEF RowDataNext, RowDataTerminated

LEMMA RowDataInvariant == RowDataSpec => []RowDataInv
BY RowDataInitInv, RowDataInvStep, PTL DEF RowDataSpec

-----------------------------------------------------------------------------
(* What a row does to its document is what GetValue allows.                 *)

LEMMA RowDataRefinesStep == RowDataInv /\ [RowDataNext]_allvars => [Next]_vars
<1> SUFFICES ASSUME RowDataInv, [RowDataNext]_allvars PROVE Next \/ UNCHANGED vars
  OBVIOUS
<1> USE RowDataAssumption DEF RowDataInv
<1>1. ASSUME NEW r \in Rows, NEW k \in {"view", "query"}, NEW e \in BOOLEAN,
             RowArrives(r, k, e)
      PROVE  Next
  BY <1>1 DEF RowArrives, Next
<1>2. CASE FillDocument
  <2>1. temp \in Objects
    BY <1>2 DEF FillDocument
  <2>2. QED
    BY <1>2, <2>1 DEF FillDocument, Next
<1>3. ASSUME NEW q \in Rows, HandleRow(q) PROVE Next
  <2>1. temp \in Objects
    BY <1>3 DEF HandleRow
  <2>2. Copy(q, temp)
    BY <1>3 DEF HandleRow
  <2>3. QED
    BY <2>1, <2>2 DEF Next
<1>4. CASE EndRow
  <2>1. temp \in Objects
    BY <1>4 DEF EndRow
  <2>2. QED
    BY <1>4, <2>1 DEF EndRow, Next
<1>5. ASSUME NEW r \in Rows, DestroyRow(r) PROVE Next
  BY <1>5 DEF DestroyRow, Next
<1>6. ASSUME NEW q \in Rows, NEW r \in Rows,
             CopyRow(q, r) \/ MoveRow(q, r) \/ AssignRow(q, r)
      PROVE  Next
  <2>1. Copy(q, r) \/ Assign(q, r)
    BY <1>6 DEF CopyRow, MoveRow, AssignRow
  <2>2. QED
    BY <2>1 DEF Next
<1>7. CASE OtherValues
  BY <1>7 DEF OtherValues, Next
<1>8. ASSUME NEW r \in Rows, Detatch(r) PROVE UNCHANGED vars
  BY <1>8 DEF Detatch
<1>9. CASE CallbackReturns \/ RowDataTerminated \/ UNCHANGED allvars
  BY <1>9 DEF CallbackReturns, RowDataTerminated, allvars
<1>10. QED
  BY <1>1, <1>2, <1>3, <1>4, <1>5, <1>6, <1>7, <1>8, <1>9 DEF RowDataNext

(* Everything that rows and their copies do to documents is a behaviour of  *)
(* GetResponses as GetValue has them.                                       *)
THEOREM RowsKeepValues == RowDataSpec => DocumentsAreValues
<1>1. RowDataInit => Init
  BY DEF RowDataInit
<1>2. QED
  BY <1>1, RowDataInvariant, RowDataRefinesStep, PTL
     DEF RowDataSpec, DocumentsAreValues, Spec

(* The count of a buffer is the number of the responses, documents of rows  *)
(* included, that share it.                                                 *)
THEOREM DocumentsCounted == RowDataSpec => []SharersCounted
BY RowsKeepValues, SharersExact DEF DocumentsAreValues

(* The document of a row, however often copied, is not in released memory.  *)
THEOREM DocumentsAlive == RowDataSpec => []ValueAlive
BY RowsKeepValues, ValuesAlive DEF DocumentsAreValues

(* Rows that are taken out of a queue leave no buffer behind.               *)
THEOREM DocumentsReleased == RowDataSpec => []NothingLeaks
BY RowsKeepValues, NothingLost DEF DocumentsAreValues

(* A row in the queue, a detached row and a copy of one stay readable when  *)
(* their response is gone.                                                  *)
THEOREM DetachedStays == RowDataSpec => []RowsReadable
<1>1. RowDataInv => RowsReadable
  <2> SUFFICES ASSUME RowDataInv, NEW r \in Rows, life[r] = "live",
                      r \in rows \/ m_buf[r] # "none"
               PROVE  Readable(r)
    BY DEF RowsReadable
  <2>1. m_buf[r] # "none" \/ empty[r]
    BY DEF RowDataInv, QueueDetached
  <2>2. QED
    BY <2>1 DEF Readable, RowDataInv, OwnBlock
<1>2. QED
  BY <1>1, RowDataInvariant, PTL

(* The buffers of documents go with the last row, copy of a row or response *)
(* that has one.                                                            *)
THEOREM DocumentsShared == RowDataSpec => ValuesShared
BY RowsKeepValues, SharingCorrect DEF DocumentsAreValues

=============================================================================
