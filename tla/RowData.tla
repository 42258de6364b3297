------------------------------ MODULE RowData -------------------------------
(***************************************************************************)
(* What the rows of queries contain: ViewRow (views.h) and QueryRow        *)
(* (query.h).  The fields of a row are Buffers that point into the         *)
(* response the library is delivering, until detatch() copies them into a  *)
(* block of the row's own, which its copies share.  A ViewRow may have the *)
(* document of the row, a GetResponse: it is the object of GetValue with   *)
(* the row's name, and what copying a row does to it is GetValue's.        *)
(* (The object of a QueryRow never has a value.)  m_hasdoc is left out.    *)
(***************************************************************************)
EXTENDS GetValue

CONSTANTS
  Rows,       (* ViewRow and QueryRow objects                               *)
  Blocks      (* what detatch() allocates; used once                        *)

ASSUME RowDataAssumption ==
  /\ Rows \subseteq Objects
  /\ "none" \notin Rows \cup Blocks /\ "response" \notin Blocks /\ "gone" \notin Blocks

VARIABLES
  kind,       (* rows: "view" or "query"                                    *)
  empty,      (* whether they have no bytes                                 *)
  data,       (* where their fields point: into a block, into the response  *)
              (* that is being delivered, or into one that is gone          *)
  m_buf,      (* their own block, or "none"; it lives as long as it is one's*)
  moved,      (* whether the row was moved from                             *)
  blocks,     (* the blocks allocated so far                                *)
  rows,       (* the rows in the RowProvider of the query                   *)
  temp,       (* the row object made for the response, or "none"            *)
  stage       (* "none", "fill": in the constructor of the row, "row": in   *)
              (* handle_row, "callback": in one of the application's own,   *)
              (* "end": after the callback                                  *)

rowvars   == <<kind, empty, data, m_buf, moved, blocks>>
stagevars == <<temp, stage>>
allvars   == <<vars, rowvars, rows, stagevars>>

RowDataInit ==
  /\ Init
  /\ kind = [r \in Rows |-> "query"]
  /\ empty = [r \in Rows |-> FALSE]
  /\ data = [r \in Rows |-> "gone"]
  /\ m_buf = [r \in Rows |-> "none"]
  /\ moved = [r \in Rows |-> FALSE]
  /\ blocks = {}
  /\ rows = {}
  /\ temp = "none"
  /\ stage = "none"

(* The application has the thread, and which rows are its own to change.    *)
AppRuns == stage \in {"none", "callback"}
Own(r)  == r \in Rows \ rows /\ life[r] = "live" /\ ~moved[r]

-----------------------------------------------------------------------------
(* A row arrives: the constructors of ViewRow and QueryRow. *)

RowArrives(r, k, e) ==
  /\ stage = "none"
  /\ Construct(r)
  /\ kind' = [kind EXCEPT ![r] = k]
  /\ empty' = [empty EXCEPT ![r] = e]
  /\ data' = [data EXCEPT ![r] = "response"]
  /\ temp' = r
  /\ stage' = "fill"
  /\ UNCHANGED <<m_buf, moved, blocks, rows>>

(* Bound: the query copies a row only while there is an object and a block  *)
(* for it.                                                                  *)
Room == (\E q \in Rows : life[q] = "unborn") /\ blocks # Blocks

FillDocument ==
  /\ stage = "fill"
  /\ \/ /\ kind[temp] = "view"
        /\ \/ \E b \in Buffers : HandleShared(temp, b) \/ HandleAllocated(temp, b)
           \/ HandleNoValue(temp)
     \/ UNCHANGED vars
  /\ \/ stage' = "row" /\ Room
     \/ stage' = "callback"
  /\ UNCHANGED <<rowvars, rows, temp>>

(* detatch(): not twice, and a QueryRow not if it is empty. *)
DetatchNeeded(r) == m_buf[r] = "none" /\ (kind[r] = "view" \/ ~empty[r])

(* The fields of q are those of r, as the compiler's copy constructor and   *)
(* assignment leave them.                                                   *)
SameFields(q, r) ==
  /\ kind' = [kind EXCEPT ![q] = kind[r]]
  /\ empty' = [empty EXCEPT ![q] = empty[r]]
  /\ data' = [data EXCEPT ![q] = data[r]]
  /\ m_buf' = [m_buf EXCEPT ![q] = m_buf[r]]
  /\ UNCHANGED <<moved, blocks>>

(* Mutant: the row is put into the queue first and detached afterwards. *)
HandleRowDetatchLater(q) ==
  /\ stage = "row"
  /\ Copy(q, temp)
  /\ SameFields(q, temp)
  /\ rows' = rows \cup {q}
  /\ stage' = "end"
  /\ UNCHANGED temp

(* ViewQuery::handle_row and the callback of Query: detatch(), and rp_add,  *)
(* which copies the row it is given.                                        *)
HandleRow(q) ==
  /\ stage = "row"
  /\ Copy(q, temp)
  /\ \/ /\ ~DetatchNeeded(temp)
        /\ SameFields(q, temp)
     \/ /\ DetatchNeeded(temp)
        /\ \E b \in Blocks \ blocks :
             /\ blocks' = blocks \cup {b}
             /\ data' = [data EXCEPT ![temp] = b, ![q] = b]
             /\ m_buf' = [m_buf EXCEPT ![temp] = b, ![q] = b]
        /\ kind' = [kind EXCEPT ![q] = kind[temp]]
        /\ empty' = [empty EXCEPT ![q] = empty[temp]]
        /\ UNCHANGED moved
  /\ rows' = rows \cup {q}
  /\ stage' = "end"
  /\ UNCHANGED temp

CallbackReturns ==
  /\ stage = "callback"
  /\ stage' = "end"
  /\ UNCHANGED <<vars, rowvars, rows, temp>>

(* Mutant: the row that _dispatch made is not destroyed as it should be. *)
EndRowKeepsDocument ==
  /\ stage = "end"
  /\ DestroyKeeps(temp)
  /\ m_buf' = [m_buf EXCEPT ![temp] = "none"]
  /\ data' = [r \in Rows |-> IF data[r] = "response" THEN "gone" ELSE data[r]]
  /\ temp' = "none"
  /\ stage' = "none"
  /\ UNCHANGED <<kind, empty, moved, blocks, rows>>

(* _dispatch destroys its row, and the library takes back the response:     *)
(* whatever points there dangles.  A row lets go of its block.              *)
EndRow ==
  /\ stage = "end"
  /\ Destroy(temp)
  /\ m_buf' = [m_buf EXCEPT ![temp] = "none"]
  /\ data' = [r \in Rows |-> IF data[r] = "response" THEN "gone" ELSE data[r]]
  /\ temp' = "none"
  /\ stage' = "none"
  /\ UNCHANGED <<kind, empty, moved, blocks, rows>>

-----------------------------------------------------------------------------
(* What the application does with rows. *)

Detatch(r) ==
  /\ AppRuns /\ Own(r)
  /\ DetatchNeeded(r)
  /\ data[r] = "response"
  /\ \E b \in Blocks \ blocks :
       /\ blocks' = blocks \cup {b}
       /\ data' = [data EXCEPT ![r] = b]
       /\ m_buf' = [m_buf EXCEPT ![r] = b]
  /\ UNCHANGED <<vars, kind, empty, moved, rows, stagevars>>

CopyRow(q, r) ==
  /\ AppRuns
  /\ ~moved[r]
  /\ Copy(q, r)
  /\ SameFields(q, r)
  /\ UNCHANGED <<rows, stagevars>>

(* A move takes the block and copies the document, which cannot be moved.   *)
MoveRow(q, r) ==
  /\ AppRuns
  /\ Own(r)
  /\ Copy(q, r)
  /\ kind' = [kind EXCEPT ![q] = kind[r]]
  /\ empty' = [empty EXCEPT ![q] = empty[r]]
  /\ data' = [data EXCEPT ![q] = data[r]]
  /\ m_buf' = [m_buf EXCEPT ![q] = m_buf[r], ![r] = "none"]
  /\ moved' = [moved EXCEPT ![r] = TRUE]
  /\ UNCHANGED <<blocks, rows, stagevars>>

AssignRow(q, r) ==
  /\ AppRuns
  /\ Own(q) /\ ~moved[r] /\ kind[q] = kind[r]
  /\ Assign(q, r)
  /\ SameFields(q, r)
  /\ UNCHANGED <<rows, stagevars>>

(* A row lets go of its block.  The iterator's ++, and the destructor of    *)
(* the query, take a row out of the queue.                                  *)
DestroyRow(r) ==
  /\ AppRuns
  /\ r # temp
  /\ Destroy(r)
  /\ m_buf' = [m_buf EXCEPT ![r] = "none"]
  /\ rows' = rows \ {r}
  /\ UNCHANGED <<kind, empty, data, moved, blocks, stagevars>>

(* GetResponses that are not of rows: results of calls and batches, and the *)
(* application's copies of documents.                                       *)
OtherValues ==
  /\ AppRuns
  /\ \/ \E o \in Objects \ Rows :
          \/ Construct(o) \/ HandleNoValue(o) \/ Clear(o) \/ Destroy(o)
          \/ \E b \in Buffers : HandleShared(o, b) \/ HandleAllocated(o, b)
          \/ \E other \in Objects : Copy(o, other) \/ Assign(o, other)
     \/ \E b \in Buffers : LibraryReleases(b)
  /\ UNCHANGED <<rowvars, rows, stagevars>>

RowDataTerminated ==
  /\ \A o \in Objects : life[o] # "live"
  /\ library = {} /\ stage = "none"
  /\ UNCHANGED allvars

RowDataNext ==
  \/ \E r \in Rows, k \in {"view", "query"}, e \in BOOLEAN : RowArrives(r, k, e)
  \/ FillDocument
  \/ \E q \in Rows : HandleRow(q)
  \/ CallbackReturns
  \/ EndRow
  \/ \E r \in Rows : Detatch(r) \/ DestroyRow(r)
  \/ \E q, r \in Rows : CopyRow(q, r) \/ MoveRow(q, r) \/ AssignRow(q, r)
  \/ OtherValues
  \/ RowDataTerminated

RowDataSpec == RowDataInit /\ [][RowDataNext]_allvars

-----------------------------------------------------------------------------
(* Properties. *)

RowDataTypeOK ==
  /\ kind \in [Rows -> {"view", "query"}]
  /\ empty \in [Rows -> BOOLEAN]
  /\ data \in [Rows -> Blocks \cup {"response", "gone"}]
  /\ m_buf \in [Rows -> Blocks \cup {"none"}]
  /\ moved \in [Rows -> BOOLEAN]
  /\ blocks \in SUBSET Blocks
  /\ rows \in SUBSET Rows
  /\ temp \in Rows \cup {"none"}
  /\ stage \in {"none", "fill", "row", "callback", "end"}

(* What the fields of a row point to is there: the response while it is     *)
(* being delivered, or a block that a row still has.                        *)
Readable(r) ==
  \/ empty[r]
  \/ data[r] = "response"
  \/ \E s \in Rows : life[s] = "live" /\ m_buf[s] = data[r]

(* "Makes the buffer scoped to the row itself": a row in the queue of the   *)
(* iterator, and any other that is detached or a copy of one, stays         *)
(* readable when the response it came in is gone, whichever of the rows     *)
(* that share the block are moved, assigned to or destroyed.                *)
RowsReadable ==
  \A r \in Rows :
    life[r] = "live" /\ ~moved[r] /\ (r \in rows \/ m_buf[r] # "none") => Readable(r)

(* Rows and their copies treat the documents as GetValue allows, so that    *)
(* what it says of shared values holds for them.                            *)
DocumentsAreValues == Spec

=============================================================================
