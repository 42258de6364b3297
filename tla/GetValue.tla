------------------------------ MODULE GetValue ------------------------------
(***************************************************************************)
(* The value of a GetResponse (couchbase++.h, client.inl.h): where it is   *)
(* kept and who releases it.                                               *)
(*                                                                         *)
(* The value of a response is either in a buffer of the C library, which   *)
(* counts its references, or in a block that handle_response allocates and *)
(* that has the number of the responses that share it behind its last byte.*)
(* Responses are copied all the time: into the lists of batches, out of    *)
(* Client::get, with the rows of a view query that have documents, and by  *)
(* the callbacks of CallbackCommand.                                       *)
(***************************************************************************)
EXTENDS Naturals, FiniteSets

CONSTANTS
  Objects,    (* GetResponse objects; each lives once                       *)
  Buffers     (* buffers of the library and allocated blocks; used once     *)

ASSUME GetValueAssumption ==
  /\ IsFiniteSet(Objects)
  /\ "none" \notin Buffers

VARIABLES
  life,       (* objects: "unborn", "live" or "dead"                        *)
  value,      (* u.resp.value: the buffer it points into, or "none"         *)
  bufh,       (* whether u.resp.bufh is not NULL                            *)
  origin,     (* buffers: "unused", "library" or "allocated"                *)
  refs,       (* buffers: the library's count, or the one behind the value  *)
  library,    (* library: the buffers it holds a reference to itself        *)
  freed,      (* buffers that were released                                 *)
  content     (* buffers: what is read in them, "value" or "other"          *)

vars == <<life, value, bufh, origin, refs, library, freed, content>>

-----------------------------------------------------------------------------
Init ==
  /\ life = [o \in Objects |-> "unborn"]
  /\ value = [o \in Objects |-> "none"]
  /\ bufh = [o \in Objects |-> FALSE]
  /\ origin = [b \in Buffers |-> "unused"]
  /\ refs = [b \in Buffers |-> 0]
  /\ library = {}
  /\ freed = {}
  /\ content = [b \in Buffers |-> "other"]

(* GetResponse() *)
Construct(o) ==
  /\ life[o] = "unborn"
  /\ life' = [life EXCEPT ![o] = "live"]
  /\ UNCHANGED <<value, bufh, origin, refs, library, freed, content>>

(* handle_response: the value is in a buffer of the library, which holds it *)
(* while it delivers the responses that are in it, and one reference more   *)
(* is taken.                                                                *)
HandleShared(o, b) ==
  /\ life[o] = "live" /\ value[o] = "none"
  /\ \/ /\ origin[b] = "unused"
        /\ origin' = [origin EXCEPT ![b] = "library"]
        /\ library' = library \cup {b}
        /\ refs' = [refs EXCEPT ![b] = 2]
        /\ content' = [content EXCEPT ![b] = "value"]
     \/ /\ b \in library
        /\ refs' = [refs EXCEPT ![b] = @ + 1]
        /\ UNCHANGED <<origin, library, content>>
  /\ value' = [value EXCEPT ![o] = b]
  /\ bufh' = [bufh EXCEPT ![o] = TRUE]
  /\ UNCHANGED <<life, freed>>

(* handle_response: there is no such buffer, and a block is allocated with  *)
(* the count 1 behind the value.  The value is not copied into it.          *)
HandleAllocated(o, b) ==
  /\ life[o] = "live" /\ value[o] = "none"
  /\ origin[b] = "unused"
  /\ origin' = [origin EXCEPT ![b] = "allocated"]
  /\ refs' = [refs EXCEPT ![b] = 1]
  /\ value' = [value EXCEPT ![o] = b]
  /\ bufh' = [bufh EXCEPT ![o] = FALSE]
  /\ content' \in {[content EXCEPT ![b] = c] : c \in {"value", "other"}}
  /\ UNCHANGED <<life, library, freed>>

(* handle_response of a failed operation, or of a value there is none of    *)
(* (to which the library has no pointer either).                            *)
(* An object is given a response when it has no value: a slot of a batch    *)
(* and the result of a call get one each.                                   *)
HandleNoValue(o) ==
  /\ life[o] = "live" /\ value[o] = "none"
  /\ value' = [value EXCEPT ![o] = "none"]
  /\ bufh' = [bufh EXCEPT ![o] = FALSE]
  /\ UNCHANGED <<life, origin, refs, library, freed, content>>

(* The library drops its own reference when it has delivered what is in the *)
(* buffer.                                                                  *)
LibraryReleases(b) ==
  /\ b \in library
  /\ library' = library \ {b}
  /\ refs' = [refs EXCEPT ![b] = @ - 1]
  /\ freed' = IF refs[b] = 1 THEN freed \cup {b} ELSE freed
  /\ UNCHANGED <<life, value, bufh, origin, content>>

-----------------------------------------------------------------------------
(* clear(): one sharer less, and the buffer goes with the last.             *)
Dropped(b)  == IF b = "none" THEN refs ELSE [refs EXCEPT ![b] = @ - 1]
Released(b) == IF b # "none" /\ refs[b] = 1 THEN {b} ELSE {}

Clear(o) ==
  /\ life[o] = "live"
  /\ value' = [value EXCEPT ![o] = "none"]
  /\ bufh' = [bufh EXCEPT ![o] = FALSE]
  /\ refs' = Dropped(value[o])
  /\ freed' = freed \cup Released(value[o])
  /\ UNCHANGED <<life, origin, library, content>>

(* Mutant: the destructor does not clear. *)
DestroyKeeps(o) ==
  /\ life[o] = "live"
  /\ life' = [life EXCEPT ![o] = "dead"]
  /\ value' = [value EXCEPT ![o] = "none"]
  /\ bufh' = [bufh EXCEPT ![o] = FALSE]
  /\ UNCHANGED <<origin, refs, library, freed, content>>

(* ~GetResponse() *)
Destroy(o) ==
  /\ life[o] = "live"
  /\ life' = [life EXCEPT ![o] = "dead"]
  /\ value' = [value EXCEPT ![o] = "none"]
  /\ bufh' = [bufh EXCEPT ![o] = FALSE]
  /\ refs' = Dropped(value[o])
  /\ freed' = freed \cup Released(value[o])
  /\ UNCHANGED <<origin, library, content>>

(* Mutant: the copy constructor copies the members. *)
CopyMembers(o, other) ==
  /\ life[o] = "unborn" /\ life[other] = "live"
  /\ life' = [life EXCEPT ![o] = "live"]
  /\ value' = [value EXCEPT ![o] = value[other]]
  /\ bufh' = [bufh EXCEPT ![o] = bufh[other]]
  /\ UNCHANGED <<origin, refs, library, freed, content>>

(* GetResponse(const GetResponse& other) *)
Copy(o, other) ==
  /\ life[o] = "unborn" /\ life[other] = "live"
  /\ life' = [life EXCEPT ![o] = "live"]
  /\ value' = [value EXCEPT ![o] = value[other]]
  /\ bufh' = [bufh EXCEPT ![o] = bufh[other]]
  /\ refs' = IF value[other] = "none" THEN refs
             ELSE [refs EXCEPT ![value[other]] = @ + 1]
  /\ UNCHANGED <<origin, library, freed, content>>

(* Mutant: operator= does not clear first. *)
AssignKeepsOld(o, other) ==
  /\ life[o] = "live" /\ life[other] = "live"
  /\ value' = [value EXCEPT ![o] = value[other]]
  /\ bufh' = [bufh EXCEPT ![o] = bufh[other]]
  /\ refs' = IF value[other] = "none" THEN refs
             ELSE [refs EXCEPT ![value[other]] = @ + 1]
  /\ UNCHANGED <<life, origin, library, freed, content>>

(* operator=: clear(), and then share what the other has by then, which is  *)
(* nothing if it is the object itself.                                      *)
Assign(o, other) ==
  /\ life[o] = "live" /\ life[other] = "live"
  /\ LET v == IF other = o THEN "none" ELSE value[other]
         dropped == Dropped(value[o])
     IN  /\ value' = [value EXCEPT ![o] = v]
         /\ refs' = IF v = "none" THEN dropped
                    ELSE [dropped EXCEPT ![v] = @ + 1]
  /\ bufh' = [bufh EXCEPT ![o] = other # o /\ bufh[other]]
  /\ freed' = freed \cup Released(value[o])
  /\ UNCHANGED <<life, origin, library, content>>

AllDead == (\A o \in Objects : life[o] = "dead") /\ library = {} /\ UNCHANGED vars

Next ==
  \/ \E o \in Objects :
       Construct(o) \/ HandleNoValue(o) \/ Clear(o) \/ Destroy(o)
  \/ \E o \in Objects, b \in Buffers : HandleShared(o, b) \/ HandleAllocated(o, b)
  \/ \E o, other \in Objects : Copy(o, other) \/ Assign(o, other)
  \/ \E b \in Buffers : LibraryReleases(b)
  \/ AllDead

Spec == Init /\ [][Next]_vars

-----------------------------------------------------------------------------
(* Properties. *)

TypeOK ==
  /\ life \in [Objects -> {"unborn", "live", "dead"}]
  /\ value \in [Objects -> Buffers \cup {"none"}]
  /\ bufh \in [Objects -> BOOLEAN]
  /\ origin \in [Buffers -> {"unused", "library", "allocated"}]
  /\ refs \in [Buffers -> Nat]
  /\ library \in SUBSET Buffers
  /\ freed \in SUBSET Buffers
  /\ content \in [Buffers -> {"value", "other"}]

(* The responses that share a buffer. *)
Holders(b) == {o \in Objects : value[o] = b}

(* The count is the number of sharers, the library for one while it has a   *)
(* reference, through any history of copies, assignments (to itself, too)   *)
(* and releases; so clear() frees a buffer with its last sharer.            *)
SharersCounted ==
  \A b \in Buffers :
    refs[b] = Cardinality(Holders(b)) + (IF b \in library THEN 1 ELSE 0)

(* "This buffer is valid until the response is destroyed or the ::clear()   *)
(* function is explicitly called": the value a response points to has not   *)
(* been released, by another response or the library, and will be released  *)
(* the way it was obtained.                                                 *)
ValueAlive ==
  \A o \in Objects : value[o] # "none" =>
    /\ life[o] = "live"
    /\ value[o] \notin freed
    /\ bufh[o] <=> origin[value[o]] = "library"

(* A buffer that was filled and not released has someone left to release it.*)
NothingLeaks ==
  \A b \in Buffers : origin[b] # "unused" /\ b \notin freed =>
    Holders(b) # {} \/ b \in library

(* "A buffer holding the value": what is read there is what the server sent.*)
ValueHeld ==
  \A o \in Objects : value[o] # "none" => content[value[o]] = "value"

(* Responses and the library keep a buffer together: it goes with the last  *)
(* of them, by clear(), the destructor, an assignment or the library, and   *)
(* no response gets at it again.                                            *)
Users(b) == Holders(b) \cup (IF b \in library THEN {"library"} ELSE {})

Sharing == INSTANCE Custody WITH
  Resources <- Buffers, users <- [b \in Buffers |-> Users(b)], released <- freed

ValuesShared == Sharing!Spec

=============================================================================
