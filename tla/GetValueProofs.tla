--------------------------- MODULE GetValueProofs ---------------------------
(***************************************************************************)
(* Proofs about GetValue, for every finite set of responses and every set  *)
(* of buffers.  The count of a buffer alone is not inductive: that the     *)
(* buffer lives exactly while its count is not zero (CountedLives) ties it *)
(* to `freed', and from there to what the responses point to.              *)
(***************************************************************************)
EXTENDS GetValue, FiniteSetTheorems, TLAPS

(* A buffer in use is one with a count; the library's are its own.          *)
CountedLives ==
  \A b \in Buffers :
    /\ refs[b] = 0 <=> origin[b] = "unused" \/ b \in freed
    /\ origin[b] = "unused" => b \notin freed
    /\ b \in library => origin[b] = "library"

ValueInv == TypeOK /\ SharersCounted /\ CountedLives /\ ValueAlive

-----------------------------------------------------------------------------
(* The sharers of a buffer. *)

LEMMA HoldersFinite ==
  ASSUME NEW b
  PROVE  IsFiniteSet(Holders(b)) /\ Cardinality(Holders(b)) \in Nat
<1>1. Holders(b) \subseteq Objects
  BY DEF Holders
<1>2. IsFiniteSet(Holders(b))
  BY <1>1, FS_Subset, GetValueAssumption
<1>3. QED
  BY <1>2, FS_CardinalityType

(* An object that points elsewhere leaves one buffer's sharers for another's.*)
LEMMA HoldersMove ==
  ASSUME NEW o \in Objects, NEW b \in Buffers,
         \A p \in Objects \ {o} : value'[p] = value[p]
  PROVE  Cardinality(Holders(b))' =
           (Cardinality(Holders(b)) - (IF value[o] = b THEN 1 ELSE 0))
             + (IF value'[o] = b THEN 1 ELSE 0)
<1>1. Holders(b)' = {p \in Objects : value'[p] = b}
  BY DEF Holders
<1>2. \A p \in Objects : p = o \/ value'[p] = value[p]
  OBVIOUS
<1>3. IsFiniteSet(Holders(b)) /\ Cardinality(Holders(b)) \in Nat
  BY HoldersFinite
<1>4. o \in Holders(b) <=> value[o] = b
  BY DEF Holders
<1>5. CASE value[o] = b /\ value'[o] = b
  <2>1. Holders(b)' = Holders(b)
    BY <1>1, <1>2, <1>5 DEF Holders
  <2>2. QED
    BY <2>1, <1>3, <1>5
<1>6. CASE value[o] = b /\ value'[o] # b
  <2>1. Holders(b)' = Holders(b) \ {o}
    BY <1>1, <1>2, <1>6 DEF Holders
  <2>2. Cardinality(Holders(b) \ {o}) = Cardinality(Holders(b)) - 1
    BY <1>3, <1>4, <1>6, FS_RemoveElement
  <2>3. QED
    BY <2>1, <2>2, <1>3, <1>6
<1>7. CASE value[o] # b /\ value'[o] = b
  <2>1. Holders(b)' = Holders(b) \cup {o}
    BY <1>1, <1>2, <1>7 DEF Holders
  <2>2. Cardinality(Holders(b) \cup {o}) = Cardinality(Holders(b)) + 1
    BY <1>3, <1>4, <1>7, FS_AddElement
  <2>3. QED
    BY <2>1, <2>2, <1>3, <1>7
<1>8. CASE value[o] # b /\ value'[o] # b
  <2>1. Holders(b)' = Holders(b)
    BY <1>1, <1>2, <1>8 DEF Holders
  <2>2. QED
    BY <2>1, <1>3, <1>8
<1>9. QED
  BY <1>5, <1>6, <1>7, <1>8

LEMMA HoldersStay ==
  ASSUME value' = value, NEW b \in Buffers
  PROVE  Cardinality(Holders(b))' = Cardinality(Holders(b))
BY DEF Holders

(* A buffer someone points to has a count. *)
LEMMA HeldIsCounted ==
  ASSUME ValueInv, NEW o \in Objects, value[o] # "none"
  PROVE  /\ value[o] \in Buffers
         /\ refs[value[o]] > 0
         /\ Cardinality(Holders(value[o])) > 0
<1>1. value[o] \in Buffers
  BY DEF ValueInv, TypeOK
<1>2. o \in Holders(value[o])
  BY DEF Holders
<1>3. Cardinality(Holders(value[o])) \in Nat /\ Cardinality(Holders(value[o])) # 0
  BY <1>2, HoldersFinite, FS_EmptySet
<1>4. QED
  BY <1>1, <1>3 DEF ValueInv, SharersCounted

(* ... and one that two point to, a count above one. *)
LEMMA TwoSharers ==
  ASSUME ValueInv, NEW o \in Objects, NEW p \in Objects \ {o},
         value[o] # "none", value[p] = value[o]
  PROVE  refs[value[o]] > 1
<1>1. p \in Holders(value[o]) \ {o} /\ o \in Holders(value[o])
  BY DEF Holders
<1>2. /\ IsFiniteSet(Holders(value[o]))
      /\ Cardinality(Holders(value[o])) \in Nat \ {0}
  BY <1>1, HoldersFinite, FS_EmptySet
<1>3. IsFiniteSet(Holders(value[o]) \ {o})
  BY <1>2, FS_Difference
<1>4. /\ Cardinality(Holders(value[o]) \ {o}) = Cardinality(Holders(value[o])) - 1
      /\ Cardinality(Holders(value[o]) \ {o}) # 0
  BY <1>1, <1>2, <1>3, FS_RemoveElement, FS_EmptySet
<1>5. refs[value[o]] = Cardinality(Holders(value[o]))
                         + (IF value[o] \in library THEN 1 ELSE 0)
  BY DEF ValueInv, TypeOK, SharersCounted
<1>6. QED
  BY <1>2, <1>4, <1>5

-----------------------------------------------------------------------------
(* The invariant. *)

LEMMA ValueInit == Init => ValueInv
<1> SUFFICES ASSUME Init PROVE ValueInv
  OBVIOUS
<1>1. TypeOK /\ CountedLives /\ ValueAlive
  BY DEF Init, TypeOK, CountedLives, ValueAlive
<1>2. \A b \in Buffers : Holders(b) = {}
  BY GetValueAssumption DEF Init, Holders
<1>3. SharersCounted
  BY <1>2, FS_EmptySet DEF Init, SharersCounted
<1>4. QED
  BY <1>1, <1>3 DEF ValueInv

(* clear(), alone or in the destructor. *)
LEMMA ClearStep ==
  ASSUME ValueInv, NEW o \in Objects, life[o] = "live",
         value' = [value EXCEPT ![o] = "none"],
         bufh' = [bufh EXCEPT ![o] = FALSE],
         refs' = Dropped(value[o]),
         freed' = freed \cup Released(value[o]),
         life' \in {life, [life EXCEPT ![o] = "dead"]},
         UNCHANGED <<origin, library, content>>
  PROVE  ValueInv'
<1> USE GetValueAssumption DEF ValueInv
<1>1. value[o] # "none" => value[o] \in Buffers /\ refs[value[o]] > 0
  BY HeldIsCounted
<1>2. \A b \in Buffers :
        /\ refs'[b] = refs[b] - (IF value[o] = b THEN 1 ELSE 0)
        /\ b \in freed' <=> b \in freed \/ (value[o] = b /\ refs[b] = 1)
  BY <1>1 DEF TypeOK, Dropped, Released
<1>3. TypeOK'
  BY <1>1 DEF TypeOK, Dropped, Released
<1>4. SharersCounted'
  <2> SUFFICES ASSUME NEW b \in Buffers
               PROVE  refs'[b] = Cardinality(Holders(b))'
                                  + (IF b \in library' THEN 1 ELSE 0)
    BY DEF SharersCounted
  <2>1. Cardinality(Holders(b))' =
          (Cardinality(Holders(b)) - (IF value[o] = b THEN 1 ELSE 0))
            + (IF value'[o] = b THEN 1 ELSE 0)
    BY HoldersMove DEF TypeOK
  <2>2. Cardinality(Holders(b)) \in Nat
    BY HoldersFinite
  <2>3. value'[o] # b
    BY DEF TypeOK
  <2>4. QED
    BY <2>1, <2>2, <2>3, <1>2 DEF SharersCounted
<1>5. CountedLives'
  <2> SUFFICES ASSUME NEW b \in Buffers
               PROVE  /\ refs'[b] = 0 <=> origin'[b] = "unused" \/ b \in freed'
                      /\ origin'[b] = "unused" => b \notin freed'
                      /\ b \in library' => origin'[b] = "library"
    BY DEF CountedLives
  <2>1. refs[b] \in Nat
    BY DEF TypeOK
  <2>2. CASE value[o] = b
    BY <2>1, <2>2, <1>1, <1>2 DEF CountedLives
  <2>3. CASE value[o] # b
    BY <2>1, <2>3, <1>2 DEF CountedLives
  <2>4. QED
    BY <2>2, <2>3
<1>6. ValueAlive'
  <2> SUFFICES ASSUME NEW p \in Objects, value'[p] # "none"
               PROVE  /\ life'[p] = "live"
                      /\ value'[p] \notin freed'
                      /\ bufh'[p] <=> origin'[value'[p]] = "library"
    BY DEF ValueAlive
  <2>1. p # o /\ value'[p] = value[p] /\ value[p] \in Buffers
    BY DEF TypeOK
  <2>2. bufh'[p] = bufh[p] /\ life'[p] = life[p]
    BY <2>1 DEF TypeOK
  <2>3. value[p] = value[o] => refs[value[o]] # 1
    BY <2>1, TwoSharers
  <2>4. value[p] \notin freed'
    BY <2>1, <2>3, <1>2 DEF ValueAlive
  <2>5. QED
    BY <2>1, <2>2, <2>4 DEF ValueAlive
<1>7. QED
  BY <1>3, <1>4, <1>5, <1>6

(* handle_response, with a buffer of the library's. *)
LEMMA SharedStep ==
  ASSUME ValueInv, NEW o \in Objects, NEW b \in Buffers, HandleShared(o, b)
  PROVE  ValueInv'
<1> USE GetValueAssumption DEF ValueInv, HandleShared
<1>1. refs[b] \in Nat
  BY DEF TypeOK
<1>2. TypeOK'
  BY <1>1 DEF TypeOK
<1>3. \/ /\ origin[b] = "unused" /\ refs[b] = 0 /\ refs'[b] = 2
         /\ b \notin library /\ b \in library'
      \/ /\ origin[b] = "library" /\ refs[b] > 0 /\ refs'[b] = refs[b] + 1
         /\ b \in library /\ b \in library'
  <2>1. b \in library => refs[b] # 0
    <3>1. \A c \in Buffers : refs[c] =
            Cardinality(Holders(c)) + (IF c \in library THEN 1 ELSE 0)
      BY DEF SharersCounted
    <3>2. QED
      BY <3>1, HoldersFinite
  <2>2. QED
    BY <1>1, <2>1 DEF TypeOK, CountedLives
<1>4. \A c \in Buffers \ {b} :
        /\ refs'[c] = refs[c] /\ origin'[c] = origin[c]
        /\ c \in library' <=> c \in library
  BY DEF TypeOK
<1>5. SharersCounted'
  <2> SUFFICES ASSUME NEW c \in Buffers
               PROVE  refs'[c] = Cardinality(Holders(c))'
                                  + (IF c \in library' THEN 1 ELSE 0)
    BY DEF SharersCounted
  <2>1. Cardinality(Holders(c))' =
          (Cardinality(Holders(c)) - (IF value[o] = c THEN 1 ELSE 0))
            + (IF value'[o] = c THEN 1 ELSE 0)
    BY HoldersMove DEF TypeOK
  <2>2. value[o] # c /\ value'[o] = b
    BY DEF TypeOK
  <2>3. /\ Cardinality(Holders(c)) \in Nat
        /\ refs[c] = Cardinality(Holders(c)) + (IF c \in library THEN 1 ELSE 0)
    BY HoldersFinite DEF SharersCounted
  <2>4. QED
    BY <2>1, <2>2, <2>3, <1>3, <1>4
<1>6. b \notin freed /\ origin'[b] = "library"
  BY <1>3 DEF CountedLives, TypeOK
<1>7. CountedLives'
  <2> SUFFICES ASSUME NEW c \in Buffers
               PROVE  /\ refs'[c] = 0 <=> origin'[c] = "unused" \/ c \in freed'
                      /\ origin'[c] = "unused" => c \notin freed'
                      /\ c \in library' => origin'[c] = "library"
    BY DEF CountedLives
  <2>1. CASE c = b
    BY <2>1, <1>1, <1>3, <1>6
  <2>2. CASE c # b
    BY <2>2, <1>4 DEF CountedLives
  <2>3. QED
    BY <2>1, <2>2
<1>8. ValueAlive'
  <2> SUFFICES ASSUME NEW p \in Objects, value'[p] # "none"
               PROVE  /\ life'[p] = "live"
                      /\ value'[p] \notin freed'
                      /\ bufh'[p] <=> origin'[value'[p]] = "library"
    BY DEF ValueAlive
  <2>1. CASE p = o
    BY <2>1, <1>6 DEF TypeOK
  <2>2. CASE p # o
    <3>1. /\ value'[p] = value[p] /\ bufh'[p] = bufh[p]
          /\ value[p] \in Buffers
      BY <2>2 DEF TypeOK
    <3>2. origin'[value[p]] = "library" <=> origin[value[p]] = "library"
      <4>1. value[p] = b => origin[b] # "unused"
        BY <2>2, <3>1, HeldIsCounted DEF CountedLives
      <4>2. value[p] = b => origin[b] = "library"
        BY <4>1, <1>3
      <4>3. QED
        BY <4>2, <3>1, <1>4, <1>6
    <3>3. QED
      BY <3>1, <3>2 DEF ValueAlive
  <2>3. QED
    BY <2>1, <2>2
<1>9. QED
  BY <1>2, <1>5, <1>7, <1>8

(* handle_response, with a block of its own. *)
LEMMA AllocatedStep ==
  ASSUME ValueInv, NEW o \in Objects, NEW b \in Buffers, HandleAllocated(o, b)
  PROVE  ValueInv'
<1> USE GetValueAssumption DEF ValueInv, HandleAllocated
<1>1. TypeOK'
  BY DEF TypeOK
<1>2. /\ refs[b] = 0 /\ refs'[b] = 1 /\ b \notin library
      /\ origin'[b] = "allocated"
  BY DEF TypeOK, CountedLives
<1>3. \A c \in Buffers \ {b} : refs'[c] = refs[c] /\ origin'[c] = origin[c]
  BY DEF TypeOK
<1>4. SharersCounted'
  <2> SUFFICES ASSUME NEW c \in Buffers
               PROVE  refs'[c] = Cardinality(Holders(c))'
                                  + (IF c \in library' THEN 1 ELSE 0)
    BY DEF SharersCounted
  <2>1. Cardinality(Holders(c))' =
          (Cardinality(Holders(c)) - (IF value[o] = c THEN 1 ELSE 0))
            + (IF value'[o] = c THEN 1 ELSE 0)
    BY HoldersMove DEF TypeOK
  <2>2. value[o] # c /\ value'[o] = b
    BY DEF TypeOK
  <2>3. /\ Cardinality(Holders(c)) \in Nat
        /\ refs[c] = Cardinality(Holders(c)) + (IF c \in library THEN 1 ELSE 0)
    BY HoldersFinite DEF SharersCounted
  <2>4. QED
    BY <2>1, <2>2, <2>3, <1>2, <1>3
<1>5. b \notin freed
  BY DEF CountedLives
<1>6. CountedLives'
  <2> SUFFICES ASSUME NEW c \in Buffers
               PROVE  /\ refs'[c] = 0 <=> origin'[c] = "unused" \/ c \in freed'
                      /\ origin'[c] = "unused" => c \notin freed'
                      /\ c \in library' => origin'[c] = "library"
    BY DEF CountedLives
  <2>1. CASE c = b
    BY <2>1, <1>2, <1>5
  <2>2. CASE c # b
    BY <2>2, <1>3 DEF CountedLives
  <2>3. QED
    BY <2>1, <2>2
<1>7. \A p \in Objects : value[p] # b
  <2>1. Cardinality(Holders(b)) = 0
    BY <1>2, HoldersFinite DEF SharersCounted
  <2>2. Holders(b) = {}
    BY <2>1, HoldersFinite, FS_EmptySet
  <2>3. QED
    BY <2>2 DEF Holders
<1>8. ValueAlive'
  <2> SUFFICES ASSUME NEW p \in Objects, value'[p] # "none"
               PROVE  /\ life'[p] = "live"
                      /\ value'[p] \notin freed'
                      /\ bufh'[p] <=> origin'[value'[p]] = "library"
    BY DEF ValueAlive
  <2>1. CASE p = o
    BY <2>1, <1>2, <1>5 DEF TypeOK
  <2>2. CASE p # o
    <3>1. /\ value'[p] = value[p] /\ bufh'[p] = bufh[p]
          /\ value[p] \in Buffers \ {b}
      BY <2>2, <1>7 DEF TypeOK
    <3>2. QED
      BY <3>1, <1>3 DEF ValueAlive
  <2>3. QED
    BY <2>1, <2>2
<1>9. QED
  BY <1>1, <1>4, <1>6, <1>8

(* The copy constructor and operator=: the object gives up what it has, and *)
(* shares what the other has.                                               *)
LEMMA ShareStep ==
  ASSUME ValueInv, NEW o \in Objects, NEW other \in Objects,
         Copy(o, other) \/ Assign(o, other)
  PROVE  ValueInv'
<1> USE GetValueAssumption DEF ValueInv
<1> DEFINE v == IF other = o THEN "none" ELSE value[other]
<1>1. /\ value' = [value EXCEPT ![o] = v]
      /\ bufh' = [bufh EXCEPT ![o] = other # o /\ bufh[other]]
      /\ freed' = freed \cup Released(value[o])
      /\ UNCHANGED <<origin, library, content>>
      /\ life[other] = "live" /\ life' \in {life, [life EXCEPT ![o] = "live"]}
      /\ life'[o] = "live"
      /\ refs' = IF v = "none" THEN Dropped(value[o])
                 ELSE [Dropped(value[o]) EXCEPT ![v] = @ + 1]
  <2>1. CASE Copy(o, other)
    <3>1. other # o /\ v = value[other]
      BY <2>1 DEF Copy
    <3>2. value[o] = "none"
      BY <2>1 DEF Copy, ValueAlive
    <3>3. Dropped(value[o]) = refs /\ Released(value[o]) = {}
      BY <3>2 DEF Dropped, Released
    <3>4. QED
      BY <2>1, <3>1, <3>3 DEF Copy, TypeOK
  <2>2. CASE Assign(o, other)
    BY <2>2 DEF Assign
  <2>3. QED
    BY <2>1, <2>2
<1>2. /\ v \in Buffers \cup {"none"} /\ value'[o] = v
      /\ value[o] \in Buffers \cup {"none"}
  BY <1>1 DEF TypeOK
<1>3. value[o] # "none" => refs[value[o]] > 0
  BY HeldIsCounted
<1>4. v # "none" => /\ other # o /\ v = value[other] /\ refs[v] > 0
                    /\ v = value[o] => refs[v] > 1
  BY HeldIsCounted, TwoSharers
<1>5. refs \in [Buffers -> Nat]
  BY DEF TypeOK
<1>6. /\ Dropped(value[o]) \in [Buffers -> Nat]
      /\ \A b \in Buffers : Dropped(value[o])[b] =
           refs[b] - (IF value[o] = b THEN 1 ELSE 0)
  BY <1>2, <1>3, <1>5 DEF Dropped
<1> HIDE DEF v
<1>7. /\ refs' \in [Buffers -> Nat]
      /\ \A b \in Buffers : refs'[b] =
           (refs[b] - (IF value[o] = b THEN 1 ELSE 0)) + (IF v = b THEN 1 ELSE 0)
  BY <1>1, <1>2, <1>5, <1>6
<1>8. \A b \in Buffers :
        b \in freed' <=> b \in freed \/ (value[o] = b /\ refs[b] = 1)
  BY <1>1 DEF Released
<1>9. TypeOK'
  <2>1. freed' \in SUBSET Buffers
    BY <1>1, <1>2 DEF TypeOK, Released
  <2>2. value' \in [Objects -> Buffers \cup {"none"}] /\ bufh' \in [Objects -> BOOLEAN]
    BY <1>1, <1>2 DEF TypeOK
  <2>3. life' \in [Objects -> {"unborn", "live", "dead"}]
    BY <1>1 DEF TypeOK
  <2>4. QED
    BY <2>1, <2>2, <2>3, <1>1, <1>7 DEF TypeOK
<1>10. SharersCounted'
  <2> SUFFICES ASSUME NEW b \in Buffers
               PROVE  refs'[b] = Cardinality(Holders(b))'
                                  + (IF b \in library' THEN 1 ELSE 0)
    BY DEF SharersCounted
  <2>1. Cardinality(Holders(b))' =
          (Cardinality(Holders(b)) - (IF value[o] = b THEN 1 ELSE 0))
            + (IF value'[o] = b THEN 1 ELSE 0)
    BY <1>1, HoldersMove DEF TypeOK
  <2>2. /\ Cardinality(Holders(b)) \in Nat
        /\ refs[b] = Cardinality(Holders(b)) + (IF b \in library THEN 1 ELSE 0)
    BY HoldersFinite DEF SharersCounted
  <2>3. library' = library
    BY <1>1
  <2>4. QED
    BY <2>1, <2>2, <2>3, <1>2, <1>7
<1>11. CountedLives'
  <2> SUFFICES ASSUME NEW b \in Buffers
               PROVE  /\ refs'[b] = 0 <=> origin'[b] = "unused" \/ b \in freed'
                      /\ origin'[b] = "unused" => b \notin freed'
                      /\ b \in library' => origin'[b] = "library"
    BY DEF CountedLives
  <2>1. refs[b] \in Nat /\ origin' = origin /\ library' = library
    BY <1>1, <1>5
  <2>2. CASE v = b
    BY <2>1, <2>2, <1>2, <1>4, <1>7, <1>8 DEF CountedLives
  <2>3. CASE v # b /\ value[o] = b
    BY <2>1, <2>3, <1>3, <1>7, <1>8 DEF CountedLives
  <2>4. CASE v # b /\ value[o] # b
    BY <2>1, <2>4, <1>7, <1>8 DEF CountedLives
  <2>5. QED
    BY <2>2, <2>3, <2>4
<1>12. ValueAlive'
  <2> SUFFICES ASSUME NEW p \in Objects, value'[p] # "none"
               PROVE  /\ life'[p] = "live"
                      /\ value'[p] \notin freed'
                      /\ bufh'[p] <=> origin'[value'[p]] = "library"
    BY DEF ValueAlive
  <2>1. CASE p = o
    <3>1. v # "none" /\ v \in Buffers
      BY <2>1, <1>2
    <3>2. v \notin freed /\ (bufh[other] <=> origin[v] = "library")
      BY <3>1, <1>4 DEF ValueAlive
    <3>3. v \notin freed'
      BY <3>1, <3>2, <1>4, <1>8
    <3>4. bufh'[p] <=> bufh[other]
      BY <2>1, <3>1, <1>1, <1>4 DEF TypeOK
    <3>5. QED
      BY <2>1, <3>2, <3>3, <3>4, <1>1, <1>2
  <2>2. CASE p # o
    <3>1. /\ value'[p] = value[p] /\ bufh'[p] = bufh[p] /\ life'[p] = life[p]
          /\ value[p] \in Buffers
      BY <2>2, <1>1 DEF TypeOK
    <3>2. value[p] = value[o] => refs[value[o]] # 1
      BY <2>2, <3>1, TwoSharers
    <3>3. value[p] \notin freed'
      BY <3>1, <3>2, <1>8 DEF ValueAlive
    <3>4. QED
      BY <3>1, <3>3, <1>1 DEF ValueAlive
  <2>3. QED
    BY <2>1, <2>2
<1>13. QED
  BY <1>9, <1>10, <1>11, <1>12

(* The library drops its reference. *)
LEMMA LibraryStep ==
  ASSUME ValueInv, NEW b \in Buffers, LibraryReleases(b)
  PROVE  ValueInv'
<1> USE GetValueAssumption DEF ValueInv, LibraryReleases
<1>1. \A c \in Buffers :
        /\ refs[c] \in Nat /\ Cardinality(Holders(c)) \in Nat
        /\ refs[c] = Cardinality(Holders(c)) + (IF c \in library THEN 1 ELSE 0)
  BY HoldersFinite DEF TypeOK, SharersCounted
<1>2. refs[b] > 0 /\ refs'[b] = refs[b] - 1
  BY <1>1 DEF TypeOK
<1>3. \A c \in Buffers \ {b} : refs'[c] = refs[c]
  BY DEF TypeOK
<1>4. TypeOK'
  BY <1>2 DEF TypeOK
<1>5. SharersCounted'
  <2> SUFFICES ASSUME NEW c \in Buffers
               PROVE  refs'[c] = Cardinality(Holders(c))'
                                  + (IF c \in library' THEN 1 ELSE 0)
    BY DEF SharersCounted
  <2>1. Cardinality(Holders(c))' = Cardinality(Holders(c))
    BY HoldersStay
  <2>2. QED
    BY <2>1, <1>1, <1>2, <1>3
<1>6. CountedLives'
  <2> SUFFICES ASSUME NEW c \in Buffers
               PROVE  /\ refs'[c] = 0 <=> origin'[c] = "unused" \/ c \in freed'
                      /\ origin'[c] = "unused" => c \notin freed'
                      /\ c \in library' => origin'[c] = "library"
    BY DEF CountedLives
  <2>1. CASE c = b
    BY <2>1, <1>1, <1>2 DEF CountedLives
  <2>2. CASE c # b
    BY <2>2, <1>3 DEF CountedLives
  <2>3. QED
    BY <2>1, <2>2
<1>7. refs[b] = 1 => \A p \in Objects : value[p] # b
  <2>1. refs[b] = 1 => Cardinality(Holders(b)) = 0
    BY <1>1
  <2>2. refs[b] = 1 => Holders(b) = {}
    BY <2>1, HoldersFinite, FS_EmptySet
  <2>3. QED
    BY <2>2 DEF Holders
<1>8. ValueAlive'
  BY <1>7 DEF ValueAlive
<1>9. QED
  BY <1>4, <1>5, <1>6, <1>8

LEMMA ValueStep == ValueInv /\ [Next]_vars => ValueInv'
<1> SUFFICES ASSUME ValueInv, [Next]_vars PROVE ValueInv'
  OBVIOUS
<1>1. ASSUME UNCHANGED <<value, bufh, origin, refs, library, freed, content>>,
             life' \in [Objects -> {"unborn", "live", "dead"}],
             \A o \in Objects : life[o] = "live" => life'[o] = "live"
      PROVE  ValueInv'
  <2>1. \A b \in Buffers : Cardinality(Holders(b))' = Cardinality(Holders(b))
    BY <1>1, HoldersStay
  <2>2. SharersCounted'
    BY <1>1, <2>1 DEF ValueInv, SharersCounted
  <2>3. QED
    BY <1>1, <2>2 DEF ValueInv, TypeOK, CountedLives, ValueAlive
<1>2. ASSUME NEW o \in Objects, Construct(o) PROVE ValueInv'
  BY <1>1, <1>2 DEF Construct, ValueInv, TypeOK
<1>3. ASSUME NEW o \in Objects, HandleNoValue(o) PROVE ValueInv'
  <2>1. value' = value
    BY <1>3 DEF HandleNoValue, ValueInv, TypeOK
  <2>2. SharersCounted'
    <3>1. \A b \in Buffers : Cardinality(Holders(b))' = Cardinality(Holders(b))
      BY <2>1, HoldersStay
    <3>2. QED
      BY <3>1, <1>3 DEF HandleNoValue, ValueInv, SharersCounted
  <2>3. TypeOK' /\ CountedLives' /\ ValueAlive'
    BY <1>3, <2>1 DEF HandleNoValue, ValueInv, TypeOK, CountedLives, ValueAlive
  <2>4. QED
    BY <2>2, <2>3 DEF ValueInv
<1>4. ASSUME NEW o \in Objects, Clear(o) \/ Destroy(o) PROVE ValueInv'
  BY <1>4, ClearStep DEF Clear, Destroy
<1>5. ASSUME NEW o \in Objects, NEW b \in Buffers,
             HandleShared(o, b) \/ HandleAllocated(o, b)
      PROVE  ValueInv'
  BY <1>5, SharedStep, AllocatedStep
<1>6. ASSUME NEW o \in Objects, NEW other \in Objects,
             Copy(o, other) \/ Assign(o, other)
      PROVE  ValueInv'
  BY <1>6, ShareStep
<1>7. ASSUME NEW b \in Buffers, LibraryReleases(b) PROVE ValueInv'
  BY <1>7, LibraryStep
<1>8. CASE UNCHANGED vars
  BY <1>1, <1>8 DEF vars, ValueInv, TypeOK
<1>9. QED
  BY <1>2, <1>3, <1>4, <1>5, <1>6, <1>7, <1>8 DEF Next, AllDead

LEMMA ValueInvariant == Spec => []ValueInv
BY ValueInit, ValueStep, PTL DEF Spec

-----------------------------------------------------------------------------
(* The properties. *)

(* The types of GetResponse's state hold always; the counts are naturals,   *)
(* so that none is decremented below zero.                                  *)
THEOREM TypeCorrect == Spec => []TypeOK
<1>1. ValueInv => TypeOK
  BY DEF ValueInv
<1>2. QED
  BY <1>1, ValueInvariant, PTL

(* The count behind a value, or of the library's buffer, is always the      *)
(* number of the sharers.                                                   *)
THEOREM SharersExact == Spec => []SharersCounted
<1>1. ValueInv => SharersCounted
  BY DEF ValueInv
<1>2. QED
  BY <1>1, ValueInvariant, PTL

(* No response points into memory that another one's clear(), or the        *)
(* library, has released.                                                   *)
THEOREM ValuesAlive == Spec => []ValueAlive
<1>1. ValueInv => ValueAlive
  BY DEF ValueInv
<1>2. QED
  BY <1>1, ValueInvariant, PTL

(* No buffer is left without someone to release it. *)
THEOREM NothingLost == Spec => []NothingLeaks
<1>1. ValueInv => NothingLeaks
  <2> SUFFICES ASSUME ValueInv, NEW b \in Buffers,
                      origin[b] # "unused", b \notin freed, b \notin library
               PROVE  Holders(b) # {}
    BY DEF NothingLeaks
  <2>1. refs[b] # 0 /\ refs[b] = Cardinality(Holders(b)) + 0
    BY DEF ValueInv, CountedLives, SharersCounted
  <2>2. Cardinality(Holders(b)) # 0
    BY <2>1
  <2>3. QED
    BY <2>2, FS_EmptySet
<1>2. QED
  BY <1>1, ValueInvariant, PTL

-----------------------------------------------------------------------------
(* The buffers as resources in custody. *)

(* A buffer has a count exactly while someone uses it.                      *)
CountedUsed == \A b \in Buffers : refs[b] = 0 <=> Users(b) = {}

LEMMA UsersCounted == ValueInv => CountedUsed
<1> SUFFICES ASSUME ValueInv, NEW b \in Buffers
             PROVE  refs[b] = 0 <=> Users(b) = {}
  BY DEF CountedUsed
<1>1. IsFiniteSet(Holders(b)) /\ Cardinality(Holders(b)) \in Nat
  BY HoldersFinite
<1>2. refs[b] = Cardinality(Holders(b)) + (IF b \in library THEN 1 ELSE 0)
  BY DEF ValueInv, SharersCounted
<1>3. Cardinality(Holders(b)) = 0 <=> Holders(b) = {}
  BY <1>1, FS_EmptySet
<1>4. refs[b] = 0 <=> Holders(b) = {} /\ b \notin library
  BY <1>1, <1>2, <1>3
<1>5. QED
  BY <1>4 DEF Users

LEMMA UsersCountedNext == ValueInv' => CountedUsed'
BY UsersCounted, PTL

(* What a step releases has a count of one before, and what was filled      *)
(* stays so.                                                                *)
LEMMA ReleasedStep ==
  ASSUME ValueInv, [Next]_vars
  PROVE  /\ freed \subseteq freed'
         /\ \A b \in freed' \ freed : refs[b] = 1
         /\ \A b \in Buffers : origin[b] # "unused" => origin'[b] # "unused"
<1> DEFINE Grows == /\ freed \subseteq freed'
                    /\ \A b \in freed' \ freed : refs[b] = 1
                    /\ \A b \in Buffers : origin[b] # "unused" => origin'[b] # "unused"
<1>1. ASSUME NEW o \in Objects,
             Construct(o) \/ HandleNoValue(o) \/ Clear(o) \/ Destroy(o)
      PROVE  Grows
  BY <1>1 DEF Construct, HandleNoValue, Clear, Destroy, Released
<1>2. ASSUME NEW o \in Objects, NEW b \in Buffers,
             HandleShared(o, b) \/ HandleAllocated(o, b)
      PROVE  Grows
  BY <1>2 DEF HandleShared, HandleAllocated, ValueInv, TypeOK
<1>3. ASSUME NEW o \in Objects, NEW other \in Objects,
             Copy(o, other) \/ Assign(o, other)
      PROVE  Grows
  BY <1>3 DEF Copy, Assign, Released
<1>4. ASSUME NEW b \in Buffers, LibraryReleases(b) PROVE Grows
  BY <1>4 DEF LibraryReleases
<1>5. CASE UNCHANGED vars
  BY <1>5 DEF vars
<1>6. QED
  BY <1>1, <1>2, <1>3, <1>4, <1>5 DEF Next, AllDead

LEMMA SharingStep == ValueInv /\ [Next]_vars => Sharing!Next
<1> SUFFICES ASSUME ValueInv, [Next]_vars PROVE Sharing!Next
  OBVIOUS
<1>1. ValueInv'
  BY ValueStep
<1>2. \A b \in Buffers : /\ refs[b] = 0 <=> Users(b) = {}
                         /\ refs'[b] = 0 <=> Users(b)' = {}
  BY <1>1, UsersCounted, UsersCountedNext DEF CountedUsed
<1>3. freed \subseteq Buffers /\ freed' \subseteq Buffers
  BY <1>1 DEF ValueInv, TypeOK
<1>4. \A b \in freed : Users(b)' = {}
  BY <1>1, <1>2, <1>3, ReleasedStep DEF ValueInv, CountedLives
<1>5. ASSUME NEW b \in Buffers
      PROVE  b \in freed' <=> b \in freed \/ (Users(b) # {} /\ Users(b)' = {})
  <2>1. CASE b \in freed' \ freed
    BY <1>1, <1>2, <2>1, ReleasedStep DEF ValueInv, CountedLives
  <2>2. CASE Users(b) # {} /\ Users(b)' = {}
    <3>1. origin'[b] # "unused" /\ refs'[b] = 0
      BY <1>2, <2>2, ReleasedStep DEF ValueInv, CountedLives
    <3>2. QED
      BY <1>1, <2>2, <3>1 DEF ValueInv, CountedLives
  <2>3. QED
    BY <2>1, <2>2, ReleasedStep
<1>6. freed' = freed \cup {b \in Buffers : Users(b) # {} /\ Users(b)' = {}}
  BY <1>3, <1>5
<1>7. QED
  BY <1>3, <1>4, <1>6 DEF Sharing!Next

(* clear(), the destructor, the assignment and the library release a buffer *)
(* in the very step in which its last user lets go of it, after any copies. *)
THEOREM SharingCorrect == Spec => ValuesShared
<1>1. Init => Sharing!Init
  <2> SUFFICES ASSUME Init PROVE Sharing!Init
    OBVIOUS
  <2>1. \A b \in Buffers : Users(b) = {}
    BY GetValueAssumption DEF Init, Users, Holders
  <2>2. QED
    BY <2>1 DEF Init, Sharing!Init
<1>2. QED
  BY <1>1, ValueInvariant, SharingStep, PTL DEF Spec, ValuesShared, Sharing!Spec

=============================================================================
