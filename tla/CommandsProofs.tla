--------------------------- MODULE CommandsProofs ---------------------------
(***************************************************************************)
(* Proofs about Commands, for any number of commands, options, parameters  *)
(* and strings, and with no assumption on how they are used.               *)
(***************************************************************************)
EXTENDS Commands, TLAPS

-----------------------------------------------------------------------------
(* The parameters of queries. *)

Has(c) == life[c] \in {"live", "moved"} /\ m_params[c] # "none"

ParamsInv ==
  /\ life \in [Cmds -> {"unborn", "live", "moved", "dead"}]
  /\ class \in [Cmds -> Classes \cup {"view", "query", "none"}]
  /\ m_params \in [Cmds -> Params \cup {"none"}]
  /\ owned \subseteq Params /\ freed \subseteq Params /\ owned \cap freed = {}
  /\ \A c \in Cmds : life[c] = "unborn" => m_params[c] = "none"
  /\ \A c \in Cmds : life[c] = "live" => class[c] # "none"
  /\ \A c \in Cmds : Has(c) => life[c] = "live" /\ m_params[c] \in owned
  /\ \A c \in Cmds : Is(c, "query") => Has(c)
  /\ \A c, d \in Cmds : Has(c) /\ Has(d) /\ m_params[c] = m_params[d] => c = d
  /\ \A p \in owned : \E c \in Cmds : Has(c) /\ m_params[c] = p

LEMMA ClassNames ==
  /\ Classes = {"get", "remove", "counter", "unlock", "touch", "upsert", "insert", "upsert_sized"}
  /\ Classes \cap {"view", "query", "none"} = {}
BY DEF Classes, Scheduler

LEMMA ParamsInit == Init => ParamsInv
BY DEF Init, ParamsInv, Has, Is

(* Only three operations touch a block or its owner. *)
LEMMA ParamsStep == ParamsInv /\ [Next]_vars => ParamsInv'
<1> SUFFICES ASSUME ParamsInv, [Next]_vars PROVE ParamsInv'
  OBVIOUS
<1> USE CommandsAssumption DEF ParamsInv, Has, Is
<1>1. ASSUME NEW c \in Cmds, NEW p \in Params, NEW v \in Values, NewQueryCommand(c, p, v)
      PROVE  ParamsInv'
  BY <1>1 DEF NewQueryCommand, Make
<1>2. ASSUME NEW c \in Cmds, NEW other \in Cmds, MoveQuery(c, other)
      PROVE  ParamsInv'
  <2>1. /\ life' \in [Cmds -> {"unborn", "live", "moved", "dead"}]
        /\ m_params' \in [Cmds -> Params \cup {"none"}]
        /\ class' \in [Cmds -> Classes \cup {"view", "query", "none"}]
        /\ owned' = owned /\ freed' = freed /\ c # other
        /\ Has(other) /\ ~Has(c)
    BY <1>2 DEF MoveQuery
  <2>2. \A d \in Cmds : Has(d)' <=> d = c \/ (Has(d) /\ d # other)
    BY <1>2, <2>1 DEF MoveQuery
  <2>3. \A d \in Cmds : m_params'[d] = IF d = c THEN m_params[other]
                                      ELSE IF d = other THEN "none" ELSE m_params[d]
    BY <1>2, <2>1 DEF MoveQuery
  <2>4. \A d \in Cmds : life'[d] = "unborn" => m_params'[d] = "none"
    BY <1>2, <2>1, <2>3 DEF MoveQuery
  <2>5. \A d \in Cmds : Is(d, "query")' => Has(d)'
    BY <1>2, <2>1, <2>2 DEF MoveQuery
  <2>6. \A d \in Cmds : Has(d)' => life'[d] = "live" /\ m_params'[d] \in owned
    BY <1>2, <2>1, <2>2, <2>3 DEF MoveQuery
  <2>7. \A d, e \in Cmds : Has(d)' /\ Has(e)' /\ m_params'[d] = m_params'[e] => d = e
    BY <2>1, <2>2, <2>3
  <2>8. \A p \in owned : \E d \in Cmds : Has(d)' /\ m_params'[d] = p
    BY <2>1, <2>2, <2>3
  <2>9. \A d \in Cmds : life'[d] = "live" => class'[d] # "none"
    BY <1>2 DEF MoveQuery
  <2>10. QED
    BY <2>1, <2>4, <2>5, <2>6, <2>7, <2>8, <2>9
<1>3. ASSUME NEW c \in Cmds, Destroy(c)
      PROVE  ParamsInv'
  BY <1>3 DEF Destroy
<1>4. ASSUME NEW c \in Cmds, NEW k \in Classes \cup {"view"}, NEW f, Make(c, k, f),
             UNCHANGED queryvars
      PROVE  ParamsInv'
  <2>1. k # "query"
    BY ClassNames
  <2>2. class' \in [Cmds -> Classes \cup {"view", "query", "none"}]
    BY <1>4 DEF Make
  <2>3. life[c] = "unborn" /\ m_params[c] = "none" /\ m_params' = m_params
    BY <1>4 DEF Make, queryvars
  <2>4. \A d \in Cmds : Has(d)' <=> Has(d)
    BY <1>4, <2>3 DEF Make
  <2>5. \A d \in Cmds : Is(d, "query")' => Is(d, "query")
    BY <1>4, <2>1 DEF Make
  <2>6. \A d \in Cmds : life'[d] = "live" => class'[d] # "none"
    BY <1>4, ClassNames DEF Make
  <2>7. QED
    BY <1>4, <2>2, <2>3, <2>4, <2>5, <2>6 DEF Make, queryvars
<1>5. ASSUME UNCHANGED <<life, class, m_params, freed, owned>>
      PROVE  ParamsInv'
  BY <1>5
<1>6. ASSUME NEW c \in Cmds, NEW other \in Cmds, CopyCommand(c, other)
      PROVE  ParamsInv'
  <2>1. class[other] \in Classes \cup {"view"}
    BY <1>6 DEF CopyCommand, IsKv
  <2>2. QED
    BY <1>4, <1>6, <2>1 DEF CopyCommand
<1>7. ASSUME NEW c \in Cmds,
             \/ \E s \in Strings : SetKey(c, s)
             \/ \E mode \in {"set", "add"} : SetMode(c, mode)
             \/ Locktime(c)
             \/ \E method \in Methods : AddOption(c, method)
             \/ \E s \in Raw : RawOptions(c, s)
             \/ \E f \in Flags, enabled \in BOOLEAN : SetFlag(c, f, enabled)
             \/ \E v \in Values : SetParam(c, v)
             \/ \E value \in {{"adhoc"}, {}} : Adhoc(c, value)
      PROVE  ParamsInv'
  BY <1>5, <1>7 DEF SetKey, SetMode, Locktime, AddOption, RawOptions, SetFlag,
                    SetParam, Adhoc, queryvars
<1>8. ASSUME NEW c \in Cmds, \E k \in Classes, s \in Strings \cup {"none"} : NewCommand(c, k, s)
      PROVE  ParamsInv'
  BY <1>4, <1>8 DEF NewCommand
<1>9. ASSUME NEW c \in Cmds, NewViewCommand(c)
      PROVE  ParamsInv'
  BY <1>4, <1>9 DEF NewViewCommand
<1>10. CASE AllDone \/ UNCHANGED vars
  BY <1>5, <1>10 DEF AllDone, vars, queryvars
<1>11. QED
  BY <1>1, <1>2, <1>3, <1>6, <1>7, <1>8, <1>9, <1>10 DEF Next

(* QueryCommand frees its parameters exactly once, through any moves.       *)
THEOREM ParamsCorrect == Spec => []ParamsOwnedOnce
<1>1. ParamsInv => ParamsOwnedOnce
  BY DEF ParamsInv, ParamsOwnedOnce, Has
<1>2. QED
  BY ParamsInit, ParamsStep, <1>1, PTL DEF Spec

(* A block is some command's exactly as long as it is allocated.            *)
OwnedIsHad == \A p \in Params : p \in owned <=> Having(p) # {}

LEMMA OwnedHad == ParamsInv => OwnedIsHad
BY CommandsAssumption DEF ParamsInv, OwnedIsHad, Having, Has

LEMMA OwnedHadNext == ParamsInv' => OwnedIsHad'
BY OwnedHad, PTL

(* What is not allocated any more was freed in that step, and nothing else. *)
LEMMA FreedStep ==
  ASSUME ParamsInv, [Next]_vars
  PROVE  freed' = freed \cup (owned \ owned')
<1>1. ASSUME NEW c \in Cmds, NEW p \in Params, NEW v \in Values, NewQueryCommand(c, p, v)
      PROVE  freed' = freed \cup (owned \ owned')
  BY <1>1 DEF NewQueryCommand
<1>2. ASSUME NEW c \in Cmds, Destroy(c)
      PROVE  freed' = freed \cup (owned \ owned')
  BY <1>2, CommandsAssumption DEF Destroy, ParamsInv, Has
<1>3. CASE UNCHANGED <<owned, freed>>
  BY <1>3
<1>4. QED
  BY <1>1, <1>2, <1>3
     DEF Next, vars, queryvars, NewCommand, SetKey, SetMode, Locktime, NewViewCommand,
         AddOption, RawOptions, SetFlag, CopyCommand, MoveQuery, SetParam, Adhoc,
         AllDone

LEMMA MovingStep == ParamsInv /\ [Next]_vars => Moving!Next
<1> SUFFICES ASSUME ParamsInv, [Next]_vars PROVE Moving!Next
  OBVIOUS
<1>1. ParamsInv'
  BY ParamsStep
<1>2. \A p \in Params : /\ p \in owned <=> Having(p) # {}
                        /\ p \in owned' <=> Having(p)' # {}
  BY <1>1, OwnedHad, OwnedHadNext DEF OwnedIsHad
<1>3. freed' = freed \cup {p \in Params : Having(p) # {} /\ Having(p)' = {}}
  <2>1. ASSUME NEW p \in Params
        PROVE  p \in owned \ owned' <=> Having(p) # {} /\ Having(p)' = {}
    BY <1>2
  <2>2. owned \subseteq Params
    BY DEF ParamsInv
  <2>3. QED
    BY <2>1, <2>2, FreedStep
<1>4. freed \subseteq Params /\ \A p \in freed : Having(p)' = {}
  BY <1>1, <1>2, <1>3 DEF ParamsInv
<1>5. QED
  BY <1>3, <1>4 DEF Moving!Next

(* The parameters of a query go from command to command and are freed in    *)
(* the step in which the last of them is destroyed.                         *)
THEOREM MovingCorrect == Spec => ParamsPassedOn
<1>1. Init => Moving!Init
  <2>1. ASSUME Init, NEW p \in Params PROVE Having(p) = {}
    BY <2>1, CommandsAssumption DEF Init, Having
  <2>2. QED
    BY <2>1 DEF Init, Moving!Init
<1>2. QED
  BY <1>1, ParamsInit, ParamsStep, MovingStep, PTL DEF Spec, ParamsPassedOn, Moving!Spec

-----------------------------------------------------------------------------
(* What is sent. *)

Words  == {"set", "add", "get", "remove", "counter", "unlock", "touch", "lock", "adhoc"}
What   == SUBSET (Words \cup Flags)
Name   == STRING \cup {"descending"}   (* (for the provers, who know no literal is one) *)
Item   == Name \cup Values \cup Strings \cup {"none"}
Remark == Departures \cup {"open"}
Option == [opt : Name, sep : BOOLEAN]

Types ==
  /\ asked \in [Cmds -> [what : What, args : Seq(Item)]]
  /\ field \in [Cmds -> What]
  /\ key \in [Cmds -> Strings \cup {"none"}]
  /\ caveats \in [Cmds -> SUBSET Remark]
  /\ m_options \in [Cmds -> Seq(Option)]
  /\ optstr \in [Cmds -> Cmds \cup {"none"}]
  /\ noptstr \in [Cmds -> Nat]
  /\ params \in [Params -> Seq(Values)]

UnbornOK(c) == life[c] = "unborn" => m_options[c] = <<>> /\ optstr[c] = "none"

(* The string of c is what was asked for, separated and ended, if c was not *)
(* given reduce(), and nothing followed a raw string that is not ended.     *)
StringOK(c) ==
  /\ "reduce" \notin caveats[c] => asked[c].args = Names(m_options[c])
  /\ "joined" \notin caveats[c] => \A i \in 1 .. Len(m_options[c]) - 1 : m_options[c][i].sep
  /\ caveats[c] \cap {"joined", "open"} = {} => \A i \in 1 .. Len(m_options[c]) : m_options[c][i].sep

(* The C structure of a view that is not a mere copy knows the string of    *)
(* its own object and its length; no view points to one that is yet to be.  *)
ViewOK(c) ==
  Is(c, "view") =>
    /\ asked[c].what = field[c]
    /\ StringOK(c)
    /\ optstr[c] = "none" => m_options[c] = <<>>
    /\ optstr[c] = c => noptstr[c] = Len(m_options[c])
    /\ optstr[c] \in {"none", c} \/ "copied" \in caveats[c]
    /\ optstr[c] \in Cmds => life[optstr[c]] # "unborn"

QueryOK(c) ==
  Is(c, "query") => asked[c] = [what |-> field[c], args |-> params[m_params[c]]]

KvOK(c) ==
  IsKv(c) =>
    /\ asked[c].args = <<key[c]>>
    /\ caveats[c] \cap Departures = {} => asked[c].what = Effect(c)

AskedInv ==
  /\ Types
  /\ \A c \in Cmds : UnbornOK(c) /\ ViewOK(c) /\ QueryOK(c) /\ KvOK(c)

LEMMA Table ==
  ASSUME NEW k \in Classes
  PROVE  /\ k \notin Departures => Purpose(k) = IF Scheduler[k] = "store" THEN Operation(k)
                                                ELSE {Scheduler[k]} \cup Operation(k)
         /\ Purpose(k) \in What /\ Operation(k) \in What
         /\ {k} \cap Departures \in SUBSET Remark
<1>1. /\ Scheduler["get"] = "get" /\ Scheduler["remove"] = "remove"
      /\ Scheduler["counter"] = "counter" /\ Scheduler["unlock"] = "unlock"
      /\ Scheduler["upsert"] = "store" /\ Scheduler["insert"] = "store"
  BY DEF Scheduler
<1>2. /\ k \in {"get", "remove", "counter", "unlock", "touch"} => Purpose(k) = {k} /\ Operation(k) = {}
      /\ k \in {"upsert", "upsert_sized"} => Purpose(k) = {"set"}
      /\ k = "upsert_sized" => Operation(k) = {}
      /\ k = "upsert" => Operation(k) = {"set"}
      /\ k = "insert" => Purpose(k) = {"add"} /\ Operation(k) = {"add"}
  BY DEF Purpose, Operation
<1>3. Purpose(k) \in What /\ Operation(k) \in What
  BY <1>2, ClassNames DEF What, Words
<1>4. {k} \cap Departures \in SUBSET Remark
  BY DEF Remark
<1>5. CASE k \in {"get", "remove", "counter", "unlock"}
  <2>1. Scheduler[k] = k /\ Scheduler[k] # "store"
    BY <1>1, <1>5
  <2>2. {Scheduler[k]} \cup Operation(k) = Purpose(k)
    BY <1>2, <1>5, <2>1
  <2>3. QED
    BY <1>3, <1>4, <2>1, <2>2
<1>6. CASE k \in {"upsert", "insert"}
  BY <1>1, <1>2, <1>3, <1>4, <1>6
<1>7. CASE k \in {"touch", "upsert_sized"}
  BY <1>3, <1>4, <1>7 DEF Departures
<1>8. QED
  BY ClassNames, <1>5, <1>6, <1>7

(* Adding an option adds its name. *)
LEMMA NamesAppend ==
  ASSUME NEW s \in Seq(Option), NEW o \in Option
  PROVE  /\ Append(s, o) \in Seq(Option) /\ Len(Append(s, o)) = Len(s) + 1
         /\ Names(s) \in Seq(Name)
         /\ Names(Append(s, o)) = Append(Names(s), o.opt)
         /\ \A i \in 1 .. Len(s) : Append(s, o)[i] = s[i]
<1>1. /\ Append(s, o) \in Seq(Option) /\ Len(Append(s, o)) = Len(s) + 1
      /\ \A i \in 1 .. Len(s) : Append(s, o)[i] = s[i]
      /\ Append(s, o)[Len(s) + 1] = o
      /\ DOMAIN s = 1 .. Len(s) /\ Len(s) \in Nat
  OBVIOUS
<1>2. DOMAIN Append(s, o) = 1 .. Len(s) + 1
  BY <1>1
<1>3. Names(s) \in Seq(Name) /\ Len(Names(s)) = Len(s)
  <2>1. Names(s) \in [1 .. Len(s) -> Name]
    <3>1. \A i \in 1 .. Len(s) : s[i] \in Option
      BY <1>1
    <3>2. \A i \in 1 .. Len(s) : s[i].opt \in Name
      BY <3>1 DEF Option
    <3>3. QED
      BY <1>1, <3>2 DEF Names
  <2>2. QED
    BY <1>1, <2>1
<1>4. Names(Append(s, o)) = Append(Names(s), o.opt)
  <2>1. \A i \in 1 .. Len(s) + 1 : Names(Append(s, o))[i] = Append(Names(s), o.opt)[i]
    BY <1>1, <1>2, <1>3 DEF Names
  <2>2. DOMAIN Append(Names(s), o.opt) = 1 .. Len(s) + 1
    BY <1>1, <1>3
  <2>3. DOMAIN Names(Append(s, o)) = 1 .. Len(s) + 1
    BY <1>2 DEF Names
  <2>4. Names(Append(s, o)) = [i \in 1 .. Len(s) + 1 |-> Append(Names(s), o.opt)[i]]
    BY <1>2, <2>1 DEF Names
  <2>5. Append(Names(s), o.opt) = [i \in 1 .. Len(s) + 1 |-> Append(Names(s), o.opt)[i]]
    BY <1>1, <1>3
  <2>6. QED
    BY <2>4, <2>5
<1>5. QED
  BY <1>1, <1>3, <1>4

LEMMA AskedInit == Init => AskedInv
<1> SUFFICES ASSUME Init PROVE AskedInv
  OBVIOUS
<1>1. Types
  BY DEF Init, Types, What, Item, Name, Option, Remark
<1>2. QED
  BY <1>1 DEF Init, AskedInv, UnbornOK, ViewOK, QueryOK, KvOK, Is, IsKv

(* An operation on c leaves alone a command d whose own state it keeps.     *)
Kept(d) ==
  /\ life'[d] = life[d] \/ life'[d] \in {"moved", "dead"}
  /\ class'[d] = class[d] /\ field'[d] = field[d] /\ key'[d] = key[d]
  /\ m_options'[d] = m_options[d] /\ optstr'[d] = optstr[d] /\ noptstr'[d] = noptstr[d]
  /\ asked'[d] = asked[d] /\ caveats'[d] = caveats[d]
  /\ Is(d, "query") /\ life'[d] = "live" =>
       m_params'[d] = m_params[d] /\ params'[m_params[d]] = params[m_params[d]]

LEMMA KeptOK ==
  ASSUME NEW d \in Cmds, Kept(d), UnbornOK(d), ViewOK(d), QueryOK(d), KvOK(d),
         \A e \in Cmds : life[e] # "unborn" => life'[e] # "unborn"
  PROVE  (UnbornOK(d) /\ ViewOK(d) /\ QueryOK(d) /\ KvOK(d))'
<1>1. /\ Is(d, "view")' => Is(d, "view") /\ life'[d] = "live"
      /\ Is(d, "query")' => Is(d, "query") /\ life'[d] = "live"
      /\ IsKv(d)' => IsKv(d)
      /\ StringOK(d)' <=> StringOK(d)
      /\ Effect(d)' = Effect(d)
  BY DEF Kept, Is, IsKv, StringOK, Effect
<1>2. UnbornOK(d)'
  BY DEF Kept, UnbornOK
<1>3. ViewOK(d)'
  BY <1>1 DEF Kept, ViewOK
<1>4. QueryOK(d)'
  BY <1>1 DEF Kept, QueryOK
<1>5. KvOK(d)'
  BY <1>1 DEF Kept, KvOK
<1>6. QED
  BY <1>2, <1>3, <1>4, <1>5

(* Nothing becomes unborn again.                                            *)
LEMMA BornStays ==
  ASSUME ParamsInv, [Next]_vars, NEW e \in Cmds, life[e] # "unborn"
  PROVE  life'[e] # "unborn"
<1>1. ASSUME NEW c \in Cmds, NEW k, NEW f, Make(c, k, f) PROVE life'[e] # "unborn"
  BY <1>1 DEF Make, ParamsInv
<1>2. ASSUME NEW c \in Cmds, NEW other \in Cmds, MoveQuery(c, other) PROVE life'[e] # "unborn"
  BY <1>2 DEF MoveQuery, ParamsInv
<1>3. ASSUME NEW c \in Cmds, Destroy(c) PROVE life'[e] # "unborn"
  BY <1>3 DEF Destroy, ParamsInv
<1>4. CASE UNCHANGED life
  BY <1>4
<1>5. QED
  BY <1>1, <1>2, <1>3, <1>4
     DEF Next, vars, NewCommand, SetKey, SetMode, Locktime, NewViewCommand, AddOption,
         RawOptions, SetFlag, CopyCommand, NewQueryCommand, SetParam, Adhoc, AllDone

(* One field of what is asked of c changes, and its type stays.             *)
LEMMA AskArgs ==
  ASSUME Types, NEW c \in Cmds, NEW v \in Seq(Item), asked' = [asked EXCEPT ![c].args = v]
  PROVE  /\ asked' \in [Cmds -> [what : What, args : Seq(Item)]]
         /\ asked'[c] = [what |-> asked[c].what, args |-> v]
         /\ \A d \in Cmds \ {c} : asked'[d] = asked[d]
<1>1. asked[c] \in [what : What, args : Seq(Item)]
  BY DEF Types
<1>2. [asked[c] EXCEPT !.args = v] = [what |-> asked[c].what, args |-> v]
  BY <1>1
<1>3. asked' = [asked EXCEPT ![c] = [what |-> asked[c].what, args |-> v]]
  BY <1>2
<1> DEFINE R == [what : What, args : Seq(Item)]
           n == [what |-> asked[c].what, args |-> v]
<1>4. n \in R /\ asked \in [Cmds -> R] /\ asked' = [asked EXCEPT ![c] = n]
  BY <1>1, <1>3 DEF Types
<1> HIDE DEF R, n
<1>5. asked' \in [Cmds -> R] /\ asked'[c] = n /\ \A d \in Cmds \ {c} : asked'[d] = asked[d]
  BY <1>4
<1>6. QED
  BY <1>5 DEF R, n

LEMMA AskWhat ==
  ASSUME Types, NEW c \in Cmds, NEW w \in What, asked' = [asked EXCEPT ![c].what = w]
  PROVE  /\ asked' \in [Cmds -> [what : What, args : Seq(Item)]]
         /\ asked'[c] = [what |-> w, args |-> asked[c].args]
         /\ \A d \in Cmds \ {c} : asked'[d] = asked[d]
<1>1. asked[c] \in [what : What, args : Seq(Item)]
  BY DEF Types
<1>2. [asked[c] EXCEPT !.what = w] = [what |-> w, args |-> asked[c].args]
  BY <1>1
<1>3. asked' = [asked EXCEPT ![c] = [what |-> w, args |-> asked[c].args]]
  BY <1>2
<1> DEFINE R == [what : What, args : Seq(Item)]
           n == [what |-> w, args |-> asked[c].args]
<1>4. n \in R /\ asked \in [Cmds -> R] /\ asked' = [asked EXCEPT ![c] = n]
  BY <1>1, <1>3 DEF Types
<1> HIDE DEF R, n
<1>5. asked' \in [Cmds -> R] /\ asked'[c] = n /\ \A d \in Cmds \ {c} : asked'[d] = asked[d]
  BY <1>4
<1>6. QED
  BY <1>5 DEF R, n

LEMMA AskedStep ==
  ASSUME ParamsInv, AskedInv, [Next]_vars
  PROVE  AskedInv'
<1>1. ASSUME NEW c \in Cmds, Types', \A d \in Cmds \ {c} : Kept(d),
             (UnbornOK(c) /\ ViewOK(c) /\ QueryOK(c) /\ KvOK(c))'
      PROVE  AskedInv'
  BY <1>1, KeptOK, BornStays DEF AskedInv
<1>2. ASSUME Types', \A d \in Cmds : Kept(d)
      PROVE  AskedInv'
  BY <1>2, KeptOK, BornStays DEF AskedInv
<1>3. ASSUME NEW c \in Cmds, NEW k \in Classes, NEW s \in Strings \cup {"none"}, NewCommand(c, k, s)
      PROVE  AskedInv'
  <2>1. Types'
    <3>1. <<s>> \in Seq(Item)
      BY DEF Item
    <3>2. [what |-> Purpose(k), args |-> <<s>>] \in [what : What, args : Seq(Item)]
      BY <3>1, Table
    <3>3. QED
      BY <1>3, <3>2, Table DEF NewCommand, Make, AskedInv, Types, viewvars, queryvars
  <2>2. \A d \in Cmds \ {c} : Kept(d)
    BY <1>3 DEF NewCommand, Make, Kept, AskedInv, Types, ParamsInv, viewvars, queryvars
  <2>3. /\ life'[c] = "live" /\ class'[c] = k /\ field'[c] = Operation(k) /\ key'[c] = s
        /\ asked'[c] = [what |-> Purpose(k), args |-> <<s>>]
        /\ caveats'[c] = {k} \cap Departures
    BY <1>3 DEF NewCommand, Make, AskedInv, Types, ParamsInv
  <2>4. KvOK(c)'
    <3>1. asked'[c].args = <<s>> /\ asked'[c].what = Purpose(k)
      BY <2>3
    <3>2. caveats'[c] \cap Departures = {} => k \notin Departures
      BY <2>3
    <3>3. Effect(c)' = IF Scheduler[k] = "store" THEN Operation(k) ELSE {Scheduler[k]} \cup Operation(k)
      BY <2>3 DEF Effect
    <3>4. QED
      BY <2>3, <3>1, <3>2, <3>3, Table DEF KvOK
  <2>5. (UnbornOK(c) /\ ViewOK(c) /\ QueryOK(c))'
    BY <2>3, ClassNames DEF UnbornOK, ViewOK, QueryOK, Is
  <2>6. QED
    BY <1>1, <2>1, <2>2, <2>4, <2>5
<1>4. ASSUME NEW c \in Cmds, NEW s \in Strings, SetKey(c, s)
      PROVE  AskedInv'
  <2>1. <<s>> \in Seq(Item)
    BY DEF Item
  <2>2. asked' = [asked EXCEPT ![c].args = <<s>>]
    BY <1>4 DEF SetKey
  <2>3. /\ IsKv(c) /\ UNCHANGED <<life, class, field, viewvars, queryvars, caveats>>
        /\ key' = [key EXCEPT ![c] = s]
    BY <1>4 DEF SetKey
  <2>4. /\ asked' \in [Cmds -> [what : What, args : Seq(Item)]]
        /\ asked'[c] = [what |-> asked[c].what, args |-> <<s>>]
        /\ \A d \in Cmds \ {c} : asked'[d] = asked[d]
    BY <2>1, <2>2, AskArgs DEF AskedInv
  <2>5. Types'
    BY <2>1, <2>3, <2>4 DEF AskedInv, Types, viewvars, queryvars
  <2>6. \A d \in Cmds \ {c} : Kept(d)
    BY <2>3, <2>4 DEF Kept, AskedInv, Types, viewvars, queryvars
  <2>7. key'[c] = s
    BY <2>3 DEF AskedInv, Types
  <2>8. caveats[c] \cap Departures = {} => asked[c].what = Effect(c)
    BY <2>3 DEF AskedInv, KvOK
  <2>9. Effect(c)' = Effect(c)
    BY <2>3 DEF Effect
  <2>10. KvOK(c)'
    BY <2>3, <2>4, <2>7, <2>8, <2>9 DEF KvOK
  <2>11. (UnbornOK(c) /\ ViewOK(c) /\ QueryOK(c))'
    BY <2>3, ClassNames DEF UnbornOK, ViewOK, QueryOK, Is, IsKv
  <2>12. QED
    BY <1>1, <2>5, <2>6, <2>10, <2>11
<1>5. ASSUME NEW c \in Cmds, Locktime(c) \/ (\E mode \in {"set", "add"} : SetMode(c, mode))
      PROVE  AskedInv'
  <2>1. PICK f \in What, w \in What, v \in {caveats[c], {}} :
          /\ field' = [field EXCEPT ![c] = f] /\ asked' = [asked EXCEPT ![c].what = w]
          /\ caveats' = [caveats EXCEPT ![c] = v]
          /\ IsKv(c) /\ UNCHANGED <<life, class, key, viewvars, queryvars>>
          /\ w = IF Scheduler[class[c]] = "store" THEN f ELSE {Scheduler[class[c]]} \cup f
    <3>1. CASE Locktime(c)
      <4>1. class[c] = "get" /\ Scheduler["get"] = "get"
        BY <3>1 DEF Locktime, Is, Scheduler
      <4>2. {"lock"} \in What /\ {"get", "lock"} \in What
        BY DEF What, Words
      <4>3. caveats' = [caveats EXCEPT ![c] = caveats[c]]
        BY <3>1 DEF Locktime, AskedInv, Types
      <4>4. IsKv(c)
        BY <3>1, <4>1, ClassNames DEF Locktime, Is, IsKv
      <4>5. {"get", "lock"} = {"get"} \cup {"lock"} /\ "get" # "store"
        OBVIOUS
      <4>6. /\ field' = [field EXCEPT ![c] = {"lock"}]
            /\ asked' = [asked EXCEPT ![c].what = {"get", "lock"}]
            /\ UNCHANGED <<life, class, key, viewvars, queryvars>>
        BY <3>1 DEF Locktime
      <4>7. {"get", "lock"} = IF Scheduler[class[c]] = "store" THEN {"lock"}
                              ELSE {Scheduler[class[c]]} \cup {"lock"}
        BY <4>1, <4>5
      <4>8. QED
        BY <4>2, <4>3, <4>4, <4>6, <4>7
    <3>2. CASE \E mode \in {"set", "add"} : SetMode(c, mode)
      <4>1. PICK mode \in {"set", "add"} : SetMode(c, mode)
        BY <3>2
      <4>2. {mode} \in What
        BY DEF What, Words
      <4>3. QED
        BY <4>1, <4>2 DEF SetMode
    <3>3. QED
      BY <1>5, <3>1, <3>2
  <2>2. /\ asked' \in [Cmds -> [what : What, args : Seq(Item)]]
        /\ asked'[c] = [what |-> w, args |-> asked[c].args]
        /\ \A d \in Cmds \ {c} : asked'[d] = asked[d]
    BY <2>1, AskWhat DEF AskedInv
  <2>3. Types'
    BY <2>1, <2>2 DEF AskedInv, Types, viewvars, queryvars
  <2>4. \A d \in Cmds \ {c} : Kept(d)
    BY <2>1, <2>2 DEF Kept, AskedInv, Types, viewvars, queryvars
  <2>5. field'[c] = f
    BY <2>1 DEF AskedInv, Types
  <2>6. asked[c].args = <<key[c]>>
    BY <2>1 DEF AskedInv, KvOK
  <2>7. Effect(c)' = w
    BY <2>1, <2>5 DEF Effect, IsKv
  <2>8. KvOK(c)'
    BY <2>1, <2>2, <2>6, <2>7 DEF KvOK
  <2>9. (UnbornOK(c) /\ ViewOK(c) /\ QueryOK(c))'
    BY <2>1, ClassNames DEF UnbornOK, ViewOK, QueryOK, Is, IsKv
  <2>10. QED
    BY <1>1, <2>3, <2>4, <2>8, <2>9
<1>6. ASSUME NEW c \in Cmds, NewViewCommand(c)
      PROVE  AskedInv'
  <2>1. Types'
    BY <1>6 DEF NewViewCommand, Make, AskedInv, Types, What, Item, viewvars, queryvars
  <2>2. \A d \in Cmds \ {c} : Kept(d)
    BY <1>6 DEF NewViewCommand, Make, Kept, AskedInv, Types, ParamsInv, viewvars, queryvars
  <2>3. /\ life'[c] = "live" /\ class'[c] = "view" /\ field'[c] = {}
        /\ m_options'[c] = <<>> /\ optstr'[c] = "none"
        /\ asked'[c] = [what |-> {}, args |-> <<>>]
    BY <1>6 DEF NewViewCommand, Make, AskedInv, Types, ParamsInv, UnbornOK, viewvars
  <2>4. Names(<<>>) = <<>>
    BY DEF Names
  <2>5. ViewOK(c)'
    <3>1. Len(<<>>) = 0 /\ (\A i \in 1 .. 0 : FALSE) /\ (\A i \in 1 .. 0 - 1 : FALSE)
          /\ c # "none" /\ "none" \notin Cmds
      BY CommandsAssumption
    <3>2. asked'[c].what = {} /\ asked'[c].args = <<>>
      BY <2>3
    <3>3. QED
      BY <2>3, <2>4, <3>1, <3>2 DEF ViewOK, StringOK
  <2>6. (UnbornOK(c) /\ QueryOK(c) /\ KvOK(c))'
    BY <2>3, ClassNames DEF UnbornOK, QueryOK, KvOK, Is, IsKv
  <2>7. QED
    BY <1>1, <2>1, <2>2, <2>5, <2>6
<1>7. ASSUME NEW c \in Cmds, Is(c, "view"), NEW s \in Seq(Option), SetOptions(c, s),
             NEW a \in Seq(Item), asked' = [asked EXCEPT ![c].args = a],
             NEW v \in SUBSET Remark, caveats' = [caveats EXCEPT ![c] = v],
             "reduce" \notin v => a = Names(s),
             "joined" \notin v => \A i \in 1 .. Len(s) - 1 : s[i].sep,
             v \cap {"joined", "open"} = {} => \A i \in 1 .. Len(s) : s[i].sep,
             UNCHANGED <<life, class, field, key, queryvars>>
      PROVE  AskedInv'
  <2>1. /\ asked' \in [Cmds -> [what : What, args : Seq(Item)]]
        /\ asked'[c] = [what |-> asked[c].what, args |-> a]
        /\ \A d \in Cmds \ {c} : asked'[d] = asked[d]
    BY <1>7, AskArgs DEF AskedInv
  <2>2. Types'
    BY <1>7, <2>1 DEF SetOptions, AskedInv, Types, queryvars
  <2>3. \A d \in Cmds \ {c} : Kept(d)
    BY <1>7, <2>1 DEF SetOptions, Kept, AskedInv, Types, queryvars
  <2>4. /\ m_options'[c] = s /\ optstr'[c] = c /\ noptstr'[c] = Len(s) /\ caveats'[c] = v
    BY <1>7 DEF SetOptions, AskedInv, Types
  <2>5. asked'[c].what = field[c] /\ asked'[c].args = a
    BY <1>7, <2>1 DEF AskedInv, ViewOK
  <2>6. StringOK(c)'
    BY <1>7, <2>4, <2>5 DEF StringOK
  <2>7. ViewOK(c)'
    <3>1. life'[c] # "unborn" /\ c # "none"
      BY <1>7, CommandsAssumption DEF Is
    <3>2. QED
      BY <1>7, <2>4, <2>5, <2>6, <3>1 DEF ViewOK
  <2>8. (UnbornOK(c) /\ QueryOK(c) /\ KvOK(c))'
    BY <1>7, ClassNames DEF UnbornOK, QueryOK, KvOK, Is, IsKv
  <2>9. QED
    BY <1>1, <2>2, <2>3, <2>7, <2>8
<1>8. ASSUME NEW c \in Cmds, NEW method \in Methods, AddOption(c, method)
      PROVE  AskedInv'
  <2> DEFINE o == [opt |-> OptionOf(method), sep |-> TRUE]
             s == Append(m_options[c], o)
             a == Append(asked[c].args, method)
             v == (caveats[c] \ {"copied"}) \cup ({method} \cap {"reduce"})
                     \cup (IF "open" \in caveats[c] THEN {"joined"} ELSE {})
  <2>1. /\ m_options[c] \in Seq(Option) /\ o \in Option /\ o.opt = OptionOf(method) /\ o.sep
        /\ asked[c].args \in Seq(Item) /\ method \in Item
    <3>1. m_options[c] \in Seq(Option) /\ method \in STRING /\ OptionOf(method) \in Name
      <4>1. method \in STRING
        BY CommandsAssumption
      <4>2. OptionOf(method) \in Name
        BY <4>1 DEF OptionOf, Name
      <4>3. m_options[c] \in Seq(Option)
        BY DEF AskedInv, Types
      <4>4. QED
        BY <4>1, <4>2, <4>3
    <3>2. asked[c] \in [what : What, args : Seq(Item)]
      BY DEF AskedInv, Types
    <3>3. QED
      BY <3>1, <3>2 DEF Option, Item, Name
  <2>2. /\ Is(c, "view") /\ SetOptions(c, s)
        /\ asked' = [asked EXCEPT ![c].args = a]
        /\ caveats' = [caveats EXCEPT ![c] = v]
        /\ UNCHANGED <<life, class, field, key, queryvars>>
    BY <1>8 DEF AddOption, AskedInv, Types
  <2>3. /\ s \in Seq(Option) /\ Names(s) = Append(Names(m_options[c]), OptionOf(method))
        /\ Len(s) = Len(m_options[c]) + 1 /\ s[Len(s)].sep
        /\ \A i \in 1 .. Len(m_options[c]) : s[i] = m_options[c][i]
    <3>1. o.opt = OptionOf(method) /\ o.sep /\ o \in Option /\ m_options[c] \in Seq(Option)
      BY <2>1
    <3> HIDE DEF o
    <3>2. Len(m_options[c]) \in Nat
      BY <3>1
    <3>3. s[Len(m_options[c]) + 1] = o
      BY <3>1
    <3>4. QED
      BY <3>1, <3>2, <3>3, NamesAppend
  <2>4. a \in Seq(Item)
    BY <2>1
  <2>5. v \in SUBSET Remark
    BY DEF AskedInv, Types, Remark, Departures
  <2>6. StringOK(c)
    BY <2>2 DEF AskedInv, ViewOK
  <2>7. "reduce" \notin v => a = Names(s)
    <3>1. ASSUME "reduce" \notin v PROVE method # "reduce" /\ "reduce" \notin caveats[c]
      BY <3>1
    <3>2. QED
      BY <2>3, <2>6, <3>1 DEF StringOK, OptionOf
  <2>8. "joined" \notin v => caveats[c] \cap {"joined", "open"} = {}
    OBVIOUS
  <2>9. "joined" \notin v => \A i \in 1 .. Len(s) : s[i].sep
    <3>1. Len(m_options[c]) \in Nat
      BY <2>1
    <3>2. \A i \in 1 .. Len(s) : i \in 1 .. Len(m_options[c]) \/ i = Len(s)
      BY <2>3, <3>1
    <3> HIDE DEF s, v
    <3>3. QED
      BY <2>3, <2>6, <2>8, <3>2 DEF StringOK
  <2>10. Len(s) \in Nat
    BY <2>3
  <2> HIDE DEF s, a, v
  <2>11. "joined" \notin v => \A i \in 1 .. Len(s) - 1 : s[i].sep
    BY <2>9, <2>10
  <2>12. v \cap {"joined", "open"} = {} => \A i \in 1 .. Len(s) : s[i].sep
    BY <2>9
  <2>13. QED
    BY <1>7, <2>2, <2>3, <2>4, <2>5, <2>7, <2>11, <2>12
<1>9. ASSUME NEW c \in Cmds, NEW s \in Raw, RawOptions(c, s)
      PROVE  AskedInv'
  <2>1. s \in Seq(Option) /\ \A i \in 1 .. Len(s) - 1 : s[i].sep
    <3>1. s \in Seq([opt : STRING, sep : BOOLEAN]) /\ \A i \in 1 .. Len(s) - 1 : s[i].sep
      BY CommandsAssumption
    <3>2. ASSUME NEW r \in [opt : STRING, sep : BOOLEAN] PROVE r \in Option
      <4>1. r = [opt |-> r.opt, sep |-> r.sep] /\ r.opt \in Name /\ r.sep \in BOOLEAN
        BY DEF Name
      <4>2. QED
        BY <4>1 DEF Option
    <3>3. \A i \in 1 .. Len(s) : s[i] \in [opt : STRING, sep : BOOLEAN]
      <4> DEFINE R == [opt : STRING, sep : BOOLEAN]
      <4>1. s \in Seq(R)
        BY <3>1
      <4> HIDE DEF R
      <4>2. \A i \in 1 .. Len(s) : s[i] \in R
        BY <4>1
      <4>3. QED
        BY <4>2 DEF R
    <3>4. \A i \in 1 .. Len(s) : s[i] \in Option
      BY <3>2, <3>3
    <3>5. Len(s) \in Nat /\ DOMAIN s = 1 .. Len(s) /\ s = [i \in 1 .. Len(s) |-> s[i]]
      <4> DEFINE R == [opt : STRING, sep : BOOLEAN]
      <4>1. s \in Seq(R)
        BY <3>1
      <4> HIDE DEF R
      <4>2. QED
        BY <4>1
    <3>6. QED
      BY <3>1, <3>4, <3>5
  <2>2. Names(s) \in Seq(Item)
    <3>1. Len(s) \in Nat /\ DOMAIN s = 1 .. Len(s) /\ \A i \in 1 .. Len(s) : s[i] \in Option
      BY <2>1
    <3>2. Names(s) \in [1 .. Len(s) -> Item]
      BY <3>1 DEF Names, Option, Item
    <3>3. QED
      BY <3>1, <3>2
  <2>3. /\ Is(c, "view") /\ SetOptions(c, s) /\ asked' = [asked EXCEPT ![c].args = Names(s)]
        /\ caveats' = [caveats EXCEPT ![c] = Ending(s)]
        /\ UNCHANGED <<life, class, field, key, queryvars>>
    BY <1>9 DEF RawOptions
  <2>4. Ending(s) \in SUBSET Remark
    BY DEF Ending, Remark
  <2>5. Ending(s) \cap {"joined", "open"} = {} => \A i \in 1 .. Len(s) : s[i].sep
    <3>1. ASSUME Ending(s) \cap {"joined", "open"} = {}, NEW i \in 1 .. Len(s) PROVE s[i].sep
      <4>1. Len(s) \in Nat /\ s # <<>>
        BY <2>1, <3>1
      <4>2. s[Len(s)].sep
        BY <3>1, <4>1 DEF Ending
      <4>3. QED
        BY <2>1, <4>1, <4>2
    <3>2. QED
      BY <3>1
  <2>6. QED
    BY <1>7, <2>1, <2>2, <2>3, <2>4, <2>5
<1>10. ASSUME NEW c \in Cmds, NEW f \in Flags, NEW enabled \in BOOLEAN, SetFlag(c, f, enabled)
       PROVE  AskedInv'
  <2>1. PICK w \in What : w = IF enabled THEN field[c] \cup {f} ELSE field[c] \ {f}
    BY DEF AskedInv, Types, What
  <2>2. asked[c].what = field[c]
    BY <1>10 DEF SetFlag, AskedInv, ViewOK
  <2>3. /\ Is(c, "view") /\ UNCHANGED <<life, class, key, viewvars, queryvars, caveats>>
        /\ field' = [field EXCEPT ![c] = w]
        /\ asked' = [asked EXCEPT ![c].what = w]
    BY <1>10, <2>1, <2>2 DEF SetFlag
  <2>4. /\ asked' \in [Cmds -> [what : What, args : Seq(Item)]]
        /\ asked'[c] = [what |-> w, args |-> asked[c].args]
        /\ \A d \in Cmds \ {c} : asked'[d] = asked[d]
    BY <2>3, AskWhat DEF AskedInv
  <2>5. Types'
    BY <2>3, <2>4 DEF AskedInv, Types, viewvars, queryvars
  <2>6. \A d \in Cmds \ {c} : Kept(d)
    BY <2>3, <2>4 DEF Kept, AskedInv, Types, viewvars, queryvars
  <2>7. field'[c] = w
    BY <2>3 DEF AskedInv, Types
  <2>8. StringOK(c)' <=> StringOK(c)
    BY <2>3, <2>4 DEF StringOK, viewvars
  <2>9. ViewOK(c)'
    BY <2>3, <2>4, <2>7, <2>8 DEF AskedInv, ViewOK, viewvars, Is
  <2>10. (UnbornOK(c) /\ QueryOK(c) /\ KvOK(c))'
    BY <2>3, ClassNames DEF UnbornOK, QueryOK, KvOK, Is, IsKv
  <2>11. QED
    BY <1>1, <2>5, <2>6, <2>9, <2>10
<1>11. ASSUME NEW c \in Cmds, NEW other \in Cmds, CopyCommand(c, other)
       PROVE  AskedInv'
  <2>1. /\ IsKv(other) \/ (Is(other, "view") /\ ~IsKv(other))
        /\ c # other /\ life[c] = "unborn" /\ Make(c, class[other], field[other])
    BY <1>11, ClassNames DEF CopyCommand, Make, Is, IsKv
  <2>2. Types'
    BY <1>11, <2>1 DEF CopyCommand, Make, AskedInv, Types, queryvars, Remark, Departures
  <2>3. \A d \in Cmds \ {c} : Kept(d)
    BY <1>11, <2>1 DEF CopyCommand, Make, Kept, AskedInv, Types, ParamsInv, queryvars
  <2>4. /\ life'[c] = "live" /\ class'[c] = class[other] /\ field'[c] = field[other]
        /\ key'[c] = key[other] /\ asked'[c] = asked[other]
        /\ m_options'[c] = m_options[other]
        /\ optstr'[c] = optstr[other] /\ noptstr'[c] = noptstr[other]
        /\ caveats'[c] = caveats[other] \cup (IF class[other] = "view" THEN {"copied"} ELSE {})
    BY <1>11, <2>1 DEF CopyCommand, Make, AskedInv, Types, ParamsInv
  <2>5. CASE IsKv(other)
    <3>1. Effect(c)' = Effect(other)
      BY <2>4 DEF Effect
    <3>2. KvOK(other) /\ caveats'[c] = caveats[other]
      BY <2>4, <2>5, ClassNames DEF AskedInv, IsKv
    <3>3. KvOK(c)'
      BY <2>4, <2>5, <3>1, <3>2 DEF KvOK
    <3>4. (UnbornOK(c) /\ ViewOK(c) /\ QueryOK(c))'
      BY <2>4, <2>5, ClassNames DEF UnbornOK, ViewOK, QueryOK, Is, IsKv
    <3>5. QED
      BY <1>1, <2>2, <2>3, <3>3, <3>4
  <2>6. CASE Is(other, "view") /\ ~IsKv(other)
    <3>1. class[other] = "view" /\ ViewOK(other) /\ StringOK(other)
      BY <2>6 DEF AskedInv, ViewOK, Is
    <3>2. caveats'[c] = caveats[other] \cup {"copied"}
      BY <2>4, <3>1
    <3>3. StringOK(c)'
      BY <2>4, <3>1, <3>2 DEF StringOK
    <3>4. optstr[other] # c
      BY <2>1, <2>6, <3>1 DEF ViewOK
    <3>5. optstr'[c] \in Cmds => life'[optstr'[c]] # "unborn"
      BY <2>4, <2>6, <3>1, BornStays DEF ViewOK
    <3>6. ViewOK(c)'
      BY <2>4, <2>6, <3>1, <3>2, <3>3, <3>4, <3>5 DEF ViewOK
    <3>7. (UnbornOK(c) /\ QueryOK(c) /\ KvOK(c))'
      BY <2>4, <3>1, ClassNames DEF UnbornOK, QueryOK, KvOK, Is, IsKv
    <3>8. QED
      BY <1>1, <2>2, <2>3, <3>6, <3>7
  <2>7. QED
    BY <2>1, <2>5, <2>6
<1>12. ASSUME NEW c \in Cmds, NEW p \in Params, NEW v \in Values, NewQueryCommand(c, p, v)
       PROVE  AskedInv'
  <2> DEFINE n == [what |-> {"adhoc"}, args |-> <<v>>]
  <2>1. {"adhoc"} \in What /\ n \in [what : What, args : Seq(Item)] /\ <<v>> \in Seq(Values)
    BY DEF What, Words, Item
  <2>2. /\ Make(c, "query", {"adhoc"}) /\ p \notin owned
        /\ m_params' = [m_params EXCEPT ![c] = p] /\ params' = [params EXCEPT ![p] = <<v>>]
        /\ asked' = [asked EXCEPT ![c] = n] /\ UNCHANGED <<key, viewvars, caveats>>
    BY <1>12 DEF NewQueryCommand
  <2>3. n = [what |-> {"adhoc"}, args |-> <<v>>]
    OBVIOUS
  <2> HIDE DEF n
  <2>4. Types'
    BY <2>1, <2>2 DEF Make, AskedInv, Types, viewvars
  <2>5. \A d \in Cmds \ {c} : Kept(d)
    BY <2>2 DEF Make, Kept, AskedInv, Types, ParamsInv, Has, Is, viewvars
  <2>6. /\ life'[c] = "live" /\ class'[c] = "query" /\ field'[c] = {"adhoc"}
        /\ m_params'[c] = p /\ params'[p] = <<v>> /\ asked'[c] = n
    BY <2>2 DEF Make, AskedInv, Types, ParamsInv
  <2>7. QueryOK(c)'
    BY <2>3, <2>6 DEF QueryOK
  <2>8. (UnbornOK(c) /\ ViewOK(c) /\ KvOK(c))'
    BY <2>6, ClassNames DEF UnbornOK, ViewOK, KvOK, Is, IsKv
  <2>9. QED
    BY <1>1, <2>4, <2>5, <2>7, <2>8
<1>13. ASSUME NEW c \in Cmds, NEW other \in Cmds, MoveQuery(c, other)
       PROVE  AskedInv'
  <2>1. Is(other, "query") /\ c # other /\ life[c] = "unborn"
    BY <1>13 DEF MoveQuery, Is
  <2>2. Types'
    BY <1>13 DEF MoveQuery, AskedInv, Types, viewvars
  <2>3. \A d \in Cmds \ {c} : Kept(d)
    BY <1>13, <2>1 DEF MoveQuery, Kept, AskedInv, Types, ParamsInv, viewvars
  <2>4. /\ life'[c] = "live" /\ class'[c] = "query" /\ field'[c] = field[other]
        /\ m_params'[c] = m_params[other] /\ asked'[c] = asked[other] /\ params' = params
    BY <1>13, <2>1 DEF MoveQuery, AskedInv, Types, ParamsInv
  <2>5. asked[other] = [what |-> field[other], args |-> params[m_params[other]]]
    BY <2>1 DEF AskedInv, QueryOK
  <2>6. QueryOK(c)'
    BY <2>4, <2>5 DEF QueryOK
  <2>7. (UnbornOK(c) /\ ViewOK(c) /\ KvOK(c))'
    BY <2>4, ClassNames DEF UnbornOK, ViewOK, KvOK, Is, IsKv
  <2>8. QED
    BY <1>1, <2>2, <2>3, <2>6, <2>7
<1>14. ASSUME NEW c \in Cmds, NEW v \in Values, SetParam(c, v)
       PROVE  AskedInv'
  <2>1. /\ Is(c, "query") /\ Has(c) /\ m_params[c] \in Params
        /\ UNCHANGED <<life, class, field, key, viewvars, m_params, freed, owned, caveats>>
    BY <1>14, CommandsAssumption DEF SetParam, ParamsInv, Has
  <2>2. CASE UNCHANGED <<params, asked>>
    <3>1. Types' /\ \A d \in Cmds : Kept(d)
      BY <2>1, <2>2 DEF Kept, AskedInv, Types, viewvars
    <3>2. QED
      BY <1>2, <3>1
  <2>3. CASE /\ params' = [params EXCEPT ![m_params[c]] = Append(@, v)]
             /\ asked' = [asked EXCEPT ![c].args = Append(@, v)]
    <3> DEFINE q == Append(params[m_params[c]], v)
    <3>1. asked[c].what = field[c] /\ asked[c].args = params[m_params[c]]
      <4>1. asked[c] = [what |-> field[c], args |-> params[m_params[c]]]
        BY <2>1 DEF AskedInv, QueryOK
      <4>2. QED
        BY <4>1
    <3>2. params[m_params[c]] \in Seq(Values)
      BY <2>1 DEF AskedInv, Types
    <3>3. q \in Seq(Values)
      BY <3>2
    <3>4. q \in Seq(Item)
      BY <3>3 DEF Item
    <3>5. asked' = [asked EXCEPT ![c].args = q] /\ params' = [params EXCEPT ![m_params[c]] = q]
      BY <2>3, <3>1
    <3> HIDE DEF q
    <3>6. /\ asked' \in [Cmds -> [what : What, args : Seq(Item)]]
          /\ asked'[c] = [what |-> field[c], args |-> q]
          /\ \A d \in Cmds \ {c} : asked'[d] = asked[d]
      BY <3>1, <3>4, <3>5, AskArgs DEF AskedInv
    <3>7. Types'
      BY <2>1, <3>3, <3>5, <3>6 DEF AskedInv, Types, viewvars
    <3>8. \A d \in Cmds \ {c} : Kept(d)
      BY <2>1, <3>5, <3>6 DEF Kept, AskedInv, Types, ParamsInv, Has, Is, viewvars
    <3>9. params'[m_params[c]] = q
      BY <2>1, <3>5 DEF AskedInv, Types
    <3>10. QueryOK(c)'
      BY <2>1, <3>6, <3>9 DEF QueryOK
    <3>11. (UnbornOK(c) /\ ViewOK(c) /\ KvOK(c))'
      BY <2>1, ClassNames DEF UnbornOK, ViewOK, KvOK, Is, IsKv
    <3>12. QED
      BY <1>1, <3>7, <3>8, <3>10, <3>11
  <2>4. QED
    BY <1>14, <2>2, <2>3 DEF SetParam
<1>15. ASSUME NEW c \in Cmds, NEW value \in {{"adhoc"}, {}}, Adhoc(c, value)
       PROVE  AskedInv'
  <2>1. /\ Is(c, "query") /\ UNCHANGED <<life, class, key, viewvars, queryvars, caveats>>
        /\ field' = [field EXCEPT ![c] = value]
        /\ asked' = [asked EXCEPT ![c].what = value]
    BY <1>15 DEF Adhoc
  <2>2. value \in What
    BY DEF What, Words
  <2>3. /\ asked' \in [Cmds -> [what : What, args : Seq(Item)]]
        /\ asked'[c] = [what |-> value, args |-> asked[c].args]
        /\ \A d \in Cmds \ {c} : asked'[d] = asked[d]
    BY <2>1, <2>2, AskWhat DEF AskedInv
  <2>4. Types'
    BY <2>1, <2>2, <2>3 DEF AskedInv, Types, viewvars, queryvars
  <2>5. \A d \in Cmds \ {c} : Kept(d)
    BY <2>1, <2>3 DEF Kept, AskedInv, Types, viewvars, queryvars
  <2>6. field'[c] = value
    BY <2>1 DEF AskedInv, Types
  <2>7. asked[c].args = params[m_params[c]]
    <3>1. asked[c] = [what |-> field[c], args |-> params[m_params[c]]]
      BY <2>1 DEF AskedInv, QueryOK
    <3>2. QED
      BY <3>1
  <2>8. QueryOK(c)'
    BY <2>1, <2>3, <2>6, <2>7 DEF QueryOK, queryvars
  <2>9. (UnbornOK(c) /\ ViewOK(c) /\ KvOK(c))'
    BY <2>1, ClassNames DEF UnbornOK, ViewOK, KvOK, Is, IsKv
  <2>10. QED
    BY <1>1, <2>4, <2>5, <2>8, <2>9
<1>16. ASSUME NEW c \in Cmds, Destroy(c)
       PROVE  AskedInv'
  <2>1. Types'
    BY <1>16 DEF Destroy, AskedInv, Types, viewvars
  <2>2. \A d \in Cmds : Kept(d)
    BY <1>16 DEF Destroy, Kept, AskedInv, Types, ParamsInv, viewvars
  <2>3. QED
    BY <1>2, <2>1, <2>2
<1>17. CASE AllDone \/ UNCHANGED vars
  <2>1. Types' /\ \A d \in Cmds : Kept(d)
    BY <1>17 DEF AllDone, vars, Kept, AskedInv, Types, viewvars, queryvars
  <2>2. QED
    BY <1>2, <2>1
<1>18. QED
  BY <1>3, <1>4, <1>5, <1>6, <1>8, <1>9, <1>10, <1>11, <1>12, <1>13, <1>14, <1>15, <1>16, <1>17
     DEF Next

LEMMA AskedSent == ParamsInv /\ AskedInv => SentAsSet
<1> SUFFICES ASSUME ParamsInv, AskedInv,
                    NEW c \in Cmds, life[c] = "live", caveats[c] \cap Departures = {}
             PROVE  asked[c] = [what |-> Effect(c), args |-> ArgsRead(c)]
  BY DEF SentAsSet, Sent
<1> SUFFICES asked[c].what = Effect(c) /\ asked[c].args = ArgsRead(c)
  <2>1. asked[c] \in [what : What, args : Seq(Item)]
    BY DEF AskedInv, Types
  <2>2. asked[c] = [what |-> asked[c].what, args |-> asked[c].args]
    BY <2>1
  <2>3. QED
    BY <2>2
<1>1. CASE class[c] = "view"
  <2>1. Is(c, "view") /\ ViewOK(c) /\ StringOK(c) /\ c # "none"
    BY <1>1, CommandsAssumption DEF Is, AskedInv, ViewOK
  <2>2. "reduce" \notin caveats[c] /\ "joined" \notin caveats[c] /\ "copied" \notin caveats[c]
    BY DEF Departures
  <2>3. asked[c].args = Names(m_options[c]) /\ \A i \in 1 .. Len(m_options[c]) - 1 : m_options[c][i].sep
    BY <2>1, <2>2 DEF StringOK
  <2>4. Names(<<>>) = <<>>
    BY DEF Names
  <2>5. OptionsRead(c) = Names(m_options[c])
    <3>1. CASE optstr[c] = "none"
      BY <2>1, <2>4, <3>1 DEF ViewOK, OptionsRead
    <3>2. CASE optstr[c] = c
      BY <2>1, <2>3, <3>2 DEF ViewOK, OptionsRead
    <3>3. QED
      BY <2>1, <2>2, <3>1, <3>2 DEF ViewOK
  <2>6. Effect(c) = field[c] /\ ArgsRead(c) = OptionsRead(c)
    BY <1>1, ClassNames DEF Effect, ArgsRead
  <2>7. QED
    BY <2>1, <2>3, <2>5, <2>6 DEF ViewOK
<1>2. CASE class[c] = "query"
  <2>1. asked[c] = [what |-> field[c], args |-> params[m_params[c]]] /\ m_params[c] \in owned
    BY <1>2 DEF AskedInv, QueryOK, ParamsInv, Is
  <2>2. Effect(c) = field[c] /\ ArgsRead(c) = params[m_params[c]]
    BY <1>2, <2>1, ClassNames DEF Effect, ArgsRead
  <2>3. QED
    BY <2>1, <2>2
<1>3. CASE class[c] \notin {"view", "query"}
  <2>1. IsKv(c)
    BY <1>3 DEF ParamsInv, IsKv
  <2>2. QED
    BY <1>3, <2>1 DEF AskedInv, KvOK, ArgsRead
<1>4. QED
  BY <1>1, <1>2, <1>3

(* Whatever commands are filled in, copied, moved and destroyed, and however *)
(* other commands depart from it, one that is issued is what was asked for,  *)
(* unless it was itself put to one of the uses in Departures.                *)
THEOREM SentCorrect == Spec => []SentAsSet
<1>1. ParamsInv /\ AskedInv /\ [Next]_vars => ParamsInv' /\ AskedInv'
  BY ParamsStep, AskedStep
<1>2. QED
  BY ParamsInit, AskedInit, <1>1, AskedSent, PTL DEF Spec

=============================================================================
