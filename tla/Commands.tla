------------------------------ MODULE Commands ------------------------------
(***************************************************************************)
(* The command objects: Command and its subclasses (couchbase++.h),        *)
(* ViewCommand (views.h) and QueryCommand (query.h).  Each is filled in,   *)
(* perhaps copied or moved, and read by the C library when it is issued:   *)
(*   - a key/value command is a C structure with a pointer to the key,     *)
(*     which stays the application's;                                      *)
(*   - a ViewCommand is a C structure with a pointer into the string       *)
(*     m_options of the object, and the length it had;                     *)
(*   - a QueryCommand owns an lcb_N1QLPARAMS block of the library.         *)
(***************************************************************************)
EXTENDS Naturals, Sequences

CONSTANTS
  Cmds,     (* command objects; each lives once                             *)
  Methods,  (* the ViewCommand methods in use that add an option            *)
  Flags,    (* and those that set a flag                                    *)
  Raw,      (* strings given to ViewCommand::options()                      *)
  Values,   (* what is given to the methods of QueryCommand                 *)
  Params,   (* lcb_N1QLPARAMS blocks                                        *)
  Strings,  (* the application's keys                                       *)
  MaxArgs   (* bound on the options and parameters of a command             *)

(* LCB_CXX_DECLSCHED, by the OpInfo the class derives from.  "upsert_sized" *)
(* is the constructor of StoreCommand that takes lengths.  (Replace, append *)
(* and prepend are upsert and insert with another mode.)                    *)
Scheduler ==
  [get |-> "get", remove |-> "remove", counter |-> "counter", unlock |-> "unlock",
   touch |-> "store", upsert |-> "store", insert |-> "store", upsert_sized |-> "store"]

(* The key/value classes. *)
Classes == DOMAIN Scheduler

(* What the constructor leaves in `operation'. *)
Operation(k) == CASE k = "upsert" -> {"set"} [] k = "insert" -> {"add"} [] OTHER -> {}

(* What the class is for. *)
Purpose(k) ==
  CASE k \in {"upsert", "upsert_sized"} -> {"set"} [] k = "insert" -> {"add"} [] OTHER -> {k}

(* The name of the option a method adds.  (reduce() is views.h:64.) *)
OptionOf(method) == IF method = "reduce" THEN "descending" ELSE method

ASSUME CommandsAssumption ==
  /\ Methods \subseteq STRING /\ Raw \subseteq Seq([opt : STRING, sep : BOOLEAN])
  /\ \A s \in Raw : \A i \in 1 .. Len(s) - 1 : s[i].sep
  /\ "none" \notin Cmds \cup Params \cup Strings
  /\ MaxArgs \in Nat

VARIABLES
  life,       (* commands: "unborn", "live", "moved", "dead"                *)
  class,      (* their class: of Classes, "view", "query"                   *)
  field,      (* what is set of: operation, lock; cmdflags; m_adhoc         *)
  key,        (* key.contig: one of Strings, or "none"                      *)
  m_options,  (* a sequence of options, each followed by '&' or not         *)
  optstr,     (* the command whose m_options it points to, or "none"        *)
  noptstr,    (* and the length                                             *)
  m_params,   (* a block, or "none" for NULL                                *)
  params,     (* what each block contains                                   *)
  freed,      (* the blocks that were freed                                 *)
  owned,      (* the blocks that were allocated, and not freed              *)
  asked,      (* what the application asked the command for                 *)
  caveats     (* and how, as far as it matters for Departures               *)

viewvars   == <<m_options, optstr, noptstr>>
queryvars  == <<m_params, params, freed, owned>>
vars == <<life, class, field, key, viewvars, queryvars, asked, caveats>>

Init ==
  /\ life = [c \in Cmds |-> "unborn"]
  /\ class = [c \in Cmds |-> "none"]
  /\ field = [c \in Cmds |-> {}]
  /\ key = [c \in Cmds |-> "none"]
  /\ m_options = [c \in Cmds |-> <<>>]
  /\ optstr = [c \in Cmds |-> "none"]
  /\ noptstr = [c \in Cmds |-> 0]
  /\ m_params = [c \in Cmds |-> "none"]
  /\ params = [p \in Params |-> <<>>]
  /\ freed = {}
  /\ owned = {}
  /\ asked = [c \in Cmds |-> [what |-> {}, args |-> <<>>]]
  /\ caveats = [c \in Cmds |-> {}]

(* What is not carried out as asked: TouchCommand; the StoreCommand         *)
(* constructor with lengths, until mode() is called; reduce(); an option    *)
(* added to a raw string that did not end in '&' ("joined"); a copy of a    *)
(* ViewCommand, until it is given an option of its own ("copied").  A raw   *)
(* string makes a new start.                                                *)
Departures == {"touch", "upsert_sized", "reduce", "joined", "copied"}

(* The caveat of a raw string, which is none until something follows it.    *)
Ending(s) == IF s # <<>> /\ ~s[Len(s)].sep THEN {"open"} ELSE {}

Make(c, k, f) ==
  /\ life[c] = "unborn"
  /\ life' = [life EXCEPT ![c] = "live"]
  /\ class' = [class EXCEPT ![c] = k]
  /\ field' = [field EXCEPT ![c] = f]

Is(c, k) == life[c] = "live" /\ class[c] = k
IsKv(c)  == life[c] = "live" /\ class[c] \in Classes

-----------------------------------------------------------------------------
(* Key/value commands. *)

(* The constructors: all but those of CounterCommand and the one with       *)
(* lengths may be given a key or none.                                      *)
NewCommand(c, k, s) ==
  /\ k = "counter" => s = "none"
  /\ k = "upsert_sized" => s # "none"
  /\ Make(c, k, Operation(k))
  /\ key' = [key EXCEPT ![c] = s]
  /\ asked' = [asked EXCEPT ![c] = [what |-> Purpose(k), args |-> <<s>>]]
  /\ caveats' = [caveats EXCEPT ![c] = {k} \cap Departures]
  /\ UNCHANGED <<viewvars, queryvars>>

SetKey(c, s) ==
  /\ IsKv(c)
  /\ key' = [key EXCEPT ![c] = s]
  /\ asked' = [asked EXCEPT ![c].args = <<s>>]
  /\ UNCHANGED <<life, class, field, viewvars, queryvars, caveats>>

(* StoreCommand::mode *)
SetMode(c, mode) ==
  /\ IsKv(c) /\ Scheduler[class[c]] = "store" /\ class[c] # "touch"
  /\ field' = [field EXCEPT ![c] = {mode}]
  /\ asked' = [asked EXCEPT ![c].what = {mode}]
  /\ caveats' = [caveats EXCEPT ![c] = {}]
  /\ UNCHANGED <<life, class, key, viewvars, queryvars>>

(* GetCommand::locktime *)
Locktime(c) ==
  /\ Is(c, "get")
  /\ field' = [field EXCEPT ![c] = {"lock"}]
  /\ asked' = [asked EXCEPT ![c].what = {"get", "lock"}]
  /\ UNCHANGED <<life, class, key, viewvars, queryvars, caveats>>

-----------------------------------------------------------------------------
(* ViewCommand. *)

NewViewCommand(c) ==
  /\ Make(c, "view", {})
  /\ asked' = [asked EXCEPT ![c] = [what |-> {}, args |-> <<>>]]
  /\ UNCHANGED <<key, viewvars, queryvars, caveats>>

(* Mutant: the C structure is told where the string is when it is first     *)
(* set, and then only how long it is.                                       *)
SetOptionsOnce(c, s) ==
  /\ m_options' = [m_options EXCEPT ![c] = s]
  /\ optstr' = [optstr EXCEPT ![c] = IF @ = "none" THEN c ELSE @]
  /\ noptstr' = [noptstr EXCEPT ![c] = Len(s)]

(* The string of c becomes s, and the C structure is told. *)
SetOptions(c, s) ==
  /\ m_options' = [m_options EXCEPT ![c] = s]
  /\ optstr' = [optstr EXCEPT ![c] = c]
  /\ noptstr' = [noptstr EXCEPT ![c] = Len(s)]

Names(s) == [i \in DOMAIN s |-> s[i].opt]

(* add_option, and what is made of it. *)
AddOption(c, method) ==
  /\ Is(c, "view") /\ Len(m_options[c]) < MaxArgs
  /\ SetOptions(c, Append(m_options[c], [opt |-> OptionOf(method), sep |-> TRUE]))
  /\ asked' = [asked EXCEPT ![c].args = Append(@, method)]
  /\ caveats' = [caveats EXCEPT ![c] = (@ \ {"copied"}) \cup ({method} \cap {"reduce"})
                                        \cup (IF "open" \in @ THEN {"joined"} ELSE {})]
  /\ UNCHANGED <<life, class, field, key, queryvars>>

RawOptions(c, s) ==
  /\ Is(c, "view")
  /\ SetOptions(c, s)
  /\ asked' = [asked EXCEPT ![c].args = Names(s)]
  /\ caveats' = [caveats EXCEPT ![c] = Ending(s)]
  /\ UNCHANGED <<life, class, field, key, queryvars>>

(* add_cmd_flag *)
SetFlag(c, f, enabled) ==
  /\ Is(c, "view")
  /\ field' = [field EXCEPT ![c] = IF enabled THEN @ \cup {f} ELSE @ \ {f}]
  /\ asked' = [asked EXCEPT ![c].what = IF enabled THEN @ \cup {f} ELSE @ \ {f}]
  /\ UNCHANGED <<life, class, key, viewvars, queryvars, caveats>>

-----------------------------------------------------------------------------
(* Copies and moves. *)

(* The compiler's copy constructor, which ViewCommand and the key/value     *)
(* commands have: the pointers of the C structure are those of the source.  *)
CopyCommand(c, other) ==
  /\ IsKv(other) \/ Is(other, "view")
  /\ Make(c, class[other], field[other])
  /\ key' = [key EXCEPT ![c] = key[other]]
  /\ m_options' = [m_options EXCEPT ![c] = m_options[other]]
  /\ optstr' = [optstr EXCEPT ![c] = optstr[other]]
  /\ noptstr' = [noptstr EXCEPT ![c] = noptstr[other]]
  /\ asked' = [asked EXCEPT ![c] = asked[other]]
  /\ caveats' = [caveats EXCEPT ![c] =
       caveats[other] \cup (IF class[other] = "view" THEN {"copied"} ELSE {})]
  /\ UNCHANGED queryvars

(* QueryCommand::QueryCommand.  (A new block: they are not used twice.) *)
NewQueryCommand(c, p, v) ==
  /\ p \notin owned \cup freed
  /\ Make(c, "query", {"adhoc"})
  /\ m_params' = [m_params EXCEPT ![c] = p]
  /\ params' = [params EXCEPT ![p] = <<v>>]
  /\ owned' = owned \cup {p}
  /\ asked' = [asked EXCEPT ![c] = [what |-> {"adhoc"}, args |-> <<v>>]]
  /\ UNCHANGED <<key, viewvars, freed, caveats>>

(* Mutant: the source keeps the block. *)
MoveQueryKeeps(c, other) ==
  /\ Is(other, "query") /\ life[c] = "unborn"
  /\ life' = [life EXCEPT ![c] = "live", ![other] = "moved"]
  /\ class' = [class EXCEPT ![c] = "query"]
  /\ field' = [field EXCEPT ![c] = field[other]]
  /\ m_params' = [m_params EXCEPT ![c] = m_params[other]]
  /\ asked' = [asked EXCEPT ![c] = asked[other]]
  /\ UNCHANGED <<key, viewvars, params, freed, owned, caveats>>

(* QueryCommand(QueryCommand&&).  The application only destroys the source. *)
MoveQuery(c, other) ==
  /\ Is(other, "query") /\ life[c] = "unborn"
  /\ life' = [life EXCEPT ![c] = "live", ![other] = "moved"]
  /\ class' = [class EXCEPT ![c] = "query"]
  /\ field' = [field EXCEPT ![c] = field[other]]
  /\ m_params' = [m_params EXCEPT ![c] = m_params[other], ![other] = "none"]
  /\ asked' = [asked EXCEPT ![c] = asked[other]]
  /\ UNCHANGED <<key, viewvars, params, freed, owned, caveats>>

(* raw_option, named_param, pos_param: the library may refuse the value. *)
SetParam(c, v) ==
  /\ Is(c, "query") /\ Len(params[m_params[c]]) < MaxArgs
  /\ \/ /\ params' = [params EXCEPT ![m_params[c]] = Append(@, v)]
        /\ asked' = [asked EXCEPT ![c].args = Append(@, v)]
     \/ UNCHANGED <<params, asked>>
  /\ UNCHANGED <<life, class, field, key, viewvars, m_params, freed, owned, caveats>>

Adhoc(c, value) ==
  /\ Is(c, "query")
  /\ field' = [field EXCEPT ![c] = value]
  /\ asked' = [asked EXCEPT ![c].what = value]
  /\ UNCHANGED <<life, class, key, viewvars, queryvars, caveats>>

(* The destructors; ~QueryCommand frees its block. *)
Destroy(c) ==
  /\ life[c] \in {"live", "moved"}
  /\ life' = [life EXCEPT ![c] = "dead"]
  /\ freed' = IF m_params[c] = "none" THEN freed ELSE freed \cup {m_params[c]}
  /\ owned' = owned \ {m_params[c]}
  /\ UNCHANGED <<class, field, key, viewvars, m_params, params, asked, caveats>>

(* Everything is gone. *)
AllDone ==
  /\ \A c \in Cmds : life[c] = "dead"
  /\ UNCHANGED vars

Next ==
  \/ \E c \in Cmds :
       \/ \E k \in Classes, s \in Strings \cup {"none"} : NewCommand(c, k, s)
       \/ \E s \in Strings : SetKey(c, s)
       \/ \E mode \in {"set", "add"} : SetMode(c, mode)
       \/ Locktime(c)
       \/ NewViewCommand(c)
       \/ \E method \in Methods : AddOption(c, method)
       \/ \E s \in Raw : RawOptions(c, s)
       \/ \E f \in Flags, enabled \in BOOLEAN : SetFlag(c, f, enabled)
       \/ \E other \in Cmds : CopyCommand(c, other) \/ MoveQuery(c, other)
       \/ \E p \in Params, v \in Values : NewQueryCommand(c, p, v)
       \/ \E v \in Values : SetParam(c, v)
       \/ \E value \in {{"adhoc"}, {}} : Adhoc(c, value)
       \/ Destroy(c)
  \/ AllDone

Spec == Init /\ [][Next]_vars

-----------------------------------------------------------------------------
(* Properties. *)

(* What the library does when it is given c: a store with the operation of  *)
(* the command, or what the scheduler is for; a view or a query with flags. *)
Effect(c) ==
  IF class[c] \in Classes /\ Scheduler[class[c]] # "store"
  THEN {Scheduler[class[c]]} \cup field[c]
  ELSE field[c]

(* What it reads where optstr points: options that are not separated, and   *)
(* memory that is not or no longer as long as noptstr, are no options.      *)
OptionsRead(c) ==
  IF optstr[c] = "none" THEN <<>>
  ELSE LET s == m_options[optstr[c]] IN
       IF /\ life[optstr[c]] = "live" /\ Len(s) = noptstr[c]
          /\ \A i \in 1 .. Len(s) - 1 : s[i].sep
       THEN Names(s)
       ELSE <<"garbage">>

(* The key, the options, or the statement and the parameters it reads.      *)
ArgsRead(c) ==
  CASE class[c] = "view"  -> OptionsRead(c)
    [] class[c] = "query" -> IF m_params[c] \in owned THEN params[m_params[c]] ELSE <<"garbage">>
    [] OTHER              -> <<key[c]>>

Sent(c) == asked[c] = [what |-> Effect(c), args |-> ArgsRead(c)]

(* Whenever a command is issued, it is what the application asked for, the  *)
(* operation and the key, the flags and the options of a view, the          *)
(* statement and the parameters of a query, whatever was copied, moved,     *)
(* changed and destroyed before: unless what was done to this very command  *)
(* is one of the five Departures.  What is done to others does not matter:  *)
(* a copy of a ViewCommand is itself again with the first option it is      *)
(* given, and a raw string replaces one that was spoilt.                    *)
SentAsSet ==
  \A c \in Cmds : life[c] = "live" /\ caveats[c] \cap Departures = {} => Sent(c)

(* The same of every command.  The headers say what each class and method   *)
(* is for (couchbase++.h:125-233, views.h:50-71) and make no exceptions.    *)
SentAsAsked == \A c \in Cmds : life[c] = "live" => Sent(c)

(* Every block of parameters is freed by the one command that has it, and   *)
(* none is lost or freed twice.                                             *)
ParamsOwnedOnce ==
  /\ \A p \in owned : \E c \in Cmds : life[c] = "live" /\ m_params[c] = p
  /\ \A c \in Cmds : life[c] \in {"live", "moved"} /\ m_params[c] # "none" => m_params[c] \notin freed
  /\ \A c, d \in Cmds :
       /\ life[c] \in {"live", "moved"} /\ life[d] \in {"live", "moved"}
       /\ m_params[c] = m_params[d] /\ m_params[c] # "none"
       => c = d

(* A parameter block passes from command to command with the moves and is   *)
(* freed by the destructor of the last, not by that of one it moved from.   *)
Having(p) == {c \in Cmds : life[c] \in {"live", "moved"} /\ m_params[c] = p}

Moving == INSTANCE Custody WITH
  Resources <- Params, users <- [p \in Params |-> Having(p)], released <- freed

ParamsPassedOn == Moving!Spec

=============================================================================
