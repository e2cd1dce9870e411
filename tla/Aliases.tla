------------------------------ MODULE Aliases ------------------------------
(***************************************************************************)
(* The alias file.  Save and Delete read it, change the copy and write the *)
(* copy beside it, moving that file into place; nothing locks the file, so *)
(* two changes, of one server or of two, can run at the same time and      *)
(* share the ".tmp" file.  A server can die between any two steps.         *)
(***************************************************************************)
EXTENDS Naturals

CONSTANTS
  Writer,      \* calls of Save or Delete
  Alias,       \* keys, as Key normalises them, none of them Reserved
  PersonId,    \* who an alias may stand for
  Nobody,      \* the id of an alias that is not saved
  Torn,        \* contents that do not parse
  Missing,     \* no file
  MaxChanges   \* bound: changes begun

Saved == [Alias -> PersonId \cup {Nobody}]
Idle  == [kind |-> "none", alias |-> Nobody, id |-> Nobody, replace |-> FALSE]

ASSUME AliasNames == /\ Torn \notin Saved /\ Missing \notin Saved /\ Torn # Missing
                     /\ Nobody \notin PersonId

VARIABLES
  file,     \* the alias file
  tmp,      \* the file beside it
  step,     \* per change: "idle", "open", "fill", "rename"
  job,      \* per change: what it does
  held,     \* per change: the copy it writes
  handle,   \* per change: the file its open handle writes to
  told,     \* the aliases as the changes that reported success left them
  overlap,  \* two changes were under way together
  changes

aliasVars == <<file, tmp, step, job, held, handle, told, overlap, changes>>

NoAlias == [a \in Alias |-> Nobody]

AliasType ==
  /\ file \in Saved \cup {Torn, Missing}
  /\ tmp \in Saved \cup {Torn, Missing}
  /\ step \in [Writer -> {"idle", "open", "fill", "rename"}]
  /\ job \in [Writer -> [kind : {"none", "save", "delete"}, alias : Alias \cup {Nobody},
                         id : PersonId \cup {Nobody}, replace : BOOLEAN]]
  /\ held \in [Writer -> Saved]
  /\ handle \in [Writer -> {"none", "tmp", "file", "gone"}]
  /\ told \in Saved
  /\ overlap \in BOOLEAN
  /\ changes \in Nat

AliasInit ==
  /\ file = Missing /\ tmp = Missing
  /\ step = [c \in Writer |-> "idle"]
  /\ job = [c \in Writer |-> Idle]
  /\ held = [c \in Writer |-> NoAlias]
  /\ handle = [c \in Writer |-> "none"]
  /\ told = NoAlias /\ overlap = FALSE /\ changes = 0

(* Load: a missing or damaged file reads as no aliases.                    *)
Load(f) == IF f \in {Torn, Missing} THEN NoAlias ELSE f

Busy(c) == step[c] # "idle"

(* A change starts: it has loaded the file and made its own copy.  A       *)
(* refusal and an unknown alias end it before it writes.                   *)
Prepare(c, j, copy) ==
  /\ step[c] = "idle" /\ changes < MaxChanges
  /\ changes' = changes + 1
  /\ step' = [step EXCEPT ![c] = "open"]
  /\ job' = [job EXCEPT ![c] = j]
  /\ held' = [held EXCEPT ![c] = copy]
  /\ overlap' = (overlap \/ \E d \in Writer : Busy(d))
  /\ UNCHANGED <<file, tmp, handle, told>>

NeverRefuses(a, p, replace) == FALSE

Repoints(a, p, replace) == Load(file)[a] \notin {Nobody, p} /\ ~replace

SaveAlias(c, a, p, replace) ==
  /\ ~Repoints(a, p, replace)
  /\ Prepare(c, [kind |-> "save", alias |-> a, id |-> p, replace |-> replace],
             [Load(file) EXCEPT ![a] = p])

DeleteAlias(c, a) ==
  /\ Load(file)[a] # Nobody
  /\ Prepare(c, [kind |-> "delete", alias |-> a, id |-> Nobody, replace |-> FALSE],
             [Load(file) EXCEPT ![a] = Nobody])

(* write: os.WriteFile opens the temporary file, emptying it ...           *)
OpenWithoutEmptying(c) ==
  /\ step[c] = "open"
  /\ tmp' = IF tmp = Missing THEN Torn ELSE tmp
  /\ handle' = [handle EXCEPT ![c] = "tmp"]
  /\ step' = [step EXCEPT ![c] = "fill"]
  /\ UNCHANGED <<file, job, held, told, overlap, changes>>

OpenTmp(c) ==
  /\ step[c] = "open"
  /\ tmp' = Torn
  /\ handle' = [handle EXCEPT ![c] = "tmp"]
  /\ step' = [step EXCEPT ![c] = "fill"]
  /\ UNCHANGED <<file, job, held, told, overlap, changes>>

(* ... and writes through the handle, wherever the file is by then.  Over  *)
(* the bytes of another writer the result may be neither's.                *)
Written(old, new) == IF old = Torn THEN {new} ELSE {new, Torn}

FillTmp(c) ==
  /\ step[c] = "fill"
  /\ tmp' \in IF handle[c] = "tmp" THEN Written(tmp, held[c]) ELSE {tmp}
  /\ file' \in IF handle[c] = "file" THEN Written(file, held[c]) ELSE {file}
  /\ handle' = [handle EXCEPT ![c] = "none"]
  /\ step' = [step EXCEPT ![c] = "rename"]
  /\ UNCHANGED <<job, held, told, overlap, changes>>

Ended(c) ==
  /\ step' = [step EXCEPT ![c] = "idle"]
  /\ job' = [job EXCEPT ![c] = Idle]
  /\ held' = [held EXCEPT ![c] = NoAlias]

Moved(h) == CASE h = "tmp" -> "file" [] h = "file" -> "gone" [] OTHER -> h

RenameTmp(c) ==
  /\ step[c] = "rename"
  /\ IF tmp = Missing
     THEN UNCHANGED <<file, tmp, handle, told>>
     ELSE /\ file' = tmp /\ tmp' = Missing
          /\ handle' = [d \in Writer |-> Moved(handle[d])]
          /\ told' = [told EXCEPT ![job[c].alias] = job[c].id]
  /\ Ended(c)
  /\ UNCHANGED <<overlap, changes>>

(* The process dies: the file keeps what had been written.                 *)
Die(c) ==
  /\ Busy(c)
  /\ handle' = [handle EXCEPT ![c] = "none"]
  /\ Ended(c)
  /\ UNCHANGED <<file, tmp, told, overlap, changes>>

AliasNext ==
  \E c \in Writer :
    \/ \E a \in Alias : DeleteAlias(c, a)
    \/ \E a \in Alias, p \in PersonId, replace \in BOOLEAN : SaveAlias(c, a, p, replace)
    \/ OpenTmp(c) \/ FillTmp(c) \/ RenameTmp(c) \/ Die(c)

AliasSpec == AliasInit /\ [][AliasNext]_aliasVars

----------------------------------------------------------------------------
(* As long as no two changes overlap, the file holds exactly the aliases   *)
(* the finished changes left, whatever died half way (write: "replaces the *)
(* file atomically").                                                      *)
SerialChangesKeep == ~overlap => Load(file) = told

(* As long as no two changes overlap, an alias that points at someone is   *)
(* pointed at someone else only by a change told to replace it (Save: "a   *)
(* silently redirected alias sends messages to the wrong person").         *)
NeverSilentlyRepointed ==
  [][\A a \in Alias :
       ~overlap /\ Load(file)[a] # Nobody /\ Load(file')[a] \notin {Nobody, Load(file)[a]}
         => \E c \in Writer : job[c].alias = a /\ job[c].replace]_aliasVars
=============================================================================
