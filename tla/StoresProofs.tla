---------------------------- MODULE StoresProofs ----------------------------
(***************************************************************************)
(* What holds of the stores a call reads, changes and writes back whole,   *)
(* for any number of callers, keys and values: the alias file and the      *)
(* chat folders, as long as no two changes meet, and the resume map, as    *)
(* long as no two registrations do.                                        *)
(***************************************************************************)
EXTENDS Aliases, Folders, ResumeMap, FiniteSetTheorems, SequenceTheorems, TLAPS

----------------------------------------------------------------------------
(* The alias file: the one change under way knows the file, and the        *)
(* temporary file is its own.                                              *)
----------------------------------------------------------------------------
(* The change under way, if any, is alone; its copy is the file with its   *)
(* one alias changed, and it points that alias elsewhere only if it may.   *)
Alone == \A c, d \in Writer : Busy(c) /\ Busy(d) => c = d

OwnCopy(c) ==
  Busy(c) => /\ job[c].alias \in Alias
             /\ held[c] = [told EXCEPT ![job[c].alias] = job[c].id]
             /\ \/ told[job[c].alias] \in {Nobody, job[c].id}
                \/ job[c].id = Nobody
                \/ job[c].replace

OwnTmp(c) == /\ handle[c] = IF step[c] = "fill" THEN "tmp" ELSE "none"
             /\ step[c] = "fill" => tmp = Torn
             /\ step[c] = "rename" => tmp = held[c]

Serial == /\ Alone
          /\ Load(file) = told
          /\ \A c \in Writer : OwnCopy(c) /\ OwnTmp(c)

AliasInv == AliasType /\ (~overlap => Serial)

(* The values of a change are of the kinds the store keeps.                *)
LEMMA CopiesAreMaps ==
  /\ NoAlias \in Saved
  /\ \A m \in Saved, a \in Alias, p \in PersonId \cup {Nobody} : [m EXCEPT ![a] = p] \in Saved
  /\ \A f \in Saved \cup {Torn, Missing} : Load(f) \in Saved
BY DEF NoAlias, Saved, Load

(* A change that starts has a job and a copy of the right kinds.           *)
LEMMA PrepareTyped ==
  ASSUME AliasType, NEW c \in Writer, NEW copy \in Saved,
         NEW j \in [kind : {"none", "save", "delete"}, alias : Alias \cup {Nobody},
                    id : PersonId \cup {Nobody}, replace : BOOLEAN],
         Prepare(c, j, copy)
  PROVE  AliasType'
<1>1. file' \in Saved \cup {Torn, Missing} /\ tmp' \in Saved \cup {Torn, Missing}
      /\ handle' \in [Writer -> {"none", "tmp", "file", "gone"}] /\ told' \in Saved
  BY DEF AliasType, Prepare
<1>2. step' \in [Writer -> {"idle", "open", "fill", "rename"}] /\ held' \in [Writer -> Saved]
  BY DEF AliasType, Prepare
<1>3. job' \in [Writer -> [kind : {"none", "save", "delete"}, alias : Alias \cup {Nobody},
                           id : PersonId \cup {Nobody}, replace : BOOLEAN]]
  BY DEF AliasType, Prepare
<1>4. overlap' \in BOOLEAN
  BY Zenon DEF AliasType, Prepare
<1>5. changes' \in Nat
  BY DEF AliasType, Prepare
<1> QED BY <1>1, <1>2, <1>3, <1>4, <1>5 DEF AliasType

(* A change that ends leaves an idle writer.                               *)
LEMMA EndedTyped ==
  ASSUME AliasType, NEW c \in Writer, Ended(c)
  PROVE  /\ step' \in [Writer -> {"idle", "open", "fill", "rename"}]
         /\ job' \in [Writer -> [kind : {"none", "save", "delete"}, alias : Alias \cup {Nobody},
                                 id : PersonId \cup {Nobody}, replace : BOOLEAN]]
         /\ held' \in [Writer -> Saved]
<1>1. Idle \in [kind : {"none", "save", "delete"}, alias : Alias \cup {Nobody},
                id : PersonId \cup {Nobody}, replace : BOOLEAN]
  BY DEF Idle
<1> QED BY <1>1, CopiesAreMaps DEF AliasType, Ended

(* Every step keeps the types.                                             *)
LEMMA AliasTypeStep ==
  ASSUME AliasType, AliasNext
  PROVE  AliasType'
<1>1. ASSUME NEW c \in Writer, NEW a \in Alias, DeleteAlias(c, a) PROVE AliasType'
  <2> DEFINE j == [kind |-> "delete", alias |-> a, id |-> Nobody, replace |-> FALSE]
  <2>1. [Load(file) EXCEPT ![a] = Nobody] \in Saved
    BY CopiesAreMaps DEF AliasType
  <2>2. j \in [kind : {"none", "save", "delete"}, alias : Alias \cup {Nobody},
               id : PersonId \cup {Nobody}, replace : BOOLEAN]
    OBVIOUS
  <2>3. Prepare(c, j, [Load(file) EXCEPT ![a] = Nobody])
    BY <1>1 DEF DeleteAlias
  <2> HIDE DEF j
  <2> QED BY <2>1, <2>2, <2>3, PrepareTyped
<1>2. ASSUME NEW c \in Writer, NEW a \in Alias, NEW p \in PersonId, NEW replace \in BOOLEAN,
             SaveAlias(c, a, p, replace)
      PROVE  AliasType'
  <2> DEFINE j == [kind |-> "save", alias |-> a, id |-> p, replace |-> replace]
  <2>1. [Load(file) EXCEPT ![a] = p] \in Saved
    BY CopiesAreMaps DEF AliasType
  <2>2. j \in [kind : {"none", "save", "delete"}, alias : Alias \cup {Nobody},
               id : PersonId \cup {Nobody}, replace : BOOLEAN]
    OBVIOUS
  <2>3. Prepare(c, j, [Load(file) EXCEPT ![a] = p])
    BY <1>2 DEF SaveAlias
  <2> HIDE DEF j
  <2> QED BY <2>1, <2>2, <2>3, PrepareTyped
<1>3. ASSUME NEW c \in Writer, OpenTmp(c) PROVE AliasType'
  BY <1>3 DEF OpenTmp, AliasType
<1>4. ASSUME NEW c \in Writer, FillTmp(c) PROVE AliasType'
  <2>1. held[c] \in Saved
    BY DEF AliasType
  <2>2. file' \in Saved \cup {Torn, Missing} /\ tmp' \in Saved \cup {Torn, Missing}
    BY <1>4, <2>1 DEF FillTmp, Written, AliasType
  <2> QED BY <1>4, <2>2 DEF FillTmp, AliasType
<1>5. ASSUME NEW c \in Writer, RenameTmp(c) PROVE AliasType'
  <2>1. \A h \in {"none", "tmp", "file", "gone"} : Moved(h) \in {"none", "tmp", "file", "gone"}
    BY DEF Moved
  <2>2. handle' \in [Writer -> {"none", "tmp", "file", "gone"}]
    BY <1>5, <2>1 DEF RenameTmp, AliasType
  <2>3. job[c].id \in PersonId \cup {Nobody}
    BY DEF AliasType
  <2>4. told' \in Saved
    BY <1>5, <2>3 DEF RenameTmp, AliasType, Saved
  <2>5. file' \in Saved \cup {Torn, Missing} /\ tmp' \in Saved \cup {Torn, Missing}
        /\ overlap' \in BOOLEAN /\ changes' \in Nat
    BY <1>5 DEF RenameTmp, AliasType
  <2>6. Ended(c)
    BY <1>5 DEF RenameTmp
  <2> QED BY <2>2, <2>4, <2>5, <2>6, EndedTyped DEF AliasType
<1>6. ASSUME NEW c \in Writer, Die(c) PROVE AliasType'
  <2>1. Ended(c)
    BY <1>6 DEF Die
  <2> QED BY <1>6, <2>1, EndedTyped DEF Die, AliasType
<1> QED BY <1>1, <1>2, <1>3, <1>4, <1>5, <1>6 DEF AliasNext

----------------------------------------------------------------------------
(* A change that starts beside no other knows the file it starts from.     *)
LEMMA PrepareSerial ==
  ASSUME AliasInv, NEW c \in Writer, NEW a \in Alias, NEW p \in PersonId \cup {Nobody}, NEW j,
         j.alias = a, j.id = p,
         Prepare(c, j, [Load(file) EXCEPT ![a] = p]),
         p = Nobody \/ Load(file)[a] \in {Nobody, p} \/ j.replace,
         ~overlap'
  PROVE  Serial'
<1>1. Serial /\ \A d \in Writer : ~Busy(d)
  BY Zenon DEF AliasInv, Prepare
<1>2. UNCHANGED <<file, tmp, handle, told>> /\ step' = [step EXCEPT ![c] = "open"]
      /\ job' = [job EXCEPT ![c] = j] /\ held' = [held EXCEPT ![c] = [Load(file) EXCEPT ![a] = p]]
  BY DEF Prepare
<1>3. Alone'
  BY <1>1, <1>2 DEF Alone, Busy, AliasInv, AliasType
<1>4. Load(file)' = told'
  BY <1>1, <1>2 DEF Serial, Load
<1>5. ASSUME NEW d \in Writer PROVE OwnCopy(d)' /\ OwnTmp(d)'
  <2>1. CASE d = c
    <3>1. /\ step'[c] = "open" /\ job'[c] = j /\ handle'[c] = handle[c]
          /\ held'[c] = [told EXCEPT ![a] = p]
      BY <1>1, <1>2 DEF Serial, AliasInv, AliasType
    <3>2. handle[c] = "none"
      BY <1>1 DEF Serial, OwnTmp, Busy
    <3>3. told[a] = Load(file)[a]
      BY <1>1 DEF Serial
    <3> QED BY <1>2, <2>1, <3>1, <3>2, <3>3 DEF OwnCopy, OwnTmp
  <2>2. CASE d # c
    <3>1. step'[d] = "idle" /\ handle'[d] = "none"
      BY <1>1, <1>2, <2>2 DEF Serial, OwnTmp, Busy, AliasInv, AliasType
    <3> QED BY <3>1 DEF OwnCopy, OwnTmp, Busy
  <2> QED BY <2>1, <2>2
<1> QED BY <1>3, <1>4, <1>5 DEF Serial

(* A step of the one writer at work keeps it alone with its file.          *)
LEMMA WriteSerial ==
  ASSUME AliasInv, ~overlap, NEW c \in Writer,
         OpenTmp(c) \/ FillTmp(c) \/ RenameTmp(c) \/ Die(c)
  PROVE  Serial'
<1>1. Serial /\ Busy(c) /\ AliasType
  BY DEF AliasInv, OpenTmp, FillTmp, RenameTmp, Die, Busy
<1>2. ASSUME NEW d \in Writer, d # c PROVE step[d] = "idle" /\ handle[d] = "none"
  BY <1>1, <1>2 DEF Serial, Alone, Busy, OwnTmp
<1>3. /\ job[c].alias \in Alias
      /\ held[c] = [told EXCEPT ![job[c].alias] = job[c].id]
      /\ held[c] \in Saved /\ OwnTmp(c)
  BY <1>1 DEF Serial, OwnCopy, AliasType
<1>4. CASE OpenTmp(c)
  <2>1. step'[c] = "fill" /\ handle'[c] = "tmp" /\ tmp' = Torn
    BY <1>1, <1>4 DEF OpenTmp, AliasType
  <2>2. ASSUME NEW d \in Writer, d # c PROVE step'[d] = "idle" /\ handle'[d] = "none"
    BY <1>1, <1>2, <1>4, <2>2 DEF OpenTmp, AliasType
  <2>3. UNCHANGED <<file, job, held, told>>
    BY <1>4 DEF OpenTmp
  <2> QED BY <1>1, <2>1, <2>2, <2>3 DEF Serial, Alone, Busy, OwnCopy, OwnTmp, Load
<1>5. CASE FillTmp(c)
  <2>1. handle[c] = "tmp" /\ tmp = Torn
    BY <1>3, <1>5 DEF FillTmp, OwnTmp
  <2>2. tmp' = held[c] /\ file' = file
    BY <1>5, <2>1 DEF FillTmp, Written
  <2>3. step'[c] = "rename" /\ handle'[c] = "none"
    BY <1>1, <1>5 DEF FillTmp, AliasType
  <2>4. ASSUME NEW d \in Writer, d # c PROVE step'[d] = "idle" /\ handle'[d] = "none"
    BY <1>1, <1>2, <1>5, <2>4 DEF FillTmp, AliasType
  <2>5. UNCHANGED <<job, held, told>>
    BY <1>5 DEF FillTmp
  <2> QED BY <1>1, <2>2, <2>3, <2>4, <2>5 DEF Serial, Alone, Busy, OwnCopy, OwnTmp, Load
<1>6. CASE RenameTmp(c)
  <2>1. tmp = held[c] /\ tmp # Missing /\ tmp # Torn
    BY <1>3, <1>6, AliasNames DEF RenameTmp, OwnTmp
  <2>2. file' = held[c] /\ told' = held[c]
    BY <1>3, <1>6, <2>1 DEF RenameTmp
  <2>3. Load(file)' = told'
    BY <2>1, <2>2 DEF Load
  <2>4. ASSUME NEW d \in Writer PROVE step'[d] = "idle" /\ handle'[d] = "none"
    <3>1. step'[d] = "idle"
      BY <1>1, <1>2, <1>6 DEF RenameTmp, Ended, AliasType
    <3>2. handle[d] = "none"
      BY <1>2, <1>3, <1>6 DEF RenameTmp, OwnTmp
    <3>3. handle'[d] = Moved(handle[d])
      BY <1>6, <2>1 DEF RenameTmp
    <3> QED BY <3>1, <3>2, <3>3 DEF Moved
  <2> QED BY <2>3, <2>4 DEF Serial, Alone, Busy, OwnCopy, OwnTmp
<1>7. CASE Die(c)
  <2>1. ASSUME NEW d \in Writer PROVE step'[d] = "idle" /\ handle'[d] = "none"
    BY <1>1, <1>2, <1>7 DEF Die, Ended, AliasType
  <2>2. Load(file)' = told'
    BY <1>1, <1>7 DEF Die, Serial, Load
  <2> QED BY <2>1, <2>2 DEF Serial, Alone, Busy, OwnCopy, OwnTmp
<1> QED BY <1>4, <1>5, <1>6, <1>7

(* There is no file at first, and nobody writes one.                       *)
LEMMA AliasInvInit == AliasInit => AliasInv
<1> SUFFICES ASSUME AliasInit PROVE AliasInv
  OBVIOUS
<1>1. Idle \in [kind : {"none", "save", "delete"}, alias : Alias \cup {Nobody},
                id : PersonId \cup {Nobody}, replace : BOOLEAN]
  BY DEF Idle
<1>2. overlap \in BOOLEAN
  BY Zenon DEF AliasInit
<1>3. AliasType
  BY <1>1, <1>2, CopiesAreMaps DEF AliasInit, AliasType
<1>4. Load(file) = told
  BY DEF AliasInit, Load
<1>5. ASSUME NEW c \in Writer PROVE step[c] = "idle" /\ handle[c] = "none"
  BY DEF AliasInit
<1> QED BY <1>3, <1>4, <1>5 DEF AliasInv, Serial, Alone, Busy, OwnCopy, OwnTmp

(* Every step keeps the lone change in agreement with the file.            *)
LEMMA AliasInvStep == AliasInv /\ [AliasNext]_aliasVars => AliasInv'
<1> SUFFICES ASSUME AliasInv, [AliasNext]_aliasVars PROVE AliasInv'
  OBVIOUS
<1>1. CASE UNCHANGED aliasVars
  BY <1>1 DEF aliasVars, AliasInv, AliasType, Serial, Alone, Busy, OwnCopy, OwnTmp, Load
<1>2. CASE AliasNext
  <2>1. AliasType'
    BY <1>2, AliasTypeStep DEF AliasInv
  <2>2. ASSUME NEW c \in Writer, NEW a \in Alias, DeleteAlias(c, a), ~overlap' PROVE Serial'
    <3> DEFINE j == [kind |-> "delete", alias |-> a, id |-> Nobody, replace |-> FALSE]
    <3>1. j.alias = a /\ j.id = Nobody
      OBVIOUS
    <3>2. Prepare(c, j, [Load(file) EXCEPT ![a] = Nobody])
      BY <2>2 DEF DeleteAlias
    <3> HIDE DEF j
    <3> QED BY <2>2, <3>1, <3>2, PrepareSerial
  <2>3. ASSUME NEW c \in Writer, NEW a \in Alias, NEW p \in PersonId, NEW replace \in BOOLEAN,
               SaveAlias(c, a, p, replace), ~overlap'
        PROVE  Serial'
    <3> DEFINE j == [kind |-> "save", alias |-> a, id |-> p, replace |-> replace]
    <3>1. j.alias = a /\ j.id = p /\ j.replace = replace
      OBVIOUS
    <3>2. Prepare(c, j, [Load(file) EXCEPT ![a] = p]) /\ ~Repoints(a, p, replace)
      BY <2>3 DEF SaveAlias
    <3> HIDE DEF j
    <3>3. Load(file)[a] \in {Nobody, p} \/ j.replace
      BY <3>1, <3>2 DEF Repoints
    <3> QED BY <2>3, <3>1, <3>2, <3>3, PrepareSerial
  <2>4. ASSUME NEW c \in Writer, OpenTmp(c) \/ FillTmp(c) \/ RenameTmp(c) \/ Die(c), ~overlap'
        PROVE  Serial'
    <3>1. ~overlap
      BY <2>4 DEF OpenTmp, FillTmp, RenameTmp, Die
    <3> QED BY <2>4, <3>1, WriteSerial
  <2>5. ~overlap' => Serial'
    BY <1>2, <2>2, <2>3, <2>4 DEF AliasNext
  <2> QED BY <2>1, <2>5 DEF AliasInv
<1> QED BY <1>1, <1>2

(* Every reachable state of the alias store has its types.                 *)
THEOREM AliasTypeCorrect == AliasSpec => []AliasType
<1>1. AliasInv => AliasType
  BY DEF AliasInv
<1> QED BY <1>1, AliasInvInit, AliasInvStep, PTL DEF AliasSpec

(* While no two changes overlap the file holds what the finished ones left *)
(* in it, wherever a server died (Save, Delete, write).                    *)
THEOREM SerialChangesAreKept == AliasSpec => []SerialChangesKeep
<1>1. AliasInv => SerialChangesKeep
  BY DEF AliasInv, Serial, SerialChangesKeep
<1> QED BY <1>1, AliasInvInit, AliasInvStep, PTL DEF AliasSpec

(* While no two changes overlap only a change told to replace an alias     *)
(* points it at someone else (Save).                                       *)
THEOREM OnlyReplaceRepoints == AliasSpec => NeverSilentlyRepointed
<1> DEFINE Kept == \A a \in Alias :
              ~overlap /\ Load(file)[a] # Nobody /\ Load(file')[a] \notin {Nobody, Load(file)[a]}
                => \E c \in Writer : job[c].alias = a /\ job[c].replace
<1>1. AliasInv /\ [AliasNext]_aliasVars => [Kept]_aliasVars
  <2> SUFFICES ASSUME AliasInv, AliasNext, ~overlap, NEW a \in Alias, Load(file)[a] # Nobody,
                      Load(file')[a] \notin {Nobody, Load(file)[a]}
               PROVE  \E c \in Writer : job[c].alias = a /\ job[c].replace
    BY Zenon
  <2>1. Serial /\ file' # file
    BY DEF AliasInv
  <2>2. ASSUME NEW c \in Writer, FillTmp(c) PROVE FALSE
    <3>1. handle[c] = "tmp"
      BY <2>1, <2>2 DEF Serial, OwnTmp, FillTmp
    <3> QED BY <2>1, <2>2, <3>1 DEF FillTmp
  <2>3. PICK c \in Writer : RenameTmp(c)
    BY <2>1, <2>2 DEF AliasNext, DeleteAlias, SaveAlias, Prepare, OpenTmp, Die
  <2>4. /\ job[c].alias \in Alias /\ held[c] \in Saved
        /\ held[c] = [told EXCEPT ![job[c].alias] = job[c].id]
        /\ \/ told[job[c].alias] \in {Nobody, job[c].id}
           \/ job[c].id = Nobody
           \/ job[c].replace
    BY <2>1, <2>3 DEF Serial, OwnCopy, Busy, RenameTmp, AliasInv, AliasType
  <2>5. file' = held[c] /\ Load(held[c]) = held[c]
    BY <2>1, <2>3, <2>4, AliasNames DEF Serial, OwnTmp, RenameTmp, Load
  <2>6. Load(file) = told /\ told \in Saved
    BY <2>1 DEF Serial, AliasInv, AliasType
  <2>7. CASE job[c].alias = a
    BY <2>4, <2>5, <2>6, <2>7 DEF Saved
  <2>8. CASE job[c].alias # a
    BY <2>4, <2>5, <2>6, <2>8 DEF Saved
  <2> QED BY <2>7, <2>8
<1> QED BY <1>1, AliasInvInit, AliasInvStep, PTL DEF AliasSpec, NeverSilentlyRepointed

----------------------------------------------------------------------------
(* The chat folders: edits of different folders do not disturb each other. *)
----------------------------------------------------------------------------
Filters == {"create", "delete", "add_chat", "remove_chat"}

(* What an edit is about to write is what it asks of the folder as it is,  *)
(* and no other edit under way is about the same folder.                   *)
Fits(w) == w.kind \in Filters => w.write = Asked(w)

Apart == \A d, e \in Editor :
           d # e /\ edit[d].kind \in Filters /\ edit[e].kind \in Filters
             => edit[d].id # edit[e].id

Known(w) == w.kind \in {"add_chat", "remove_chat"} => w.id \in FolderId

FoldersAgree == folders = meant /\ Apart /\ \A e \in Editor : Fits(edit[e])

FoldersInv == /\ edit = [e \in Editor |-> edit[e]]
              /\ DOMAIN meant = FolderId
              /\ \A e \in Editor : edit[e] = NoEdit \/ edit[e].kind \in Filters \cup {"reorder"}
              /\ \A e \in Editor : Known(edit[e])
              /\ ~clashed => FoldersAgree

(* An edit that clashes with none is about a folder of its own.            *)
LEMMA NoClashNoOther ==
  ASSUME NEW w, w.kind \in Filters, ~Clash(w), NEW d \in Editor, edit[d].kind \in Filters
  PROVE  edit[d].id # w.id
<1>1. edit[d] # NoEdit
  BY DEF Filters, NoEdit
<1>2. "reorder" \notin {edit[d].kind, w.kind}
  BY DEF Filters
<1> QED BY <1>1, <1>2 DEF Clash

(* A decision that fits the folders as they are fits with the others.      *)
LEMMA DecideFits ==
  ASSUME FoldersInv, NEW e \in Editor, NEW w, NEW clash \in BOOLEAN, Decide(e, w, clash),
         w.kind \in Filters \cup {"reorder"}, Known(w),
         ~clashed => Fits(w)
  PROVE  FoldersInv'
<1>1. /\ edit[e] = NoEdit /\ edit' = [edit EXCEPT ![e] = w]
      /\ UNCHANGED <<folders, meant>>
  BY DEF Decide
<1>2. edit'[e] = w /\ \A d \in Editor : d # e => edit'[d] = edit[d]
  BY <1>1 DEF FoldersInv
<1>3. edit' = [d \in Editor |-> edit'[d]]
  BY <1>1 DEF FoldersInv
<1>4. DOMAIN meant' = FolderId /\ \A d \in Editor : Known(edit[d])'
  BY <1>1, <1>2 DEF FoldersInv, Known
<1>5. \A d \in Editor : edit'[d] = NoEdit \/ edit'[d].kind \in Filters \cup {"reorder"}
  BY <1>2 DEF FoldersInv
<1>6. ASSUME ~clashed' PROVE FoldersAgree'
  <2>1. ~clashed /\ ~Clash(w)
    BY <1>6, Zenon DEF Decide
  <2>2. FoldersAgree /\ Fits(w)
    BY <2>1 DEF FoldersInv
  <2>3. ASSUME NEW d \in Editor PROVE Fits(edit[d])'
    <3>1. Fits(edit'[d])
      BY <1>2, <2>2 DEF FoldersAgree
    <3>2. meant' = meant
      BY <1>1
    <3> QED BY <3>1, <3>2 DEF Fits, Filters, Asked
  <2>4. ASSUME NEW c \in Editor, NEW d \in Editor, c # d,
               edit'[c].kind \in Filters, edit'[d].kind \in Filters
        PROVE  edit'[c].id # edit'[d].id
    <3>1. CASE c = e
      BY <1>2, <2>1, <2>4, <3>1, NoClashNoOther
    <3>2. CASE d = e
      BY <1>2, <2>1, <2>4, <3>2, NoClashNoOther
    <3>3. CASE c # e /\ d # e
      BY <1>2, <2>2, <2>4, <3>3 DEF FoldersAgree, Apart
    <3> QED BY <3>1, <3>2, <3>3
  <2> QED BY <1>1, <2>2, <2>3, <2>4 DEF FoldersAgree, Apart
<1> QED BY <1>3, <1>4, <1>5, <1>6 DEF FoldersInv

(* Every decision of the folder actions fits the folders it was read from. *)
LEMMA ActionsFit ==
  ASSUME FoldersInv, NEW e \in Editor
  PROVE  /\ \A cs \in SUBSET Item : CreateFolder(e, cs) => FoldersInv'
         /\ \A i \in FolderId : DeleteFolder(e, i) => FoldersInv'
         /\ \A i \in FolderId, c \in Item : AddChat(e, i, c) => FoldersInv'
         /\ \A i \in FolderId, c \in Item : RemoveChat(e, i, c) => FoldersInv'
         /\ \A named : ReorderFolders(e, named) => FoldersInv'
<1>1. ASSUME NEW cs \in SUBSET Item, CreateFolder(e, cs) PROVE FoldersInv'
  <2> DEFINE w == [kind |-> "create", id |-> NextFolderID, write |-> cs, chats |-> cs]
  <2>1. w.kind = "create" /\ w.write = cs /\ w.chats = cs
    OBVIOUS
  <2>2. Decide(e, w, NextFolderID \in shared) /\ (NextFolderID \in shared) \in BOOLEAN
    BY <1>1 DEF CreateFolder
  <2> HIDE DEF w
  <2>3. w.kind \in Filters /\ Known(w) /\ Fits(w)
    BY <2>1 DEF Filters, Known, Fits, Asked
  <2> QED BY <2>2, <2>3, DecideFits
<1>2. ASSUME NEW i \in FolderId, DeleteFolder(e, i) PROVE FoldersInv'
  <2> DEFINE w == [kind |-> "delete", id |-> i, write |-> Gone, chats |-> {}]
  <2>1. w.kind = "delete" /\ w.write = Gone
    OBVIOUS
  <2>2. Decide(e, w, FALSE)
    BY <1>2 DEF DeleteFolder
  <2> HIDE DEF w
  <2>3. w.kind \in Filters /\ Known(w) /\ Fits(w)
    BY <2>1 DEF Filters, Known, Fits, Asked
  <2> QED BY <2>2, <2>3, DecideFits
<1>3. ASSUME NEW i \in FolderId, NEW c \in Item, AddChat(e, i, c) PROVE FoldersInv'
  <2> DEFINE w == [kind |-> "add_chat", id |-> i, write |-> folders[i] \cup {c}, chats |-> {c}]
  <2>1. w.kind = "add_chat" /\ w.id = i /\ w.write = folders[i] \cup {c} /\ w.chats = {c}
    OBVIOUS
  <2>2. Decide(e, w, FALSE) /\ folders[i] # Gone
    BY <1>3 DEF AddChat, Visible
  <2> HIDE DEF w
  <2>3. w.kind \in Filters /\ Known(w)
    BY <2>1 DEF Filters, Known
  <2>4. ~clashed => Fits(w)
    BY <2>1, <2>2 DEF Fits, Asked, FoldersInv, FoldersAgree
  <2> QED BY <2>2, <2>3, <2>4, DecideFits
<1>4. ASSUME NEW i \in FolderId, NEW c \in Item, RemoveChat(e, i, c) PROVE FoldersInv'
  <2> DEFINE w == [kind |-> "remove_chat", id |-> i, write |-> folders[i] \ {c},
                   chats |-> {c}]
  <2>1. w.kind = "remove_chat" /\ w.id = i /\ w.write = folders[i] \ {c} /\ w.chats = {c}
    OBVIOUS
  <2>2. Decide(e, w, FALSE) /\ folders[i] # Gone
    BY <1>4 DEF RemoveChat, Visible
  <2> HIDE DEF w
  <2>3. w.kind \in Filters /\ Known(w)
    BY <2>1 DEF Filters, Known
  <2>4. ~clashed => Fits(w)
    BY <2>1, <2>2 DEF Fits, Asked, FoldersInv, FoldersAgree
  <2> QED BY <2>2, <2>3, <2>4, DecideFits
<1>5. ASSUME NEW named, ReorderFolders(e, named) PROVE FoldersInv'
  <2> DEFINE w == [kind |-> "reorder", write |-> Ordered(named)]
  <2>1. w.kind = "reorder"
    OBVIOUS
  <2>2. Decide(e, w, FALSE)
    BY <1>5 DEF ReorderFolders
  <2> HIDE DEF w
  <2>3. w.kind \in {"reorder"} /\ Known(w) /\ Fits(w)
    BY <2>1 DEF Filters, Known, Fits
  <2> QED BY <2>2, <2>3, DecideFits
<1> QED BY <1>1, <1>2, <1>3, <1>4, <1>5

(* An editor that is done with its edit leaves the others fitting, as long *)
(* as what others are about has not changed.                               *)
LEMMA DoneKeeps ==
  ASSUME FoldersInv, NEW e \in Editor, edit' = [edit EXCEPT ![e] = NoEdit],
         UNCHANGED clashed, DOMAIN meant' = FolderId,
         ~clashed => folders' = meant',
         ~clashed => \A d \in Editor :
                       d # e /\ edit[d].kind \in {"add_chat", "remove_chat"}
                         => meant'[edit[d].id] = meant[edit[d].id]
  PROVE  FoldersInv'
<1>1. edit'[e] = NoEdit /\ \A d \in Editor : d # e => edit'[d] = edit[d]
  BY DEF FoldersInv
<1>2. NoEdit.kind = "none"
  BY DEF NoEdit
<1>3. edit' = [d \in Editor |-> edit'[d]]
  BY DEF FoldersInv
<1>4. \A d \in Editor : Known(edit[d])'
  BY <1>1, <1>2 DEF FoldersInv, Known
<1>5. \A d \in Editor : edit'[d] = NoEdit \/ edit'[d].kind \in Filters \cup {"reorder"}
  BY <1>1 DEF FoldersInv
<1>6. ASSUME ~clashed' PROVE FoldersAgree'
  <2>1. FoldersAgree /\ ~clashed
    BY <1>6 DEF FoldersInv
  <2>2. ASSUME NEW d \in Editor PROVE Fits(edit[d])'
    <3>1. CASE d = e
      BY <1>1, <1>2, <3>1 DEF Fits, Filters
    <3>2. CASE d # e
      <4>1. edit'[d] = edit[d] /\ Fits(edit[d])
        BY <1>1, <2>1, <3>2 DEF FoldersAgree
      <4>2. edit[d].kind \in {"add_chat", "remove_chat"}
              => meant'[edit[d].id] = meant[edit[d].id]
        BY <2>1, <3>2
      <4> QED BY <4>1, <4>2 DEF Fits, Filters, Asked
    <3> QED BY <3>1, <3>2
  <2>3. Apart'
    BY <1>1, <1>2, <2>1 DEF FoldersAgree, Apart, Filters
  <2> QED BY <2>1, <2>2, <2>3 DEF FoldersAgree
<1> QED BY <1>3, <1>4, <1>5, <1>6 DEF FoldersInv

(* A write makes of its folder what it asks, and touches no other folder.  *)
LEMMA UpdateKeeps ==
  ASSUME FoldersInv, NEW e \in Editor, UpdateFilter(e)
  PROVE  FoldersInv'
<1> DEFINE w == edit[e]
<1>1. /\ w.kind \notin {"none", "reorder"} /\ UNCHANGED clashed
      /\ folders' = [folders EXCEPT ![w.id] = w.write]
      /\ meant' = [meant EXCEPT ![w.id] = Asked(w)]
      /\ edit' = [edit EXCEPT ![e] = NoEdit]
  BY DEF UpdateFilter
<1>2. w.kind \in Filters
  BY <1>1 DEF FoldersInv, NoEdit
<1> HIDE DEF w
<1>3. DOMAIN meant' = FolderId
  BY <1>1 DEF FoldersInv
<1>4. ASSUME ~clashed PROVE folders' = meant'
  <2>1. folders = meant /\ w.write = Asked(w)
    BY <1>2, <1>4 DEF FoldersInv, FoldersAgree, Fits, w
  <2> QED BY <1>1, <2>1
<1>5. ASSUME ~clashed, NEW d \in Editor, d # e, edit[d].kind \in {"add_chat", "remove_chat"}
      PROVE  meant'[edit[d].id] = meant[edit[d].id]
  <2>1. edit[d].id \in FolderId /\ edit[d].id # w.id
    BY <1>2, <1>5 DEF FoldersInv, FoldersAgree, Apart, Known, Filters, w
  <2> QED BY <1>1, <2>1 DEF FoldersInv
<1> QED BY <1>1, <1>3, <1>4, <1>5, DoneKeeps

(* Nobody edits anything at first.                                         *)
LEMMA FoldersInvInit == FoldersInit => FoldersInv
<1> SUFFICES ASSUME FoldersInit PROVE FoldersInv
  OBVIOUS
<1>1. \A e \in Editor : edit[e] = NoEdit
  BY DEF FoldersInit
<1>2. NoEdit.kind = "none"
  BY DEF NoEdit
<1> QED BY <1>1, <1>2 DEF FoldersInit, FoldersInv, FoldersAgree, Apart, Fits, Known, Filters

(* Every step keeps the edits fitting.                                     *)
LEMMA FoldersInvStep == FoldersInv /\ [FoldersNext]_folderVars => FoldersInv'
<1> SUFFICES ASSUME FoldersInv, [FoldersNext]_folderVars PROVE FoldersInv'
  OBVIOUS
<1>1. CASE UNCHANGED folderVars
  BY <1>1 DEF folderVars, FoldersInv, FoldersAgree, Apart, Fits, Known, Asked
<1>2. ASSUME NEW e \in Editor, UpdateOrder(e) \/ Abandon(e) PROVE FoldersInv'
  <2>1. edit' = [edit EXCEPT ![e] = NoEdit] /\ UNCHANGED <<folders, meant, clashed>>
    BY <1>2 DEF UpdateOrder, Abandon
  <2>2. DOMAIN meant' = FolderId /\ (~clashed => folders' = meant')
    BY <2>1 DEF FoldersInv, FoldersAgree
  <2> QED BY <2>1, <2>2, DoneKeeps
<1> QED BY <1>1, <1>2, ActionsFit, UpdateKeeps DEF FoldersNext

(* For any editors, folders and chats: as long as no two edits of one      *)
(* folder overlap and no new folder takes the id of a shared one, the      *)
(* folders are what the finished edits ask for (CreateFolder,              *)
(* SetFolderChat, DeleteFolder).                                           *)
THEOREM AllEditsLand == FoldersSpec => []EditsLand
<1>1. FoldersInv => EditsLand
  BY DEF FoldersInv, FoldersAgree, EditsLand
<1> QED BY <1>1, FoldersInvInit, FoldersInvStep, PTL DEF FoldersSpec

----------------------------------------------------------------------------
(* The positions of a finite set of them, in order: the k-th has k of them *)
(* up to itself.                                                           *)
UpTo(P, i) == {j \in P : j <= i}

LEMMA RankGrows ==
  ASSUME NEW P \in SUBSET Nat, IsFiniteSet(P)
  PROVE  /\ \A i \in P : Cardinality(UpTo(P, i)) \in 1..Cardinality(P)
         /\ \A h, i \in P : Cardinality(UpTo(P, h)) = Cardinality(UpTo(P, i)) => h = i
<1>1. ASSUME NEW i \in P
      PROVE  IsFiniteSet(UpTo(P, i)) /\ Cardinality(UpTo(P, i)) \in 1..Cardinality(P)
  <2>1. UpTo(P, i) \subseteq P /\ i \in UpTo(P, i)
    BY DEF UpTo
  <2>2. IsFiniteSet(UpTo(P, i)) /\ Cardinality(UpTo(P, i)) <= Cardinality(P)
    BY <2>1, FS_Subset
  <2>3. Cardinality(UpTo(P, i)) # 0
    BY <2>1, <2>2, FS_EmptySet
  <2>4. Cardinality(UpTo(P, i)) \in Nat /\ Cardinality(P) \in Nat
    BY <2>2, FS_CardinalityType
  <2> QED BY <2>2, <2>3, <2>4
<1>2. ASSUME NEW h \in P, NEW i \in P, h < i
      PROVE  Cardinality(UpTo(P, h)) < Cardinality(UpTo(P, i))
  <2>1. i \notin UpTo(P, h) /\ UpTo(P, h) \cup {i} \subseteq UpTo(P, i)
    <3>1. h \in Nat /\ i \in Nat /\ \A j \in P : j \in Nat
      OBVIOUS
    <3>2. \A j \in P : j <= h => j <= i
      BY <1>2, <3>1
    <3>3. ~(i <= h) /\ i <= i
      BY <1>2, <3>1
    <3> QED BY <3>2, <3>3 DEF UpTo
  <2>2. Cardinality(UpTo(P, h) \cup {i}) = Cardinality(UpTo(P, h)) + 1
    BY <1>1, <2>1, FS_AddElement
  <2>3. Cardinality(UpTo(P, h) \cup {i}) <= Cardinality(UpTo(P, i))
    BY <1>1, <2>1, FS_Subset
  <2>4. Cardinality(UpTo(P, h)) \in Nat /\ Cardinality(UpTo(P, i)) \in Nat
    BY <1>1
  <2> QED BY <2>2, <2>3, <2>4
<1>3. ASSUME NEW h \in P, NEW i \in P, Cardinality(UpTo(P, h)) = Cardinality(UpTo(P, i))
      PROVE  h = i
  <2>1. ~(Cardinality(UpTo(P, h)) < Cardinality(UpTo(P, i)))
    BY <1>1, <1>3
  <2>2. ~(Cardinality(UpTo(P, i)) < Cardinality(UpTo(P, h)))
    BY <1>1, <1>3
  <2>3. ~(h < i) /\ ~(i < h)
    BY <1>2, <2>1, <2>2
  <2>4. h \in Nat /\ i \in Nat
    OBVIOUS
  <2> QED BY <2>3, <2>4
<1> QED BY <1>1, <1>3

LEMMA NthIsThere ==
  ASSUME NEW P \in SUBSET Nat, IsFiniteSet(P), NEW k \in 1..Cardinality(P)
  PROVE  Nth(P, k) \in P /\ Cardinality(UpTo(P, Nth(P, k))) = k
<1> DEFINE n    == Cardinality(P)
           rank == [i \in P |-> Cardinality(UpTo(P, i))]
<1>1. n \in Nat /\ IsFiniteSet(1..n) /\ Cardinality(1..n) = n
  BY FS_CardinalityType, FS_Interval
<1>2. rank \in Injection(P, 1..n)
  BY RankGrows DEF Injection, IsInjective
<1> HIDE DEF rank
<1>3. rank \in Surjection(P, 1..n)
  BY <1>1, <1>2, FS_Injection
<1>4. PICK i \in P : rank[i] = k
  BY <1>3 DEF Surjection
<1>5. \E h \in P : Cardinality({j \in P : j <= h}) = k
  BY <1>4 DEF rank, UpTo
<1> QED BY <1>5 DEF Nth, UpTo

(* A sequence picked from another has the elements at the positions, and   *)
(* repeats none that they do not.                                          *)
Named(s)    == {s[k] : k \in DOMAIN s}
NoRepeat(s) == \A j, k \in DOMAIN s : s[j] = s[k] => j = k

LEMMA PickProperties ==
  ASSUME NEW S, NEW s \in Seq(S), NEW P \in SUBSET DOMAIN s
  PROVE  /\ Pick(s, P) \in Seq(S)
         /\ Named(Pick(s, P)) = {s[i] : i \in P}
         /\ (\A i, j \in P : s[i] = s[j] => i = j) => NoRepeat(Pick(s, P))
<1> DEFINE n == Cardinality(P)
<1>1. Len(s) \in Nat /\ DOMAIN s = 1..Len(s) /\ \A i \in P : s[i] \in S
  BY LenProperties, ElementOfSeq
<1>2. P \in SUBSET Nat /\ IsFiniteSet(P) /\ n \in Nat
  <2>1. IsFiniteSet(1..Len(s)) /\ P \subseteq 1..Len(s)
    BY <1>1, FS_Interval
  <2>2. IsFiniteSet(P)
    BY <2>1, FS_Subset
  <2> QED BY <1>1, <2>2, FS_CardinalityType
<1>3. \A k \in 1..n : Nth(P, k) \in P /\ Cardinality(UpTo(P, Nth(P, k))) = k
  BY <1>2, NthIsThere
<1> HIDE DEF n
<1>4. Pick(s, P) = [k \in 1..n |-> s[Nth(P, k)]]
  BY DEF Pick, n
<1>5. Pick(s, P) \in Seq(S)
  <2>1. Pick(s, P) \in [1..n -> S]
    BY <1>1, <1>3, <1>4
  <2> QED BY <1>2, <2>1, SeqDef
<1>6. Named(Pick(s, P)) \subseteq {s[i] : i \in P}
  BY <1>3, <1>4 DEF Named
<1>7. ASSUME NEW i \in P PROVE s[i] \in Named(Pick(s, P))
  <2> DEFINE k == Cardinality(UpTo(P, i))
  <2>1. k \in 1..n
    BY <1>2, RankGrows DEF n
  <2>2. Nth(P, k) = i
    BY <1>2, <1>3, <2>1, RankGrows
  <2> HIDE DEF k
  <2> QED BY <1>4, <2>1, <2>2 DEF Named
<1>8. ASSUME \A i, j \in P : s[i] = s[j] => i = j PROVE NoRepeat(Pick(s, P))
  <2> SUFFICES ASSUME NEW j \in 1..n, NEW k \in 1..n, s[Nth(P, j)] = s[Nth(P, k)] PROVE j = k
    BY <1>4 DEF NoRepeat
  <2>1. Nth(P, j) = Nth(P, k)
    BY <1>3, <1>8
  <2> QED BY <1>3, <2>1
<1> QED BY <1>5, <1>6, <1>7, <1>8

LEMMA JoinProperties ==
  ASSUME NEW S, NEW s \in Seq(S), NEW t \in Seq(S)
  PROVE  /\ s \o t \in Seq(S)
         /\ Named(s \o t) = Named(s) \cup Named(t)
         /\ NoRepeat(s) /\ NoRepeat(t) /\ Named(s) \cap Named(t) = {} => NoRepeat(s \o t)
<1>1. /\ s \o t \in Seq(S) /\ Len(s) \in Nat /\ Len(t) \in Nat
      /\ DOMAIN s = 1..Len(s) /\ DOMAIN t = 1..Len(t)
      /\ Len(s \o t) = Len(s) + Len(t)
      /\ \A i \in 1..Len(s \o t) : (s \o t)[i] = IF i <= Len(s) THEN s[i] ELSE t[i - Len(s)]
  BY ConcatProperties, LenProperties
<1>2. DOMAIN (s \o t) = 1..(Len(s) + Len(t))
  BY <1>1, LenProperties
<1> DEFINE m == Len(s)
           n == Len(t)
           u == s \o t
<1>3. /\ u \in Seq(S) /\ m \in Nat /\ n \in Nat /\ DOMAIN s = 1..m /\ DOMAIN t = 1..n
      /\ DOMAIN u = 1..(m + n)
      /\ \A i \in 1..(m + n) : u[i] = IF i <= m THEN s[i] ELSE t[i - m]
  BY <1>1, <1>2
<1> HIDE DEF m, n, u
<1>4. Named(u) \subseteq Named(s) \cup Named(t)
  <2> SUFFICES ASSUME NEW k \in 1..(m + n) PROVE u[k] \in Named(s) \cup Named(t)
    BY <1>3 DEF Named
  <2>1. k <= m => k \in 1..m
    BY <1>3
  <2>2. ~(k <= m) => k - m \in 1..n
    BY <1>3
  <2> QED BY <1>3, <2>1, <2>2 DEF Named
<1>5. Named(s) \subseteq Named(u)
  <2> SUFFICES ASSUME NEW i \in 1..m PROVE \E k \in 1..(m + n) : u[k] = s[i]
    BY <1>3 DEF Named
  <2> QED BY <1>3
<1>6. Named(t) \subseteq Named(u)
  <2> SUFFICES ASSUME NEW i \in 1..n PROVE \E k \in 1..(m + n) : u[k] = t[i]
    BY <1>3 DEF Named
  <2>1. m + i \in 1..(m + n) /\ ~(m + i <= m) /\ (m + i) - m = i
    BY <1>3
  <2> QED BY <1>3, <2>1
<1>7. ASSUME NoRepeat(s), NoRepeat(t), Named(s) \cap Named(t) = {} PROVE NoRepeat(u)
  <2> SUFFICES ASSUME NEW j \in 1..(m + n), NEW k \in 1..(m + n), u[j] = u[k] PROVE j = k
    BY <1>3 DEF NoRepeat
  <2>1. \A h \in 1..m, i \in 1..n : s[h] # t[i]
    BY <1>3, <1>7 DEF Named
  <2>2. \A i \in 1..(m + n) : (i <= m => i \in 1..m) /\ (~(i <= m) => i - m \in 1..n)
    BY <1>3
  <2>3. CASE j <= m /\ k <= m
    BY <1>3, <1>7, <2>2, <2>3 DEF NoRepeat
  <2>4. CASE ~(j <= m) /\ ~(k <= m)
    <3>1. j - m = k - m
      BY <1>3, <1>7, <2>2, <2>4 DEF NoRepeat
    <3> QED BY <1>3, <3>1
  <2>5. CASE (j <= m) # (k <= m)
    BY <1>3, <2>1, <2>2, <2>5
  <2> QED BY <2>3, <2>4, <2>5
<1> QED BY <1>3, <1>4, <1>5, <1>6, <1>7 DEF u

(* A set of numbers that is not empty has a least one.                     *)
LEMMA LeastThere ==
  ASSUME NEW Q \in SUBSET Nat, NEW q \in Q
  PROVE  \E i \in Q : \A j \in Q : i <= j
<1> DEFINE P == {j \in Q : j <= q}
<1>1. P \in SUBSET Nat /\ q \in P /\ q \in Nat /\ \A j \in P : j <= q
  <2>1. q \in Nat
    OBVIOUS
  <2>2. q <= q
    BY <2>1
  <2> QED BY <2>1, <2>2
<1> HIDE DEF P
<1>2. IsFiniteSet(P) /\ 1 \in 1..Cardinality(P)
  <2>1. IsFiniteSet(P)
    BY <1>1, FS_BoundedSetOfNaturals
  <2>2. Cardinality(P) \in Nat /\ Cardinality(UpTo(P, q)) \in 1..Cardinality(P)
    BY <1>1, <2>1, FS_CardinalityType, RankGrows
  <2> QED BY <2>1, <2>2
<1> DEFINE i == Nth(P, 1)
<1>3. i \in P /\ Cardinality(UpTo(P, i)) = 1
  BY <1>1, <1>2, NthIsThere
<1> HIDE DEF i
<1>4. ASSUME NEW j \in P PROVE i <= j
  <2>1. i \in Nat /\ j \in Nat
    BY <1>1, <1>3
  <2>2. CASE j < i
    <3>1. i \in UpTo(P, i) /\ j \in UpTo(P, i) /\ i # j
      BY <1>3, <2>1, <2>2 DEF UpTo
    <3>2. IsFiniteSet(UpTo(P, i))
      BY <1>2, FS_Subset DEF UpTo
    <3>3. PICK x : UpTo(P, i) = {x}
      BY <1>3, <3>2, FS_Singleton
    <3> QED BY <3>1, <3>3
  <2> QED BY <2>1, <2>2
<1>5. \A j \in Q : i <= j
  BY <1>1, <1>3, <1>4 DEF P
<1> QED BY <1>3, <1>5 DEF P

----------------------------------------------------------------------------
(* What the tabs rest on: an order about to be written is complete too and *)
(* beside no new or deleted folder, a folder whose chats change is there,  *)
(* and only a deletion writes no folder.                                   *)
Complete(s) == Named(s) = Visible /\ NoRepeat(s)

TabsInv ==
  /\ \A e \in Editor : edit[e].kind \in Filters => (edit[e].write = Gone <=> edit[e].kind = "delete")
  /\ ~clashed =>
       /\ Complete(tabs)
       /\ \A e \in Editor : edit[e].kind = "reorder" => Complete(edit[e].write)
       /\ \A e \in Editor : edit[e].kind \in {"add_chat", "remove_chat"}
                              => edit[e].id \in Visible
       /\ \A d, e \in Editor : edit[d].kind = "reorder" => edit[e].kind \notin {"create", "delete"}

FilterEdit == [kind : Filters, id : FolderId, write : Contents, chats : SUBSET Item]
OrderEdit  == [kind : {"reorder"}, write : Seq(FolderId)]

LEMMA FoldersKinds ==
  FoldersType <=> /\ folders \in [FolderId -> Contents] /\ meant \in [FolderId -> Contents]
                  /\ shared \subseteq FolderId
                  /\ tabs \in Seq(FolderId)
                  /\ edit \in [Editor -> {NoEdit} \cup FilterEdit \cup OrderEdit]
                  /\ clashed \in BOOLEAN
                  /\ edits \in Nat
BY DEF FoldersType, FilterEdit, OrderEdit, Filters

(* The order a reorder writes names every folder once, whatever it names.  *)
LEMMA OrderComplete ==
  ASSUME FoldersType, NEW named \in Seq(FolderId)
  PROVE  /\ Ordered(named) \in Seq(FolderId)
         /\ Complete(tabs) /\ Named(named) \subseteq Visible => Complete(Ordered(named))
<1>1. /\ tabs \in Seq(FolderId) /\ DOMAIN named = 1..Len(named) /\ Len(named) \in Nat
  BY LenProperties DEF FoldersType
<1>2. Firsts(named) \in SUBSET DOMAIN named /\ Others(named) \in SUBSET DOMAIN tabs
  BY DEF Firsts, Others
<1>3. /\ Pick(named, Firsts(named)) \in Seq(FolderId)
      /\ Named(Pick(named, Firsts(named))) = {named[i] : i \in Firsts(named)}
      /\ NoRepeat(Pick(named, Firsts(named)))
  <2>1. \A i, j \in Firsts(named) : named[i] = named[j] => i = j
    <3> SUFFICES ASSUME NEW i \in Firsts(named), NEW j \in Firsts(named), named[i] = named[j], i < j
                 PROVE  FALSE
      BY <1>1 DEF Firsts
    <3>1. i \in 1..(j - 1)
      BY <1>1 DEF Firsts
    <3> QED BY <3>1 DEF Firsts
  <2> QED BY <1>2, <2>1, PickProperties
<1>4. {named[i] : i \in Firsts(named)} = Named(named)
  <2>1. ASSUME NEW k \in DOMAIN named PROVE \E i \in Firsts(named) : named[i] = named[k]
    <3> DEFINE Q == {i \in DOMAIN named : named[i] = named[k]}
    <3>1. Q \in SUBSET Nat /\ k \in Q
      BY <1>1
    <3> HIDE DEF Q
    <3>2. PICK i \in Q : \A j \in Q : i <= j
      BY <3>1, LeastThere
    <3>3. ASSUME NEW j \in 1..(i - 1) PROVE j \notin Q /\ j \in DOMAIN named
      <4>1. i \in 1..Len(named)
        BY <1>1, <3>2 DEF Q
      <4> QED BY <1>1, <3>2, <4>1
    <3> QED BY <3>2, <3>3 DEF Q, Firsts
  <2>2. Firsts(named) \subseteq DOMAIN named
    BY <1>2
  <2> QED BY <2>1, <2>2 DEF Named
<1>5. /\ Pick(tabs, Others(named)) \in Seq(FolderId)
      /\ Named(Pick(tabs, Others(named))) = {tabs[i] : i \in Others(named)}
      /\ NoRepeat(tabs) => NoRepeat(Pick(tabs, Others(named)))
  <2>1. NoRepeat(tabs) => \A i, j \in Others(named) : tabs[i] = tabs[j] => i = j
    BY <1>2 DEF NoRepeat
  <2> QED BY <1>1, <1>2, <2>1, PickProperties
<1>6. Named(named) \cap {tabs[i] : i \in Others(named)} = {}
  BY DEF Named, Others
<1>7. ASSUME Complete(tabs), Named(named) \subseteq Visible
      PROVE  Named(named) \cup {tabs[i] : i \in Others(named)} = Visible
  <2>1. {tabs[i] : i \in Others(named)} \subseteq Visible
    BY DEF Others
  <2>2. ASSUME NEW v \in Visible, v \notin Named(named) PROVE \E i \in Others(named) : tabs[i] = v
    <3>1. PICK i \in DOMAIN tabs : tabs[i] = v
      BY <1>7, <2>2 DEF Complete, Named
    <3>2. i \in Others(named)
      BY <2>2, <3>1 DEF Others, Named
    <3> QED BY <3>1, <3>2
  <2> QED BY <1>7, <2>1, <2>2
<1>8. /\ Ordered(named) \in Seq(FolderId)
      /\ Named(Ordered(named)) = Named(named) \cup {tabs[i] : i \in Others(named)}
      /\ NoRepeat(tabs) => NoRepeat(Ordered(named))
  BY <1>3, <1>4, <1>5, <1>6, JoinProperties DEF Ordered
<1> QED BY <1>7, <1>8 DEF Complete

(* A decision to write what an edit can be keeps the types.                *)
LEMMA DecideTyped ==
  ASSUME FoldersType, NEW e \in Editor, NEW w \in FilterEdit \cup OrderEdit,
         NEW clash \in BOOLEAN, Decide(e, w, clash)
  PROVE  FoldersType'
<1>1. edit' \in [Editor -> {NoEdit} \cup FilterEdit \cup OrderEdit] /\ edits' \in Nat
  BY FoldersKinds DEF Decide
<1>2. clashed' \in BOOLEAN
  BY Zenon DEF Decide
<1>3. UNCHANGED <<folders, shared, tabs, meant>>
  BY DEF Decide
<1> QED BY <1>1, <1>2, <1>3, FoldersKinds DEF FoldersType, FilterEdit, OrderEdit, Filters

LEMMA NextIsFree == ASSUME Free # {} PROVE NextFolderID \in Free
<1>1. PICK q \in Free : TRUE
  OBVIOUS
<1>2. Free \in SUBSET Nat
  BY FolderIds DEF Free
<1>3. \E i \in Free : \A j \in Free : i <= j
  BY <1>1, <1>2, LeastThere
<1> QED BY <1>3 DEF NextFolderID

(* What each action decides to write is such an edit.                      *)
LEMMA ActionsTyped ==
  ASSUME FoldersType, NEW e \in Editor
  PROVE  /\ \A cs \in SUBSET Item : CreateFolder(e, cs) => FoldersType'
         /\ \A i \in FolderId : DeleteFolder(e, i) => FoldersType'
         /\ \A i \in FolderId, c \in Item : AddChat(e, i, c) => FoldersType'
         /\ \A i \in FolderId, c \in Item : RemoveChat(e, i, c) => FoldersType'
         /\ \A named \in Seq(FolderId) : ReorderFolders(e, named) => FoldersType'
<1> USE DEF FilterEdit, Filters, Contents
<1>1. ASSUME NEW cs \in SUBSET Item, CreateFolder(e, cs) PROVE FoldersType'
  <2> DEFINE w == [kind |-> "create", id |-> NextFolderID, write |-> cs, chats |-> cs]
  <2>1. Decide(e, w, NextFolderID \in shared) /\ (NextFolderID \in shared) \in BOOLEAN
    BY <1>1 DEF CreateFolder
  <2>2. NextFolderID \in FolderId
    BY <1>1, NextIsFree DEF CreateFolder, Free
  <2>3. w \in FilterEdit
    BY <2>2
  <2> HIDE DEF w
  <2> QED BY <2>1, <2>3, DecideTyped
<1>2. ASSUME NEW i \in FolderId, DeleteFolder(e, i) PROVE FoldersType'
  <2> DEFINE w == [kind |-> "delete", id |-> i, write |-> Gone, chats |-> {}]
  <2>1. Decide(e, w, FALSE)
    BY <1>2 DEF DeleteFolder
  <2>2. w \in FilterEdit
    OBVIOUS
  <2> HIDE DEF w
  <2> QED BY <2>1, <2>2, DecideTyped
<1>3. ASSUME NEW i \in Visible PROVE i \in FolderId /\ folders[i] \in SUBSET Item
  <2>1. i \in FolderId /\ folders[i] # Gone
    BY DEF Visible
  <2>2. folders[i] \in (SUBSET Item) \cup {Gone}
    BY <2>1 DEF FoldersType
  <2> QED BY <2>1, <2>2
<1>4. ASSUME NEW i \in FolderId, NEW c \in Item, AddChat(e, i, c) PROVE FoldersType'
  <2> DEFINE w == [kind |-> "add_chat", id |-> i, write |-> folders[i] \cup {c}, chats |-> {c}]
  <2>1. Decide(e, w, FALSE) /\ folders[i] \in SUBSET Item
    BY <1>3, <1>4 DEF AddChat
  <2>2. w \in FilterEdit
    BY <2>1
  <2> HIDE DEF w
  <2> QED BY <2>1, <2>2, DecideTyped
<1>5. ASSUME NEW i \in FolderId, NEW c \in Item, RemoveChat(e, i, c) PROVE FoldersType'
  <2> DEFINE w == [kind |-> "remove_chat", id |-> i, write |-> folders[i] \ {c}, chats |-> {c}]
  <2>1. Decide(e, w, FALSE) /\ folders[i] \in SUBSET Item
    BY <1>3, <1>5 DEF RemoveChat
  <2>2. w \in FilterEdit
    BY <2>1
  <2> HIDE DEF w
  <2> QED BY <2>1, <2>2, DecideTyped
<1>6. ASSUME NEW named \in Seq(FolderId), ReorderFolders(e, named) PROVE FoldersType'
  <2> DEFINE w == [kind |-> "reorder", write |-> Ordered(named)]
  <2>1. Decide(e, w, FALSE)
    BY <1>6 DEF ReorderFolders
  <2>2. w \in OrderEdit
    BY OrderComplete DEF OrderEdit
  <2> HIDE DEF w
  <2> QED BY <2>1, <2>2, DecideTyped
<1> QED BY <1>1, <1>2, <1>4, <1>5, <1>6

(* The tabs after a write: without the folder, or with it.                 *)
LEMMA TabsAfter ==
  ASSUME NEW s \in Seq(FolderId), NEW i \in FolderId
  PROVE  /\ Without(s, i) \in Seq(FolderId) /\ Named(Without(s, i)) = Named(s) \ {i}
         /\ NoRepeat(s) => NoRepeat(Without(s, i))
         /\ Append(s, i) \in Seq(FolderId) /\ Named(Append(s, i)) = Named(s) \cup {i}
         /\ NoRepeat(s) /\ i \notin Named(s) => NoRepeat(Append(s, i))
<1> DEFINE P == {k \in DOMAIN s : s[k] # i}
<1>1. P \in SUBSET DOMAIN s
  OBVIOUS
<1>2. NoRepeat(s) => \A j, k \in P : s[j] = s[k] => j = k
  BY DEF NoRepeat
<1>3. {s[k] : k \in P} = Named(s) \ {i}
  BY DEF Named
<1> HIDE DEF P
<1>4. /\ Pick(s, P) \in Seq(FolderId) /\ Named(Pick(s, P)) = Named(s) \ {i}
      /\ NoRepeat(s) => NoRepeat(Pick(s, P))
  BY <1>1, <1>2, <1>3, PickProperties
<1>5. /\ Append(s, i) \in Seq(FolderId) /\ Len(s) \in Nat /\ DOMAIN s = 1..Len(s)
      /\ DOMAIN Append(s, i) = 1..(Len(s) + 1)
      /\ \A k \in 1..Len(s) : Append(s, i)[k] = s[k]
      /\ Append(s, i)[Len(s) + 1] = i
  BY AppendProperties, LenProperties
<1>6. 1..(Len(s) + 1) = (1..Len(s)) \cup {Len(s) + 1}
  BY <1>5
<1>7. Named(Append(s, i)) = Named(s) \cup {i}
  BY <1>5, <1>6 DEF Named
<1>8. ASSUME NoRepeat(s), i \notin Named(s) PROVE NoRepeat(Append(s, i))
  <2>1. \A k \in 1..Len(s) : s[k] # i
    BY <1>5, <1>8 DEF Named
  <2> QED BY <1>5, <1>6, <1>8, <2>1 DEF NoRepeat
<1> QED BY <1>4, <1>5, <1>7, <1>8 DEF P, Without

(* Every step keeps the types.                                             *)
LEMMA FoldersTypeStep ==
  ASSUME FoldersType, [FoldersNext]_folderVars
  PROVE  FoldersType'
<1>1. NoEdit.kind = "none"
  BY DEF NoEdit
<1>2. ASSUME NEW e \in Editor, UpdateFilter(e) PROVE FoldersType'
  <2> DEFINE w == edit[e]
  <2>1. w \in FilterEdit
    BY <1>1, <1>2, FoldersKinds DEF UpdateFilter, OrderEdit
  <2>2. w.id \in FolderId /\ w.write \in Contents /\ w.chats \in SUBSET Item /\ w.kind \in Filters
    BY <2>1 DEF FilterEdit
  <2>3. Asked(w) \in Contents
    <3>1. meant[w.id] \in Contents
      BY <2>2, FoldersKinds
    <3> HIDE DEF w
    <3>2. CASE w.kind = "create" \/ w.kind = "delete"
      BY <2>2, <3>2 DEF Asked, Contents
    <3>3. CASE w.kind = "add_chat"
      BY <2>2, <3>1, <3>3 DEF Asked, Contents
    <3>4. CASE w.kind = "remove_chat"
      BY <2>2, <3>1, <3>4 DEF Asked, Contents
    <3> QED BY <2>2, <3>2, <3>3, <3>4 DEF Filters
  <2>4. /\ folders' = [folders EXCEPT ![w.id] = w.write]
        /\ meant' = [meant EXCEPT ![w.id] = Asked(w)]
        /\ edit' = [edit EXCEPT ![e] = NoEdit] /\ shared' = shared \ {w.id}
        /\ UNCHANGED <<clashed, edits>>
        /\ tabs' \in {Without(tabs, w.id), tabs, Append(tabs, w.id)}
    BY <1>2 DEF UpdateFilter
  <2> HIDE DEF w
  <2>5. tabs' \in Seq(FolderId)
    <3>1. tabs \in Seq(FolderId)
      BY FoldersKinds
    <3>2. Without(tabs, w.id) \in Seq(FolderId) /\ Append(tabs, w.id) \in Seq(FolderId)
      BY <2>2, <3>1, TabsAfter
    <3> QED BY <2>4, <3>1, <3>2
  <2>6. /\ folders' \in [FolderId -> Contents] /\ meant' \in [FolderId -> Contents]
        /\ shared' \subseteq FolderId
        /\ edit' \in [Editor -> {NoEdit} \cup FilterEdit \cup OrderEdit]
    BY <2>2, <2>3, <2>4, FoldersKinds
  <2> QED BY <2>4, <2>5, <2>6 DEF FoldersType, FilterEdit, OrderEdit, Filters
<1>3. ASSUME NEW e \in Editor, UpdateOrder(e) \/ Abandon(e) PROVE FoldersType'
  <2>1. edit' \in [Editor -> {NoEdit} \cup FilterEdit \cup OrderEdit]
    BY <1>3, FoldersKinds DEF UpdateOrder, Abandon
  <2>2. tabs' \in Seq(FolderId)
    <3>1. edit[e].kind = "reorder" => edit[e].write \in Seq(FolderId)
      BY <1>1, FoldersKinds DEF FilterEdit, OrderEdit, Filters
    <3> QED BY <1>3, <3>1 DEF UpdateOrder, Abandon, FoldersType
  <2>3. UNCHANGED <<folders, shared, meant, clashed, edits>>
    BY <1>3 DEF UpdateOrder, Abandon
  <2> QED BY <2>1, <2>2, <2>3 DEF FoldersType, FilterEdit, OrderEdit, Filters
<1>4. CASE UNCHANGED folderVars
  BY <1>4 DEF folderVars, FoldersType
<1>5. \A named \in UNION {[1..n -> FolderId] : n \in 1..MaxNamed} : named \in Seq(FolderId)
  BY SeqDef, FolderIds
<1> QED BY <1>2, <1>3, <1>4, <1>5, ActionsTyped DEF FoldersNext

----------------------------------------------------------------------------
(* A decision that clashes with none leaves the tabs and the orders under  *)
(* way complete.                                                           *)
LEMMA DecideTabs ==
  ASSUME FoldersType, TabsInv, NEW e \in Editor, NEW w, NEW clash \in BOOLEAN,
         Decide(e, w, clash), w.kind \in Filters \cup {"reorder"},
         w.kind \in Filters => (w.write = Gone <=> w.kind = "delete"),
         w.kind \in {"add_chat", "remove_chat"} => w.id \in Visible,
         w.kind = "reorder" /\ ~clashed => Complete(w.write)
  PROVE  TabsInv'
<1>1. /\ edit[e] = NoEdit /\ edit' = [edit EXCEPT ![e] = w]
      /\ UNCHANGED <<folders, shared, tabs, meant>>
  BY DEF Decide
<1>2. edit'[e] = w /\ \A d \in Editor : d # e => edit'[d] = edit[d]
  BY <1>1 DEF FoldersType
<1>3. Visible' = Visible
  BY <1>1 DEF Visible
<1>4. \A d \in Editor : edit'[d].kind \in Filters => (edit'[d].write = Gone <=> edit'[d].kind = "delete")
  BY <1>2 DEF TabsInv
<1>5. ASSUME ~clashed'
      PROVE  ~clashed /\ ~Clash(w)
  BY <1>5, Zenon DEF Decide
<1>6. ASSUME ~Clash(w), NEW d \in Editor, "reorder" \in {edit[d].kind, w.kind}
      PROVE  {edit[d].kind, w.kind} \cap {"create", "delete"} = {}
  <2>1. CASE edit[d] = NoEdit
    BY <1>6, <2>1 DEF NoEdit
  <2>2. CASE edit[d] # NoEdit
    BY <1>6, <2>2 DEF Clash
  <2> QED BY <2>1, <2>2
<1>7. ASSUME ~clashed', NEW c \in Editor, NEW d \in Editor, edit'[c].kind = "reorder"
      PROVE  edit'[d].kind \notin {"create", "delete"}
  <2>1. CASE c # e /\ d # e
    BY <1>2, <1>5, <1>7, <2>1 DEF TabsInv
  <2>2. CASE c = e
    <3>1. CASE d = e
      BY <1>7, <2>2, <3>1
    <3>2. CASE d # e
      BY <1>2, <1>5, <1>6, <1>7, <2>2, <3>2
    <3> QED BY <3>1, <3>2
  <2>3. CASE c # e /\ d = e
    BY <1>2, <1>5, <1>6, <1>7, <2>3
  <2> QED BY <2>1, <2>2, <2>3
<1>8. ASSUME ~clashed', NEW d \in Editor, edit'[d].kind \in {"add_chat", "remove_chat"}
      PROVE  edit'[d].id \in Visible
  BY <1>2, <1>5, <1>8 DEF TabsInv
<1>9. ASSUME ~clashed', NEW d \in Editor, edit'[d].kind = "reorder"
      PROVE  Complete(edit[d].write)'
  <2>1. Named(edit'[d].write) = Visible /\ NoRepeat(edit'[d].write)
    BY <1>2, <1>5, <1>9 DEF TabsInv, Complete
  <2> QED BY <1>3, <2>1 DEF Complete, Named, NoRepeat
<1>10. ~clashed' => Complete(tabs)'
  BY <1>1, <1>3, <1>5 DEF TabsInv, Complete, Named, NoRepeat
<1> QED BY <1>3, <1>4, <1>7, <1>8, <1>9, <1>10 DEF TabsInv

(* Every action decides so.                                                *)
LEMMA ActionsTabs ==
  ASSUME FoldersType, TabsInv, NEW e \in Editor
  PROVE  /\ \A cs \in SUBSET Item : CreateFolder(e, cs) => TabsInv'
         /\ \A i \in FolderId : DeleteFolder(e, i) => TabsInv'
         /\ \A i \in FolderId, c \in Item : AddChat(e, i, c) => TabsInv'
         /\ \A i \in FolderId, c \in Item : RemoveChat(e, i, c) => TabsInv'
         /\ \A named \in Seq(FolderId) : ReorderFolders(e, named) => TabsInv'
<1>1. ASSUME NEW cs \in SUBSET Item, CreateFolder(e, cs) PROVE TabsInv'
  <2> DEFINE w == [kind |-> "create", id |-> NextFolderID, write |-> cs, chats |-> cs]
  <2>1. Decide(e, w, NextFolderID \in shared) /\ (NextFolderID \in shared) \in BOOLEAN
    BY <1>1 DEF CreateFolder
  <2>2. w.kind = "create" /\ w.write # Gone
    BY FolderIds
  <2> HIDE DEF w
  <2> QED BY <2>1, <2>2, DecideTabs DEF Filters
<1>2. ASSUME NEW i \in FolderId, DeleteFolder(e, i) PROVE TabsInv'
  <2> DEFINE w == [kind |-> "delete", id |-> i, write |-> Gone, chats |-> {}]
  <2>1. Decide(e, w, FALSE)
    BY <1>2 DEF DeleteFolder
  <2>2. w.kind = "delete" /\ w.write = Gone
    OBVIOUS
  <2> HIDE DEF w
  <2> QED BY <2>1, <2>2, DecideTabs DEF Filters
<1>3. ASSUME NEW i \in Visible PROVE folders[i] \in SUBSET Item
  <2>1. i \in FolderId /\ folders[i] # Gone
    BY DEF Visible
  <2>2. folders[i] \in (SUBSET Item) \cup {Gone}
    BY <2>1 DEF FoldersType, Contents
  <2> QED BY <2>1, <2>2
<1>4. ASSUME NEW i \in FolderId, NEW c \in Item, AddChat(e, i, c) PROVE TabsInv'
  <2> DEFINE w == [kind |-> "add_chat", id |-> i, write |-> folders[i] \cup {c}, chats |-> {c}]
  <2>1. Decide(e, w, FALSE) /\ i \in Visible
    BY <1>4 DEF AddChat
  <2>2. folders[i] \cup {c} \in SUBSET Item
    BY <1>3, <2>1
  <2>3. w.kind = "add_chat" /\ w.id = i /\ w.write # Gone
    BY <2>2, FolderIds
  <2> HIDE DEF w
  <2> QED BY <2>1, <2>3, DecideTabs DEF Filters
<1>5. ASSUME NEW i \in FolderId, NEW c \in Item, RemoveChat(e, i, c) PROVE TabsInv'
  <2> DEFINE w == [kind |-> "remove_chat", id |-> i, write |-> folders[i] \ {c}, chats |-> {c}]
  <2>1. Decide(e, w, FALSE) /\ i \in Visible
    BY <1>5 DEF RemoveChat
  <2>2. folders[i] \ {c} \in SUBSET Item
    BY <1>3, <2>1
  <2>3. w.kind = "remove_chat" /\ w.id = i /\ w.write # Gone
    BY <2>2, FolderIds
  <2> HIDE DEF w
  <2> QED BY <2>1, <2>3, DecideTabs DEF Filters
<1>6. ASSUME NEW named \in Seq(FolderId), ReorderFolders(e, named) PROVE TabsInv'
  <2> DEFINE w == [kind |-> "reorder", write |-> Ordered(named)]
  <2>1. Decide(e, w, FALSE) /\ Named(named) \subseteq Visible
    BY <1>6 DEF ReorderFolders, Named
  <2>2. w.kind = "reorder" /\ w.write = Ordered(named)
    OBVIOUS
  <2> HIDE DEF w
  <2>3. ~clashed => Complete(w.write)
    BY <2>1, <2>2, OrderComplete DEF TabsInv
  <2> QED BY <2>1, <2>2, <2>3, DecideTabs DEF Filters
<1> QED BY <1>1, <1>2, <1>4, <1>5, <1>6

(* A write of a folder leaves the tabs with the folders there are then.    *)
LEMMA UpdateTabs ==
  ASSUME FoldersType, FoldersInv, TabsInv, NEW e \in Editor, UpdateFilter(e)
  PROVE  TabsInv'
<1> DEFINE w == edit[e]
<1>1. NoEdit.kind = "none"
  BY DEF NoEdit
<1>2. w \in FilterEdit
  BY <1>1, FoldersKinds DEF UpdateFilter, OrderEdit
<1>3. w.id \in FolderId /\ w.write \in Contents /\ w.kind \in Filters /\ edit[e] = w
  BY <1>2 DEF FilterEdit
<1>4. /\ folders' = [folders EXCEPT ![w.id] = w.write]
      /\ shared' = shared \ {w.id}
      /\ edit' = [edit EXCEPT ![e] = NoEdit]
      /\ UNCHANGED <<clashed, edits>>
      /\ w.write = Gone => tabs' = Without(tabs, w.id)
      /\ w.write # Gone /\ w.id \in Named(tabs) => tabs' = tabs
      /\ w.write # Gone /\ w.id \notin Named(tabs) => tabs' = Append(tabs, w.id)
  <2>1. w.id \in Named(tabs) <=> \E k \in DOMAIN tabs : tabs[k] = w.id
    BY DEF Named
  <2>2. tabs' = CASE w.write = Gone -> Without(tabs, w.id)
                  [] w.write # Gone /\ (\E k \in DOMAIN tabs : tabs[k] = w.id) -> tabs
                  [] OTHER -> Append(tabs, w.id)
    BY DEF UpdateFilter
  <2>3. /\ folders' = [folders EXCEPT ![w.id] = w.write]
        /\ shared' = shared \ {w.id}
        /\ edit' = [edit EXCEPT ![e] = NoEdit]
        /\ UNCHANGED <<clashed, edits>>
    BY DEF UpdateFilter
  <2> HIDE DEF w
  <2>4. w.write = Gone => tabs' = Without(tabs, w.id)
    BY <2>2
  <2>5. w.write # Gone /\ w.id \in Named(tabs) => tabs' = tabs
    BY <2>1, <2>2
  <2>6. w.write # Gone /\ w.id \notin Named(tabs) => tabs' = Append(tabs, w.id)
    BY <2>1, <2>2
  <2> QED BY <2>3, <2>4, <2>5, <2>6
<1> HIDE DEF w
<1>5. edit'[e] = NoEdit /\ \A d \in Editor : d # e => edit'[d] = edit[d]
  BY <1>4 DEF FoldersType
<1>6. Visible' = IF w.write = Gone THEN Visible \ {w.id} ELSE Visible \cup {w.id}
  BY <1>3, <1>4 DEF Visible, FoldersType
<1>7. tabs \in Seq(FolderId)
  BY DEF FoldersType
<1>8. ASSUME ~clashed PROVE Named(tabs') = Visible' /\ NoRepeat(tabs')
  <2>1. Named(tabs) = Visible /\ NoRepeat(tabs)
    BY <1>8 DEF TabsInv, Complete
  <2>2. CASE w.write = Gone
    BY <1>3, <1>4, <1>6, <1>7, <2>1, <2>2, TabsAfter
  <2>3. CASE w.write # Gone /\ w.id \in Named(tabs)
    <3>1. tabs' = tabs /\ Visible' = Visible
      BY <1>4, <1>6, <2>1, <2>3
    <3> QED BY <2>1, <3>1
  <2>4. CASE w.write # Gone /\ w.id \notin Named(tabs)
    <3>1. tabs' = Append(tabs, w.id) /\ Visible' = Named(tabs) \cup {w.id}
      BY <1>4, <1>6, <2>1, <2>4
    <3> QED BY <1>3, <1>7, <2>1, <2>4, <3>1, TabsAfter
  <2> QED BY <2>2, <2>3, <2>4
<1>9. ASSUME ~clashed, NEW d \in Editor, d # e, edit[d].kind = "reorder" PROVE Visible' = Visible
  <2>1. w.kind \notin {"create", "delete"}
    BY <1>3, <1>9 DEF TabsInv
  <2>2. w.kind \in {"add_chat", "remove_chat"} /\ w.write # Gone
    BY <1>3, <2>1 DEF Filters, TabsInv
  <2>3. w.id \in Visible
    BY <1>3, <1>9, <2>2 DEF TabsInv
  <2> QED BY <1>6, <2>2, <2>3
<1>10. ASSUME ~clashed, NEW d \in Editor, d # e, edit[d].kind \in {"add_chat", "remove_chat"}
       PROVE  edit[d].id \in Visible'
  <2>1. edit[d].id \in Visible
    BY <1>10 DEF TabsInv
  <2>2. edit[d].id # w.id
    BY <1>3, <1>10 DEF FoldersInv, FoldersAgree, Apart, Filters
  <2> QED BY <1>6, <2>1, <2>2
<1>11. \A d \in Editor : edit'[d].kind \in Filters => (edit'[d].write = Gone <=> edit'[d].kind = "delete")
  BY <1>1, <1>5 DEF TabsInv, Filters
<1>12. ASSUME ~clashed', NEW d \in Editor, edit'[d].kind = "reorder" PROVE Complete(edit[d].write)'
  <2>1. d # e /\ edit'[d] = edit[d] /\ ~clashed
    BY <1>1, <1>4, <1>5, <1>12
  <2>2. Complete(edit[d].write) /\ Visible' = Visible
    BY <1>9, <1>12, <2>1 DEF TabsInv
  <2> QED BY <2>1, <2>2 DEF Complete, Named, NoRepeat
<1>13. ASSUME ~clashed', NEW d \in Editor, edit'[d].kind \in {"add_chat", "remove_chat"}
       PROVE  edit'[d].id \in Visible'
  BY <1>1, <1>4, <1>5, <1>10, <1>13
<1>14. ASSUME ~clashed', NEW c \in Editor, NEW d \in Editor, edit'[c].kind = "reorder"
       PROVE  edit'[d].kind \notin {"create", "delete"}
  BY <1>1, <1>4, <1>5, <1>14 DEF TabsInv
<1>15. ~clashed' => Complete(tabs)'
  BY <1>4, <1>8 DEF Complete, Named, NoRepeat
<1> QED BY <1>11, <1>12, <1>13, <1>14, <1>15 DEF TabsInv

(* A finished or abandoned order leaves the tabs complete.                 *)
LEMMA OrderTabs ==
  ASSUME FoldersType, TabsInv, NEW e \in Editor, UpdateOrder(e) \/ Abandon(e)
  PROVE  TabsInv'
<1>1. NoEdit.kind = "none"
  BY DEF NoEdit
<1>2. edit'[e] = NoEdit /\ \A d \in Editor : d # e => edit'[d] = edit[d]
  BY DEF UpdateOrder, Abandon, FoldersType
<1>3. UNCHANGED <<folders, shared, clashed>> /\ Visible' = Visible
  BY DEF UpdateOrder, Abandon, Visible
<1>4. tabs' = tabs \/ (edit[e].kind = "reorder" /\ tabs' = edit[e].write)
  BY DEF UpdateOrder, Abandon
<1>5. \A d \in Editor : edit'[d].kind \in Filters => (edit'[d].write = Gone <=> edit'[d].kind = "delete")
  BY <1>1, <1>2 DEF TabsInv, Filters
<1>6. ASSUME ~clashed', NEW d \in Editor, edit'[d].kind = "reorder" PROVE Complete(edit[d].write)'
  BY <1>1, <1>2, <1>3, <1>6 DEF TabsInv, Complete, Named, NoRepeat
<1>7. ASSUME ~clashed', NEW d \in Editor, edit'[d].kind \in {"add_chat", "remove_chat"}
      PROVE  edit'[d].id \in Visible'
  BY <1>1, <1>2, <1>3, <1>7 DEF TabsInv
<1>8. ASSUME ~clashed', NEW c \in Editor, NEW d \in Editor, edit'[c].kind = "reorder"
      PROVE  edit'[d].kind \notin {"create", "delete"}
  BY <1>1, <1>2, <1>3, <1>8 DEF TabsInv
<1>9. ~clashed' => Complete(tabs)'
  BY <1>3, <1>4 DEF TabsInv, Complete, Named, NoRepeat
<1> QED BY <1>5, <1>6, <1>7, <1>8, <1>9 DEF TabsInv

(* There are no tabs and no folders to edit at first.                      *)
LEMMA TabsInit == FoldersInit => FoldersType /\ TabsInv
<1> SUFFICES ASSUME FoldersInit PROVE FoldersType /\ TabsInv
  OBVIOUS
<1>1. NoEdit.kind = "none"
  BY DEF NoEdit
<1>2. clashed \in BOOLEAN
  BY Zenon DEF FoldersInit
<1>3. folders \in [FolderId -> Contents] /\ meant = folders /\ shared \subseteq FolderId
  BY FolderIds DEF FoldersInit, Contents
<1>4. FoldersType
  BY <1>2, <1>3 DEF FoldersInit, FoldersType
<1>5. Visible = {} /\ Named(tabs) = {} /\ NoRepeat(tabs)
  BY FolderIds DEF FoldersInit, Visible, Named, NoRepeat
<1>6. \A e \in Editor : edit[e].kind = "none"
  BY <1>1 DEF FoldersInit
<1> QED BY <1>4, <1>5, <1>6 DEF TabsInv, Complete, Filters

LEMMA TabsStep == FoldersType /\ FoldersInv /\ TabsInv /\ [FoldersNext]_folderVars
                    => FoldersType' /\ TabsInv'
<1> SUFFICES ASSUME FoldersType, FoldersInv, TabsInv, [FoldersNext]_folderVars
             PROVE  FoldersType' /\ TabsInv'
  OBVIOUS
<1>1. FoldersType'
  BY FoldersTypeStep
<1>2. CASE UNCHANGED folderVars
  BY <1>1, <1>2 DEF folderVars, TabsInv, Complete, Named, NoRepeat, Visible
<1>3. \A named \in UNION {[1..n -> FolderId] : n \in 1..MaxNamed} : named \in Seq(FolderId)
  BY SeqDef, FolderIds
<1> QED BY <1>1, <1>2, <1>3, ActionsTabs, UpdateTabs, OrderTabs DEF FoldersNext

(* Every reachable state of the folders has its types.                     *)
THEOREM FoldersTypeCorrect == FoldersSpec => []FoldersType
BY TabsInit, TabsStep, FoldersInvInit, FoldersInvStep, PTL DEF FoldersSpec

(* For any editors, folders and reorders: as long as no reorder overlaps   *)
(* with a new or a deleted folder, the tabs name every folder the account  *)
(* can edit exactly once (ReorderFolders).                                 *)
THEOREM TabsStayComplete == FoldersSpec => []TabsComplete
<1>1. TabsInv => TabsComplete
  BY DEF TabsInv, Complete, Named, NoRepeat, TabsComplete
<1> QED BY <1>1, TabsInit, TabsStep, FoldersInvInit, FoldersInvStep, PTL DEF FoldersSpec
----------------------------------------------------------------------------
(* The resume map: as long as nothing disturbed it, one registration is    *)
(* under way at most, and what it has to write back, and the file unless   *)
(* it is emptied, are the last lines ever appended, as many of them as the *)
(* trim keeps or more.                                                     *)
----------------------------------------------------------------------------
IsTail(t, s) == /\ Len(t) <= Len(s)
                /\ \A i \in 1..Len(t) : t[i] = s[Len(s) - Len(t) + i]

KeepsNewest(t) == /\ IsTail(t, log)
                  /\ Len(t) >= maxResumeEntries \/ Len(t) = Len(log)

OneRegisters == \A s, u \in Sender : trimming[s] # "idle" /\ trimming[u] # "idle" => s = u

TrimInv ==
  ~disturbed =>
    /\ OneRegisters
    /\ (\A s \in Sender : trimming[s] # "fill") => KeepsNewest(lines)
    /\ \A s \in Sender : trimming[s] \in {"truncate", "fill"} => KeepsNewest(kept[s])

(* The newest lines of a file that is long enough are the newest of all.   *)
LEMMA NewestProperties ==
  ASSUME NEW S, NEW ls \in Seq(S)
  PROVE  /\ Newest(ls) \in Seq(S)
         /\ IsTail(Newest(ls), ls)
         /\ Len(Newest(ls)) = IF Len(ls) <= maxResumeEntries THEN Len(ls) ELSE maxResumeEntries
<1>1. Len(ls) \in Nat /\ maxResumeEntries \in Nat \ {0}
  BY LenProperties, SomeEntries
<1>2. CASE Len(ls) <= maxResumeEntries
  BY <1>1, <1>2 DEF Newest, IsTail
<1>3. CASE ~(Len(ls) <= maxResumeEntries)
  <2> DEFINE m == Len(ls) - maxResumeEntries + 1
             n == Len(ls)
             t == SubSeq(ls, m, n)
  <2>1. m \in Int /\ n \in Int /\ m <= n /\ n - m + 1 = maxResumeEntries /\ m >= 1
    BY <1>1, <1>3
  <2>2. \A i \in m..n : ls[i] \in S
    BY <1>1, <2>1, ElementOfSeq
  <2>3. Newest(ls) = t
    BY <1>3 DEF Newest
  <2> HIDE DEF m, n
  <2>4. /\ t \in Seq(S)
        /\ Len(t) = IF m <= n THEN n - m + 1 ELSE 0
        /\ \A i \in 1..(n - m + 1) : t[i] = ls[m + i - 1]
    BY <2>1, <2>2, SubSeqProperties
  <2>5. Len(t) = maxResumeEntries
    BY <2>1, <2>4
  <2>6. ASSUME NEW i \in 1..Len(t) PROVE t[i] = ls[Len(ls) - Len(t) + i]
    <3>1. m + i - 1 = Len(ls) - maxResumeEntries + i
      BY <1>1, <2>5 DEF m
    <3> QED BY <2>1, <2>4, <2>5, <3>1
  <2> HIDE DEF t
  <2> QED BY <1>1, <1>3, <2>3, <2>4, <2>5, <2>6 DEF IsTail
<1> QED BY <1>2, <1>3

(* What a trim keeps of such a file is such a file, and so is the file with *)
(* a line more.                                                            *)
LEMMA TailOfTail ==
  ASSUME NEW S, NEW s \in Seq(S), NEW t \in Seq(S), NEW u \in Seq(S), IsTail(t, s), IsTail(u, t)
  PROVE  IsTail(u, s)
<1>1. Len(s) \in Nat /\ Len(t) \in Nat /\ Len(u) \in Nat
  BY LenProperties
<1>2. Len(u) <= Len(s)
  BY <1>1 DEF IsTail
<1>3. ASSUME NEW i \in 1..Len(u) PROVE u[i] = s[Len(s) - Len(u) + i]
  <2>1. u[i] = t[Len(t) - Len(u) + i]
    BY DEF IsTail
  <2>2. Len(t) - Len(u) + i \in 1..Len(t)
    BY <1>1 DEF IsTail
  <2>3. t[Len(t) - Len(u) + i] = s[Len(s) - Len(t) + (Len(t) - Len(u) + i)]
    BY <2>2 DEF IsTail
  <2>4. Len(s) - Len(t) + (Len(t) - Len(u) + i) = Len(s) - Len(u) + i
    BY <1>1
  <2> QED BY <2>1, <2>3, <2>4
<1> QED BY <1>2, <1>3 DEF IsTail

LEMMA AppendTail ==
  ASSUME NEW S, NEW s \in Seq(S), NEW t \in Seq(S), NEW e \in S, IsTail(t, s)
  PROVE  IsTail(Append(t, e), Append(s, e))
<1>1. Len(s) \in Nat /\ Len(t) \in Nat /\ Len(t) <= Len(s)
  BY LenProperties DEF IsTail
<1>2. /\ Len(Append(t, e)) = Len(t) + 1 /\ Len(Append(s, e)) = Len(s) + 1
      /\ \A i \in 1..Len(t) : Append(t, e)[i] = t[i]
      /\ \A i \in 1..Len(s) : Append(s, e)[i] = s[i]
      /\ Append(t, e)[Len(t) + 1] = e /\ Append(s, e)[Len(s) + 1] = e
  BY AppendProperties
<1>3. ASSUME NEW i \in 1..(Len(t) + 1)
      PROVE  Append(t, e)[i] = Append(s, e)[(Len(s) + 1) - (Len(t) + 1) + i]
  <2>1. CASE i = Len(t) + 1
    <3>1. (Len(s) + 1) - (Len(t) + 1) + i = Len(s) + 1
      BY <1>1, <2>1
    <3> QED BY <1>2, <2>1, <3>1
  <2>2. CASE i # Len(t) + 1
    <3>1. i \in 1..Len(t) /\ (Len(s) + 1) - (Len(t) + 1) + i = Len(s) - Len(t) + i
      BY <1>1, <2>2
    <3>2. Len(s) - Len(t) + i \in 1..Len(s)
      BY <1>1, <3>1
    <3>3. t[i] = s[Len(s) - Len(t) + i]
      BY <3>1 DEF IsTail
    <3> QED BY <1>2, <3>1, <3>2, <3>3
  <2> QED BY <2>1, <2>2
<1> QED BY <1>1, <1>2, <1>3 DEF IsTail

(* A message among the last lines is looked up in them as in all lines.    *)
Mine(ls, m) == {i \in 1..Len(ls) : ls[i][1] = m /\ Matches(m, ls[i][2])}

LEMMA GreatestThere ==
  ASSUME NEW n \in Nat, NEW Q \in SUBSET (1..n), NEW q \in Q
  PROVE  \E i \in Q : \A j \in Q : j <= i
<1> DEFINE P == {n - i : i \in Q}
<1>1. P \in SUBSET Nat /\ n - q \in P
  OBVIOUS
<1>2. PICK k \in P : \A l \in P : k <= l
  <2> HIDE DEF P
  <2> QED BY <1>1, LeastThere
<1>3. PICK i \in Q : k = n - i
  OBVIOUS
<1>4. ASSUME NEW j \in Q PROVE j <= i
  <2>1. n - i <= n - j
    BY <1>2, <1>3
  <2>2. i \in Nat /\ j \in Nat
    OBVIOUS
  <2> QED BY <2>1, <2>2
<1> QED BY <1>4

LEMMA LookupFinds ==
  ASSUME NEW S, NEW ls \in Seq(S), NEW m, NEW i \in Mine(ls, m), \A j \in Mine(ls, m) : j <= i
  PROVE  Lookup(ls, m) = ls[i][3]
<1> DEFINE best == CHOOSE h \in Mine(ls, m) : \A j \in Mine(ls, m) : j <= h
<1>1. best \in Mine(ls, m) /\ \A j \in Mine(ls, m) : j <= best
  OBVIOUS
<1>2. Lookup(ls, m) = ls[best][3]
  BY DEF Lookup, Mine
<1> HIDE DEF best
<1>3. best \in Nat /\ i \in Nat /\ best <= i /\ i <= best
  BY <1>1, LenProperties DEF Mine
<1> QED BY <1>2, <1>3

LEMMA LookupInTail ==
  ASSUME NEW S, NEW s \in Seq(S), NEW t \in Seq(S), IsTail(t, s), NEW m, Mine(t, m) # {}
  PROVE  Lookup(t, m) = Lookup(s, m)
<1> DEFINE d == Len(s) - Len(t)
<1>1. Len(s) \in Nat /\ Len(t) \in Nat /\ d \in Nat /\ Len(s) = d + Len(t)
  BY LenProperties DEF IsTail
<1>2. PICK i \in Mine(t, m) : \A j \in Mine(t, m) : j <= i
  <2>1. Mine(t, m) \in SUBSET (1..Len(t))
    BY DEF Mine
  <2> QED BY <1>1, <2>1, GreatestThere
<1>3. \A j \in 1..Len(t) : t[j] = s[d + j]
  BY DEF IsTail
<1> HIDE DEF d
<1>4. i \in 1..Len(t) /\ t[i][1] = m /\ Matches(m, t[i][2])
  BY DEF Mine
<1>5. d + i \in Mine(s, m)
  <2>1. d + i \in 1..Len(s)
    BY <1>1, <1>4
  <2> QED BY <1>3, <1>4, <2>1 DEF Mine
<1>6. ASSUME NEW j \in Mine(s, m) PROVE j <= d + i
  <2>1. j \in 1..Len(s) /\ s[j][1] = m /\ Matches(m, s[j][2])
    BY DEF Mine
  <2>2. CASE j <= d
    BY <1>1, <1>4, <2>1, <2>2
  <2>3. CASE ~(j <= d)
    <3>1. j - d \in 1..Len(t) /\ d + (j - d) = j
      BY <1>1, <2>1, <2>3
    <3>2. j - d \in Mine(t, m)
      BY <1>3, <2>1, <3>1 DEF Mine
    <3>3. j - d <= i
      BY <1>2, <3>2
    <3> QED BY <1>1, <1>4, <2>1, <3>3
  <2> QED BY <2>2, <2>3
<1>7. Lookup(t, m) = t[i][3]
  BY <1>2, LookupFinds
<1>8. Lookup(s, m) = s[d + i][3]
  BY <1>5, <1>6, LookupFinds
<1> QED BY <1>3, <1>4, <1>7, <1>8

(* Every step keeps the types of the resume map.                           *)
LEMMA ResumeTypeStep == ResumeType /\ [ResumeNext]_resumeVars => ResumeType'
<1> SUFFICES ASSUME ResumeType, [ResumeNext]_resumeVars PROVE ResumeType'
  OBVIOUS
<1>1. <<>> \in Seq(Line)
  BY EmptySeq
<1>2. ASSUME NEW s \in Sender, NEW m \in Message, NEW spelling \in Spelling,
             Record(s, m, spelling)
      PROVE  ResumeType'
  <2>1. Len(log) \in Nat /\ Len(log) + 1 \in Session
    <3>1. Len(log) \in Nat /\ MaxLines \in Nat /\ Len(log) < MaxLines
      BY <1>2, LenProperties, SomeEntries DEF ResumeType, Record
    <3> QED BY <3>1 DEF Session
  <2>2. <<m, spelling, Len(log) + 1>> \in Line
    BY <2>1 DEF Line
  <2>3. lines' \in Seq(Line) /\ log' \in Seq(Line)
    BY <1>2, <2>2, AppendProperties DEF ResumeType, Record
  <2>4. trimming' \in [Sender -> {"idle", "read", "truncate", "fill"}] /\ kept' \in [Sender -> Seq(Line)]
    BY <1>2 DEF ResumeType, Record
  <2>5. disturbed' \in BOOLEAN
    BY <1>2, Zenon DEF Record
  <2> QED BY <2>3, <2>4, <2>5 DEF ResumeType
<1>3. ASSUME NEW s \in Sender, ReadLines(s) PROVE ResumeType'
  <2>1. Newest(lines) \in Seq(Line)
    BY NewestProperties DEF ResumeType
  <2> QED BY <1>3, <2>1 DEF ResumeType, ReadLines
<1>4. ASSUME NEW s \in Sender, Truncate(s) \/ WriteBack(s) PROVE ResumeType'
  BY <1>1, <1>4 DEF ResumeType, Truncate, WriteBack
<1>5. ASSUME NEW s \in Sender, Killed(s) PROVE ResumeType'
  <2>1. disturbed' \in BOOLEAN
    BY <1>5, Zenon DEF Killed
  <2> QED BY <1>1, <1>5, <2>1 DEF ResumeType, Killed
<1>6. CASE UNCHANGED resumeVars
  BY <1>6 DEF resumeVars, ResumeType
<1> QED BY <1>2, <1>3, <1>4, <1>5, <1>6 DEF ResumeNext

(* A registration beside no other appends to the file what it appends to   *)
(* all lines.                                                              *)
LEMMA RecordKeeps ==
  ASSUME ResumeType, TrimInv, NEW s \in Sender, NEW m \in Message, NEW spelling \in Spelling,
         Record(s, m, spelling), ResumeType'
  PROVE  TrimInv'
<1> SUFFICES ASSUME ~disturbed'
             PROVE  (/\ OneRegisters
                     /\ (\A u \in Sender : trimming[u] # "fill") => KeepsNewest(lines)
                     /\ \A u \in Sender : trimming[u] \in {"truncate", "fill"}
                                            => KeepsNewest(kept[u]))'
  BY DEF TrimInv
<1>1. ~disturbed /\ \A u \in Sender : trimming[u] = "idle"
  BY Zenon DEF Record
<1>2. trimming'[s] = "read" /\ \A u \in Sender : u # s => trimming'[u] = "idle"
  BY <1>1 DEF Record, ResumeType
<1>3. KeepsNewest(lines)
  BY <1>1 DEF TrimInv
<1> DEFINE e == <<m, spelling, Len(log) + 1>>
<1>4. lines' = Append(lines, e) /\ log' = Append(log, e)
  BY DEF Record
<1>5. e \in Line /\ lines \in Seq(Line) /\ log \in Seq(Line)
  <2>1. Len(log) \in Nat /\ MaxLines \in Nat /\ Len(log) < MaxLines
    BY LenProperties, SomeEntries DEF ResumeType, Record
  <2> QED BY <2>1 DEF ResumeType, Line, Session
<1> HIDE DEF e
<1>6. IsTail(lines', log')
  BY <1>3, <1>4, <1>5, AppendTail DEF KeepsNewest
<1>7. Len(lines') >= maxResumeEntries \/ Len(lines') = Len(log')
  <2>1. /\ Len(lines') = Len(lines) + 1 /\ Len(log') = Len(log) + 1
        /\ Len(lines) \in Nat /\ Len(log) \in Nat /\ maxResumeEntries \in Nat
    BY <1>4, <1>5, AppendProperties, LenProperties, SomeEntries
  <2> QED BY <1>3, <2>1 DEF KeepsNewest
<1> QED BY <1>2, <1>6, <1>7 DEF OneRegisters, KeepsNewest

(* A step of the one registration under way.                               *)
LEMMA TrimKeeps ==
  ASSUME ResumeType, TrimInv, NEW s \in Sender,
         ReadLines(s) \/ Truncate(s) \/ WriteBack(s) \/ Killed(s)
  PROVE  TrimInv'
<1> SUFFICES ASSUME ~disturbed'
             PROVE  (/\ OneRegisters
                     /\ (\A u \in Sender : trimming[u] # "fill") => KeepsNewest(lines)
                     /\ \A u \in Sender : trimming[u] \in {"truncate", "fill"}
                                            => KeepsNewest(kept[u]))'
  BY DEF TrimInv
<1>1. ~disturbed
  BY Zenon DEF ReadLines, Truncate, WriteBack, Killed
<1>2. /\ OneRegisters
      /\ (\A u \in Sender : trimming[u] # "fill") => KeepsNewest(lines)
      /\ \A u \in Sender : trimming[u] \in {"truncate", "fill"} => KeepsNewest(kept[u])
  BY <1>1 DEF TrimInv
<1>3. trimming[s] # "idle" /\ \A u \in Sender : u # s => trimming[u] = "idle"
  BY <1>2 DEF OneRegisters, ReadLines, Truncate, WriteBack, Killed
<1>4. \A u \in Sender : u # s => trimming'[u] = "idle"
  BY <1>3 DEF ReadLines, Truncate, WriteBack, Killed, ResumeType
<1>5. log' = log /\ lines \in Seq(Line) /\ log \in Seq(Line)
  BY DEF ReadLines, Truncate, WriteBack, Killed, ResumeType
<1>6. OneRegisters'
  BY <1>4 DEF OneRegisters
<1>7. CASE ReadLines(s)
  <2>1. KeepsNewest(lines) /\ lines' = lines
    BY <1>2, <1>3, <1>7 DEF ReadLines
  <2>2. KeepsNewest(Newest(lines))
    <3>1. /\ Newest(lines) \in Seq(Line) /\ IsTail(Newest(lines), lines)
          /\ Len(Newest(lines)) = IF Len(lines) <= maxResumeEntries THEN Len(lines)
                                  ELSE maxResumeEntries
      BY <1>5, NewestProperties
    <3>2. IsTail(Newest(lines), log)
      BY <1>5, <2>1, <3>1, TailOfTail DEF KeepsNewest
    <3>3. Len(lines) \in Nat /\ Len(log) \in Nat /\ maxResumeEntries \in Nat
      BY <1>5, LenProperties, SomeEntries
    <3>4. Len(Newest(lines)) >= maxResumeEntries \/ Len(Newest(lines)) = Len(log)
      BY <2>1, <3>1, <3>3 DEF KeepsNewest
    <3> QED BY <3>2, <3>4 DEF KeepsNewest
  <2>3. trimming'[s] = "idle" \/ (trimming'[s] = "truncate" /\ kept'[s] = Newest(lines))
    BY <1>7 DEF ReadLines, ResumeType
  <2>4. ASSUME NEW u \in Sender, trimming'[u] \in {"truncate", "fill"} PROVE KeepsNewest(kept'[u])
    BY <1>4, <2>2, <2>3, <2>4
  <2> QED BY <1>5, <1>6, <2>1, <2>4 DEF KeepsNewest
<1>8. CASE Truncate(s)
  <2>1. trimming'[s] = "fill" /\ trimming[s] = "truncate" /\ kept' = kept
    BY <1>8 DEF Truncate, ResumeType
  <2> QED BY <1>2, <1>4, <1>5, <1>6, <2>1 DEF KeepsNewest
<1>9. CASE WriteBack(s)
  <2>1. trimming'[s] = "idle" /\ trimming[s] = "fill" /\ lines' = kept[s]
    BY <1>9 DEF WriteBack, ResumeType
  <2> QED BY <1>2, <1>4, <1>5, <1>6, <2>1 DEF KeepsNewest
<1>10. CASE Killed(s)
  <2>1. trimming'[s] = "idle" /\ trimming[s] # "fill" /\ lines' = lines
    BY <1>10, Zenon DEF Killed, ResumeType
  <2> QED BY <1>2, <1>3, <1>4, <1>5, <1>6, <2>1 DEF KeepsNewest
<1> QED BY <1>7, <1>8, <1>9, <1>10

(* The map is empty at first.                                              *)
LEMMA ResumeInvInit == ResumeInit => ResumeType /\ TrimInv
<1> SUFFICES ASSUME ResumeInit PROVE ResumeType /\ TrimInv
  OBVIOUS
<1>1. <<>> \in Seq(Line) /\ Len(<<>>) = 0
  BY EmptySeq
<1>2. disturbed \in BOOLEAN
  BY Zenon DEF ResumeInit
<1>3. ResumeType
  BY <1>1, <1>2 DEF ResumeInit, ResumeType
<1>4. \A s \in Sender : trimming[s] = "idle"
  BY DEF ResumeInit
<1>5. KeepsNewest(lines)
  BY <1>1 DEF ResumeInit, KeepsNewest, IsTail
<1> QED BY <1>3, <1>4, <1>5 DEF TrimInv, OneRegisters

LEMMA ResumeInvStep == ResumeType /\ TrimInv /\ [ResumeNext]_resumeVars => ResumeType' /\ TrimInv'
<1> SUFFICES ASSUME ResumeType, TrimInv, [ResumeNext]_resumeVars PROVE ResumeType' /\ TrimInv'
  OBVIOUS
<1>1. ResumeType'
  BY ResumeTypeStep
<1>2. CASE UNCHANGED resumeVars
  BY <1>1, <1>2 DEF resumeVars, TrimInv, OneRegisters, KeepsNewest
<1> QED BY <1>1, <1>2, RecordKeeps, TrimKeeps DEF ResumeNext

(* Every reachable state of the resume map has its types.                  *)
THEOREM ResumeTypeCorrect == ResumeSpec => []ResumeType
BY ResumeInvInit, ResumeInvStep, PTL DEF ResumeSpec

(* For any senders, messages, length of the map and number of              *)
(* registrations, whatever the chat ids: unless two registrations          *)
(* overlapped or the process died inside the rewrite, a press is handed    *)
(* the last of those for its message whose chat id prints like its own, as *)
(* long as that one is among the newest maxResumeEntries of all            *)
(* (RecordResumeSession, trimResumeMap, LookupResumeSession).              *)
THEOREM NewestSessionIsFound == ResumeSpec => []NewestSessionFound
<1>1. ResumeType /\ TrimInv => NewestSessionFound
  <2> SUFFICES ASSUME ResumeType, TrimInv, ~disturbed, \A s \in Sender : trimming[s] # "fill",
                      NEW m \in Message, Lookup(Newest(log), m) # 0
               PROVE  Lookup(lines, m) = Lookup(log, m)
    BY DEF NewestSessionFound
  <2>1. KeepsNewest(lines) /\ lines \in Seq(Line) /\ log \in Seq(Line)
    BY DEF TrimInv, ResumeType
  <2> DEFINE t == Newest(log)
  <2>2. /\ t \in Seq(Line) /\ IsTail(t, log)
        /\ Len(t) = IF Len(log) <= maxResumeEntries THEN Len(log) ELSE maxResumeEntries
    BY <2>1, NewestProperties
  <2>3. Mine(t, m) # {}
    BY DEF Mine, Lookup
  <2>4. PICK i \in Mine(t, m) : TRUE
    BY <2>3
  <2> HIDE DEF t
  <2>5. /\ i \in 1..Len(t) /\ t[i][1] = m /\ Matches(m, t[i][2])
        /\ t[i] = log[Len(log) - Len(t) + i]
    BY <2>2, <2>4 DEF Mine, IsTail
  <2>6. /\ Len(lines) \in Nat /\ Len(log) \in Nat /\ Len(t) \in Nat /\ maxResumeEntries \in Nat
        /\ Len(t) <= Len(lines) /\ Len(lines) <= Len(log)
    <3>1. Len(lines) \in Nat /\ Len(log) \in Nat /\ Len(t) \in Nat /\ maxResumeEntries \in Nat
      BY <2>1, <2>2, LenProperties, SomeEntries
    <3> QED BY <2>1, <2>2, <3>1 DEF KeepsNewest, IsTail
  <2> DEFINE j == Len(lines) - Len(t) + i
  <2>7. j \in 1..Len(lines) /\ Len(log) - Len(lines) + j = Len(log) - Len(t) + i
    BY <2>5, <2>6
  <2> HIDE DEF j
  <2>8. lines[j] = t[i]
    BY <2>1, <2>5, <2>7 DEF KeepsNewest, IsTail
  <2>9. Mine(lines, m) # {}
    BY <2>5, <2>7, <2>8 DEF Mine
  <2> QED BY <2>1, <2>9, LookupInTail DEF KeepsNewest
<1> QED BY <1>1, ResumeInvInit, ResumeInvStep, PTL DEF ResumeSpec
=============================================================================
