------------------------------ MODULE Folders ------------------------------
(***************************************************************************)
(* Chat folders.  Telegram stores a folder whole, so every action reads    *)
(* the folders, changes its copy and writes one folder, or the order of    *)
(* all, back; another client of the account may write in between.  Shared  *)
(* folders (chat lists) are there too, but dialogFilters leaves them out.  *)
(***************************************************************************)
EXTENDS Naturals, Sequences, FiniteSets

CONSTANTS
  Editor,     \* folder calls of this server, and other clients of the account
  FolderId,   \* 2..255 in the code
  Item,       \* chats
  Shared,     \* ids of the shared folders at first
  Gone,       \* the value of an id without a folder
  MaxEdits,   \* bound: edits begun
  MaxNamed    \* bound: ids a reorder names

ASSUME FolderIds == /\ FolderId \subseteq Nat /\ Shared \subseteq FolderId
                    /\ \A cs \in SUBSET Item : Gone # cs
                    /\ MaxNamed \in Nat

VARIABLES
  folders,    \* Telegram: the chats of each folder, Gone without one
  shared,     \* Telegram: the ids of shared folders
  tabs,       \* Telegram: the order of the folders
  edit,       \* per editor: NoEdit, or the write it is about to make
  meant,      \* the folders as the finished edits, one after another, describe them
  clashed,    \* two edits under way met, or a new folder took a shared id
  edits

folderVars == <<folders, shared, tabs, edit, meant, clashed, edits>>

Contents == (SUBSET Item) \cup {Gone}
NoEdit   == [kind |-> "none"]

FoldersType ==
  /\ folders \in [FolderId -> Contents] /\ meant \in [FolderId -> Contents]
  /\ shared \subseteq FolderId
  /\ tabs \in Seq(FolderId)
  /\ edit \in [Editor -> {NoEdit}
       \cup [kind : {"create", "delete", "add_chat", "remove_chat"}, id : FolderId,
             write : Contents, chats : SUBSET Item]
       \cup [kind : {"reorder"}, write : Seq(FolderId)]]
  /\ clashed \in BOOLEAN
  /\ edits \in Nat

FoldersInit ==
  /\ folders = [i \in FolderId |-> IF i \in Shared THEN {} ELSE Gone]
  /\ shared = Shared /\ tabs = <<>>
  /\ edit = [e \in Editor |-> NoEdit]
  /\ meant = folders
  /\ clashed = FALSE /\ edits = 0

(* dialogFilters, findFolder.                                              *)
Visible == {i \in FolderId \ shared : folders[i] # Gone}

(* nextFolderID, over the folders it sees.                                 *)
Free         == FolderId \ Visible
FromZero     == CHOOSE i \in (0..255) \ Visible : \A j \in (0..255) \ Visible : i <= j
NextFolderID == CHOOSE i \in Free : \A j \in Free : i <= j

(* Two edits that would undo each other whoever comes first: of the same   *)
(* folder, or of the order and of what there is to order.                  *)
Clash(w) ==
  \E v \in {edit[e] : e \in Editor} \ {NoEdit} :
    IF "reorder" \in {v.kind, w.kind}
    THEN {v.kind, w.kind} \cap {"create", "delete"} # {}
    ELSE v.id = w.id

(* An action has read the folders and decided what to write; a chat that   *)
(* is in the folder already, or not in it, and an unknown id end it before.*)
Decide(e, w, clash) ==
  /\ edit[e] = NoEdit /\ edits < MaxEdits
  /\ edit' = [edit EXCEPT ![e] = w]
  /\ edits' = edits + 1
  /\ clashed' = (clashed \/ clash \/ Clash(w))
  /\ UNCHANGED <<folders, shared, tabs, meant>>

CreateFolder(e, cs) ==
  /\ Free # {}
  /\ Decide(e, [kind |-> "create", id |-> NextFolderID, write |-> cs, chats |-> cs],
            NextFolderID \in shared)

DeleteFolder(e, i) ==
  /\ i \in Visible
  /\ Decide(e, [kind |-> "delete", id |-> i, write |-> Gone, chats |-> {}], FALSE)

PutChat(e, i, c) ==
  /\ i \in Visible /\ c \notin folders[i]
  /\ Decide(e, [kind |-> "add_chat", id |-> i, write |-> {c}, chats |-> {c}], FALSE)

AddChat(e, i, c) ==
  /\ i \in Visible /\ c \notin folders[i]
  /\ Decide(e, [kind |-> "add_chat", id |-> i, write |-> folders[i] \cup {c},
                chats |-> {c}], FALSE)

RemoveChat(e, i, c) ==
  /\ i \in Visible /\ c \in folders[i]
  /\ Decide(e, [kind |-> "remove_chat", id |-> i, write |-> folders[i] \ {c},
                chats |-> {c}], FALSE)

(* The elements of s at the positions P, in their order.                   *)
Nth(P, k)     == CHOOSE i \in P : Cardinality({j \in P : j <= i}) = k
Pick(s, P)    == [k \in 1..Cardinality(P) |-> s[Nth(P, k)]]
Without(s, i) == Pick(s, {k \in DOMAIN s : s[k] # i})

(* The ids named, each where it is named first, then the others in the     *)
(* order they had.                                                         *)
Firsts(named) == {i \in DOMAIN named : \A j \in 1..(i - 1) : named[j] # named[i]}

Others(named) == {k \in DOMAIN tabs : /\ tabs[k] \in Visible
                                      /\ \A j \in DOMAIN named : named[j] # tabs[k]}

Repeated(named) == named \o Pick(tabs, Others(named))

Ordered(named) == Pick(named, Firsts(named)) \o Pick(tabs, Others(named))

ReorderFolders(e, named) ==
  /\ named # <<>> /\ \A i \in DOMAIN named : named[i] \in Visible
  /\ Decide(e, [kind |-> "reorder", write |-> Ordered(named)], FALSE)

----------------------------------------------------------------------------
(* What the edit, on its own, is asked to make of the folders.             *)
Asked(w) ==
  CASE w.kind = "create"      -> w.chats
    [] w.kind = "delete"      -> Gone
    [] w.kind = "add_chat"    -> IF meant[w.id] = Gone THEN w.chats
                                 ELSE meant[w.id] \cup w.chats
    [] w.kind = "remove_chat" -> IF meant[w.id] = Gone THEN Gone
                                 ELSE meant[w.id] \ w.chats

(* Telegram replaces the folder, or adds it as the last tab, or drops it.  *)
UpdateFilter(e) ==
  LET w == edit[e] IN
      /\ w.kind \notin {"none", "reorder"}
      /\ folders' = [folders EXCEPT ![w.id] = w.write]
      /\ shared' = shared \ {w.id}
      /\ tabs' = CASE w.write = Gone -> Without(tabs, w.id)
                   [] w.write # Gone /\ (\E k \in DOMAIN tabs : tabs[k] = w.id) -> tabs
                   [] OTHER -> Append(tabs, w.id)
      /\ meant' = [meant EXCEPT ![w.id] = Asked(w)]
      /\ edit' = [edit EXCEPT ![e] = NoEdit]
      /\ UNCHANGED <<clashed, edits>>

UpdateOrder(e) ==
  /\ edit[e].kind = "reorder"
  /\ tabs' = edit[e].write
  /\ edit' = [edit EXCEPT ![e] = NoEdit]
  /\ UNCHANGED <<folders, shared, meant, clashed, edits>>

(* The request is refused, or its editor dies before it.                   *)
Abandon(e) ==
  /\ edit[e] # NoEdit
  /\ edit' = [edit EXCEPT ![e] = NoEdit]
  /\ UNCHANGED <<folders, shared, tabs, meant, clashed, edits>>

FoldersNext ==
  \E e \in Editor :
    \/ \E cs \in SUBSET Item : CreateFolder(e, cs)
    \/ \E i \in FolderId : DeleteFolder(e, i)
    \/ \E i \in FolderId, c \in Item : AddChat(e, i, c) \/ RemoveChat(e, i, c)
    \/ \E named \in UNION {[1..n -> FolderId] : n \in 1..MaxNamed} : ReorderFolders(e, named)
    \/ UpdateFilter(e) \/ UpdateOrder(e) \/ Abandon(e)

FoldersSpec == FoldersInit /\ [][FoldersNext]_folderVars

----------------------------------------------------------------------------
(* As long as no two edits of one folder overlap and no new folder takes   *)
(* the id of a shared one, the folders are what the finished edits ask     *)
(* for, one after another: an edit neither undoes nor loses what another   *)
(* did to another folder meanwhile (CreateFolder, SetFolderChat,           *)
(* DeleteFolder).                                                          *)
EditsLand == ~clashed => folders = meant

(* As long as no reorder overlaps with a new or a deleted folder, the tabs *)
(* name every folder the account can edit exactly once, whatever ids a     *)
(* reorder named, twice or not at all (ReorderFolders).                    *)
TabsComplete ==
  ~clashed => /\ {tabs[k] : k \in DOMAIN tabs} = Visible
              /\ \A j, k \in DOMAIN tabs : tabs[j] = tabs[k] => j = k
=============================================================================
