------------------------------- MODULE Peers -------------------------------
(***************************************************************************)
(* How UserBackend turns a numeric id into a peer: the peer manager's      *)
(* store, the index the sweeps fill, and the sweep itself, which walks the *)
(* folders, the contacts, the chat list and the archive until the id is    *)
(* there and is held back for peerSweepInterval after the last one.        *)
(*                                                                         *)
(* The ids are those of people, channels and supergroups, which cannot be  *)
(* addressed without an access hash; a basic group needs none.             *)
(***************************************************************************)
EXTENDS Naturals

CONSTANTS
  Seeker,    \* calls that resolve an id
  Peer,      \* ids
  NoPeer,
  Place,     \* Place[p]: the source that lists p, 1..4; 0 beyond every source
  MaxNews,   \* bound: chats that appear
  MaxClears, \* bound: uses of cache_clear
  MaxSeeks   \* bound: resolutions

Source == 1..4      \* the folders, the contacts, the chat list, the archive

ASSUME PlaceType == Place \in [Peer -> 0..4]

VARIABLES
  account,   \* the chats the account has
  store,     \* ids the peer manager resolves
  index,     \* knownPeers
  recent,    \* sweptAt lies less than peerSweepInterval back
  sweeper,   \* who holds sweepMu: set of at most one call
  seek,      \* per call: how far it is
  want,      \* per call: the id it resolves
  had,       \* per call: the Standing of the id when the call began
  excuse,    \* per call: what kept the sweep from being complete
  shown,     \* per kind of result: the ids such results have handed out with their
             \* hashes since the caches were cleared
  clear,     \* cache_clear: "idle", or "half" with sweptAt still to be reset
  news, clears, seeks

peerVars == <<account, store, index, recent, sweeper, seek, want, had, excuse, shown,
              clear, news, clears, seeks>>

Excuse == {"held back", "request failed", "cleared"}
Kind   == {"list", "folder"}
Stage  == ({"idle", "lookup", "recall", "miss", "recall again", "lookup again", "unknown"}
             \X {0}) \cup ({"sweep"} \X Source)

PeersType ==
  /\ account \subseteq Peer /\ store \subseteq Peer /\ index \subseteq Peer
  /\ shown \in [Kind -> SUBSET Peer]
  /\ recent \in BOOLEAN
  /\ sweeper \subseteq Seeker
  /\ seek \in [Seeker -> Stage]
  /\ want \in [Seeker -> Peer \cup {NoPeer}]
  /\ had \in [Seeker -> SUBSET (Kind \cup {"account"})]
  /\ excuse \in [Seeker -> SUBSET Excuse]
  /\ clear \in {"idle", "half"}
  /\ news \in Nat /\ clears \in Nat /\ seeks \in Nat

At(s)    == <<s, 0>>
Sweep(n) == <<"sweep", n>>

PeersInit ==
  /\ account = {p \in Peer : Place[p] # 1}
  /\ store = {} /\ index = {} /\ shown = [kind \in Kind |-> {}]
  /\ recent = FALSE /\ sweeper = {}
  /\ seek = [c \in Seeker |-> At("idle")]
  /\ want = [c \in Seeker |-> NoPeer]
  /\ had = [c \in Seeker |-> {}]
  /\ excuse = [c \in Seeker |-> {}]
  /\ clear = "idle"
  /\ news = 0 /\ clears = 0 /\ seeks = 0

calls == <<seek, want, had, excuse, seeks>>

----------------------------------------------------------------------------
(* What else happens to the account and the caches.                        *)

Appear(p) ==
  /\ news < MaxNews /\ p \notin account
  /\ account' = account \cup {p} /\ news' = news + 1
  /\ UNCHANGED <<store, index, recent, sweeper, shown, clear, clears>> /\ UNCHANGED calls

(* rememberPeers: a chat list, the contacts, the members of a chat or      *)
(* another result that keeps its entities brought p and its access hash.   *)
(* Messages, drafts, the blocked people, imported contacts and new chats   *)
(* hand ids out and keep nothing: to this process such an id is like any   *)
(* other it was never told of.                                             *)
Learn(p) ==
  /\ p \in account
  /\ store' = store \cup {p} /\ shown' = [shown EXCEPT !["list"] = @ \cup {p}]
  /\ UNCHANGED <<account, index, recent, sweeper, clear, clears, news>> /\ UNCHANGED calls

Listed(n) == {p \in account : Place[p] = n}

(* dialogFilters: a folder action read the folders.                        *)
ReadAndForget ==
  /\ shown' = [shown EXCEPT !["folder"] = @ \cup Listed(1)]
  /\ UNCHANGED <<account, store, index, recent, sweeper, clear, clears, news>>
  /\ UNCHANGED calls

ReadFolders ==
  /\ index' = index \cup Listed(1) /\ shown' = [shown EXCEPT !["folder"] = @ \cup Listed(1)]
  /\ UNCHANGED <<account, store, recent, sweeper, clear, clears, news>> /\ UNCHANGED calls

(* peerSweepInterval has passed.                                           *)
Interval ==
  /\ recent
  /\ recent' = FALSE
  /\ UNCHANGED <<account, store, index, sweeper, shown, clear, news, clears>>
  /\ UNCHANGED calls

(* cache_clear: a new manager and no index at once; sweptAt only when no   *)
(* sweep holds sweepMu.                                                    *)
Forget ==
  /\ clear = "idle" /\ clears < MaxClears
  /\ store' = {} /\ index' = {} /\ shown' = [kind \in Kind |-> {}]
  /\ excuse' = [c \in Seeker |-> IF seek[c] = At("idle") THEN {}
                                 ELSE excuse[c] \cup {"cleared"}]
  /\ clear' = "half" /\ clears' = clears + 1
  /\ UNCHANGED <<account, recent, sweeper, seek, want, had, seeks, news>>

ForgetSweep ==
  /\ clear = "half" /\ sweeper = {}
  /\ recent' = FALSE /\ clear' = "idle"
  /\ UNCHANGED <<account, store, index, sweeper, shown, news, clears>> /\ UNCHANGED calls

----------------------------------------------------------------------------
(* resolveNumeric.                                                         *)

Standing(p) == {kind \in Kind : p \in shown[kind]}
                 \cup (IF p \in account THEN {"account"} ELSE {})

Seek(c, p) ==
  /\ seek[c] = At("idle") /\ seeks < MaxSeeks
  /\ want' = [want EXCEPT ![c] = p]
  /\ had' = [had EXCEPT ![c] = Standing(p)]
  /\ seek' = [seek EXCEPT ![c] = At("lookup")]
  /\ seeks' = seeks + 1
  /\ UNCHANGED <<account, store, index, recent, sweeper, excuse, shown, clear, news, clears>>

(* The call has its answer, a peer or an error.                            *)
Done(c) ==
  /\ seek' = [seek EXCEPT ![c] = At("idle")]
  /\ want' = [want EXCEPT ![c] = NoPeer]
  /\ had' = [had EXCEPT ![c] = {}]
  /\ excuse' = [excuse EXCEPT ![c] = {}]

(* lookupNumeric, before the sweep and after it: of an id in its store the *)
(* manager asks Telegram, and that may fail.  The error of the last lookup *)
(* is the answer: Telegram's own, or unresolvedPeer's PEER_NOT_FOUND.      *)
LookupNumeric(c, ok) ==
  /\ seek[c] \in {At("lookup"), At("lookup again")}
  /\ IF want[c] \in store /\ ok THEN Done(c)
     ELSE /\ seek' = [seek EXCEPT ![c] = IF @ = At("lookup") THEN At("recall")
                                         ELSE At("unknown")]
          /\ excuse' = IF want[c] \in store
                       THEN [excuse EXCEPT ![c] = @ \cup {"request failed"}] ELSE excuse
          /\ UNCHANGED <<want, had>>
  /\ UNCHANGED <<account, store, index, recent, sweeper, shown, clear, news, clears, seeks>>

(* knownPeer, before the sweep and after it.                               *)
Recall(c) ==
  /\ seek[c] \in {At("recall"), At("recall again")}
  /\ IF want[c] \in index THEN Done(c)
     ELSE /\ seek' = [seek EXCEPT ![c] = IF @ = At("recall") THEN At("miss")
                                         ELSE At("lookup again")]
          /\ UNCHANGED <<want, had, excuse>>
  /\ UNCHANGED <<account, store, index, recent, sweeper, shown, clear, news, clears, seeks>>

(* sweepPeers, up to the first request.                                    *)
Enter(c) ==
  /\ seek[c] = At("miss") /\ sweeper = {}
  /\ IF recent
     THEN /\ seek' = [seek EXCEPT ![c] = At("recall again")]
          /\ excuse' = [excuse EXCEPT ![c] = @ \cup {"held back"}]
          /\ UNCHANGED <<recent, sweeper>>
     ELSE /\ recent' = TRUE /\ sweeper' = {c}
          /\ seek' = [seek EXCEPT ![c] = Sweep(1)]
          /\ UNCHANGED excuse
  /\ UNCHANGED <<account, store, index, want, had, shown, clear, news, clears, seeks>>

(* What reading source n may teach a call that wants p: all it lists; a    *)
(* walk of a chat list ends where p turns up; one that fails has learned   *)
(* what came before.                                                       *)
Taught(n, p, ok) ==
  {got \in SUBSET Listed(n) :
     IF n <= 2 THEN got = IF ok THEN Listed(n) ELSE {}
               ELSE ok => got = Listed(n) \/ p \in index \cup got}

SkipsArchive(n, p) == p \in index' \/ n = 3

Ends(n, p) == p \in index' \/ n = 4

Walk(c, n, ok) ==
  /\ seek[c] = Sweep(n)
  /\ \E got \in Taught(n, want[c], ok) :
       /\ index' = index \cup got
       /\ store' = IF n = 2 THEN store \cup got ELSE store
  /\ excuse' = IF ok THEN excuse ELSE [excuse EXCEPT ![c] = @ \cup {"request failed"}]
  /\ seek' = [seek EXCEPT ![c] = IF Ends(n, want[c]) THEN At("recall again") ELSE Sweep(n + 1)]
  /\ sweeper' = IF Ends(n, want[c]) THEN {} ELSE sweeper
  /\ UNCHANGED <<account, recent, want, had, shown, clear, news, clears, seeks>>

Return(c) ==
  /\ seek[c] = At("unknown") /\ Done(c)
  /\ UNCHANGED <<account, store, index, recent, sweeper, shown, clear, news, clears, seeks>>

PeersNext ==
  \/ \E p \in Peer : Appear(p) \/ Learn(p)
  \/ ReadFolders \/ Interval \/ Forget \/ ForgetSweep
  \/ \E c \in Seeker :
       \/ \E p \in Peer : Seek(c, p)
       \/ Recall(c) \/ Enter(c) \/ Return(c)
       \/ \E ok \in BOOLEAN : LookupNumeric(c, ok) \/ \E n \in Source : Walk(c, n, ok)

PeersSpec == PeersInit /\ [][PeersNext]_peerVars

----------------------------------------------------------------------------
(* A chat the account had when it was asked for, in one of the sources, is *)
(* called unknown only if the sweep was held back, a request failed, or    *)
(* the caches were cleared meanwhile (sweepPeers, unresolvedPeer).         *)
UnknownHasReason ==
  \A c \in Seeker :
    seek[c] = At("unknown") /\ "account" \in had[c] /\ Place[want[c]] # 0 => excuse[c] # {}

(* An id a folder showed is answered without a request, in or out of a     *)
(* sweep's time: it is never called unknown unless the caches were cleared *)
(* meanwhile (rememberFilterPeers: "must not be told the id does not       *)
(* exist").  An id a result that keeps its entities handed out is unknown  *)
(* only then, or when the request for it failed (rememberPeers: "so the    *)
(* ids in its result can be used in the next call").                       *)
ShownResolves ==
  \A c \in Seeker : seek[c] = At("unknown") =>
    /\ "folder" \in had[c] => "cleared" \in excuse[c]
    /\ "list" \in had[c] => excuse[c] \cap {"cleared", "request failed"} # {}
=============================================================================
