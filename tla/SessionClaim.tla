---------------------------- MODULE SessionClaim ----------------------------
(***************************************************************************)
(* Who may use the MTProto session of one account: the whole-process claim *)
(* on `<session>.lock`, the session file, and the clients that run on the  *)
(* auth key in it.                                                         *)
(*                                                                         *)
(* Go sources: internal/telegram/sessionlock_unix.go, sessionfile.go,      *)
(* user.go (Connect, Disconnect, ensure, LogOut), telethon.go and the auth *)
(* and logout commands of cmd/better-telegram-mcp/main.go.                 *)
(*                                                                         *)
(* A process is a server or one run of a command; any number of them use   *)
(* the same session path.  StoreSession replaces the file by a rename      *)
(* under its own lock, so a store is one step here and a reader sees whole *)
(* contents.  gotd's client is external: it loads the key (or asks for a   *)
(* new one), may store its session as long as it runs, and may stop.       *)
(***************************************************************************)
EXTENDS Integers, FiniteSets

CONSTANTS
  Proc,       \* processes
  NoProc,     \* "no pid recorded"
  Program,    \* [Proc -> {"server", "auth", "adopt", "logout"}]
  Shared,     \* servers with TELEGRAM_SESSION_LOCK=shared
  Seeded,     \* servers with TELEGRAM_SESSION_STRING
  MaxKey,     \* bound: auth keys Telegram hands out are 1..MaxKey
  Deadlines,  \* Telegram may be so slow that a deadline fires first
  MaxCrashes  \* bound: crashes

Absent == -2   \* no session file
Empty  == -1   \* pre-created, nothing in it
NoKey  == -1   \* no client, or none with a key yet
Seed   == 0    \* the key inside the Telethon session string
Key    == 0..MaxKey

ASSUME SessionAssumption ==
  /\ NoProc \notin Proc
  /\ Program \in [Proc -> {"server", "auth", "adopt", "logout"}]
  /\ Shared \subseteq {p \in Proc : Program[p] = "server"}
  /\ Seeded \subseteq {p \in Proc : Program[p] = "server"}
  /\ MaxKey \in Nat
  /\ Deadlines \in BOOLEAN
  /\ MaxCrashes \in Nat

VARIABLES
  pc,          \* [Proc -> ...]  where Connect, Disconnect or the command is
  held,        \* processes that hold the flock on <session>.lock
  pidFile,     \* the pid written in the lock file
  refusal,     \* [Proc -> pid]  the holder the last SessionBusyError named
  file,        \* the session file: Absent, Empty or a key
  client,      \* [Proc -> key]  the client of the current connection
  fading,      \* clients whose context is cancelled and that still run
  runErr,      \* [Proc -> BOOLEAN]  the client stopped on its own
  minted,      \* keys 1..minted exist
  authorized,  \* keys signed in at Telegram
  crashes      \* history: crashes so far

vars == <<pc, held, pidFile, refusal, file, client, fading, runErr, minted,
          authorized, crashes>>

Init ==
  /\ pc = [p \in Proc |-> "off"]
  /\ held = {}
  /\ pidFile = NoProc
  /\ refusal = [p \in Proc |-> NoProc]
  /\ \/ file = Absent /\ authorized = {Seed} /\ minted = 0
     \/ file = 1 /\ authorized = {Seed, 1} /\ minted = 1 /\ MaxKey >= 1
  /\ client = [p \in Proc |-> NoKey]
  /\ fading = {}
  /\ runErr = [p \in Proc |-> FALSE]
  /\ crashes = 0

Goto(p, where) == pc' = [pc EXCEPT ![p] = where]

\* Mutant of Compatible: one shared claim lets anybody in.
OneSharedIsEnough(p) == \A q \in held : p \in Shared \/ q \in Shared

\* flock, non-blocking: shared claims go together, an exclusive one goes alone.
Compatible(p) == \A q \in held : p \in Shared /\ q \in Shared

\* Mutant of Start: the session file is pre-created with O_TRUNC.
StartTruncating(p) ==
  /\ pc[p] = "off"
  /\ file' = Empty
  /\ Goto(p, "claim")
  /\ UNCHANGED <<held, pidFile, refusal, client, fading, runErr, minted, authorized, crashes>>

\* The file a program comes to claim: `auth --session-string` has written its
\* string over whatever was there.
Prepared(p) ==
  IF Program[p] = "adopt" THEN Seed ELSE IF file = Absent THEN Empty ELSE file

(***************************************************************************)
(* A command or server starts.  prepareSessionFile creates an empty file;  *)
(* importTelethonSession looks at the file only when it has a string to    *)
(* put there.  All of it happens before the session is claimed.            *)
(***************************************************************************)
Start(p) ==
  /\ pc[p] = "off"
  /\ Program[p] # "logout" \/ file # Absent
  /\ file' = Prepared(p)
  /\ IF p \in Seeded /\ file \notin Key
     THEN Goto(p, "seed")
     ELSE Goto(p, "claim")
  /\ UNCHANGED <<held, pidFile, refusal, client, fading, runErr, minted, authorized, crashes>>

\* importTelethonSession, second half: Save what was found missing.
SaveSeed(p) ==
  /\ pc[p] = "seed"
  /\ file' = Seed
  /\ Goto(p, "claim")
  /\ UNCHANGED <<held, pidFile, refusal, client, fading, runErr, minted, authorized, crashes>>

(***************************************************************************)
(* acquireSessionLock.  A refusal quotes the pid found in the lock file;   *)
(* an exclusive holder writes its own a moment after it has the lock.  The *)
(* logout command goes on to delete the file when Connect fails; the other *)
(* commands exit, and a server stays up to try again.                      *)
(***************************************************************************)
Afterwards(p) == IF Program[p] = "logout" THEN "remove" ELSE "off"

\* What is left of the given clients once p has gone to Afterwards(p): a command
\* exits, and its clients with it; a server, or a logout with a file to remove, does not.
Survivors(p, clients) ==
  IF Program[p] \in {"auth", "adopt"} THEN {c \in clients : c[1] # p} ELSE clients

Claim(p) ==
  /\ pc[p] = "claim"
  /\ Compatible(p)
  /\ held' = held \cup {p}
  /\ runErr' = [runErr EXCEPT ![p] = FALSE]
  /\ Goto(p, IF p \in Shared THEN "starting" ELSE "record")
  /\ UNCHANGED <<pidFile, refusal, file, client, fading, minted, authorized, crashes>>

Refused(p) ==
  /\ pc[p] = "claim"
  /\ ~Compatible(p)
  /\ refusal' = [refusal EXCEPT ![p] = pidFile]
  /\ Goto(p, Afterwards(p))
  /\ UNCHANGED <<held, pidFile, file, client, fading, runErr, minted, authorized, crashes>>

RecordPid(p) ==
  /\ pc[p] = "record"
  /\ pidFile' = p
  /\ Goto(p, "starting")
  /\ UNCHANGED <<held, refusal, file, client, fading, runErr, minted, authorized, crashes>>

(***************************************************************************)
(* client.Run: the client uses the key in the file, or a brand-new one.    *)
(***************************************************************************)
Dial(p) ==
  /\ pc[p] = "starting"
  /\ client[p] = NoKey
  /\ IF file \in Key
     THEN client' = [client EXCEPT ![p] = file] /\ UNCHANGED minted
     ELSE /\ minted < MaxKey
          /\ minted' = minted + 1
          /\ client' = [client EXCEPT ![p] = minted + 1]
  /\ UNCHANGED <<pc, held, pidFile, refusal, file, fading, runErr, authorized, crashes>>

\* A running client writes its session, one that is being stopped included.
Store(p) ==
  /\ \/ client[p] # NoKey /\ file' = client[p]
     \/ \E k \in Key : <<p, k>> \in fading /\ file' = k
  /\ UNCHANGED <<pc, held, pidFile, refusal, client, fading, runErr, minted, authorized, crashes>>

\* `ready <- nil`: Connect returns with the connection up.
Ready(p) ==
  /\ pc[p] = "starting"
  /\ client[p] # NoKey
  /\ Goto(p, "on")
  /\ UNCHANGED <<held, pidFile, refusal, file, client, fading, runErr, minted, authorized, crashes>>

\* Mutant of RunFails: the error path forgets to release.
FailureKeepsClaim(p) ==
  /\ pc[p] = "starting"
  /\ client' = [client EXCEPT ![p] = NoKey]
  /\ runErr' = [runErr EXCEPT ![p] = TRUE]
  /\ Goto(p, Afterwards(p))
  /\ UNCHANGED <<held, pidFile, refusal, file, fading, minted, authorized, crashes>>

\* `ready <- err`: Run has returned, the claim is given up.
RunFails(p) ==
  /\ pc[p] = "starting"
  /\ client' = [client EXCEPT ![p] = NoKey]
  /\ runErr' = [runErr EXCEPT ![p] = TRUE]
  /\ held' = held \ {p}
  /\ Goto(p, Afterwards(p))
  /\ UNCHANGED <<pidFile, refusal, file, fading, minted, authorized, crashes>>

\* Mutant of Cancelled: no check that there is a client to stop.
CancelWhatever(p) == fading \cup {<<p, client[p]>>}

\* The clients that run on, for a while, once p cancels its own.
Cancelled(p) ==
  fading \cup (IF client[p] = NoKey THEN {} ELSE {<<p, client[p]>>})

(***************************************************************************)
(* connectTimeout, or the caller's context is done: cancel and release     *)
(* without waiting for the client.                                         *)
(***************************************************************************)
ConnectDeadline(p) ==
  /\ Deadlines
  /\ pc[p] = "starting"
  /\ client' = [client EXCEPT ![p] = NoKey]
  /\ fading' = Survivors(p, Cancelled(p))
  /\ held' = held \ {p}
  /\ Goto(p, Afterwards(p))
  /\ UNCHANGED <<pidFile, refusal, file, runErr, minted, authorized, crashes>>

\* A cancelled client stops, and its goroutine leaves what Run returned in
\* runErr, over what a later connection may have put there.
Fade(p, k) ==
  /\ <<p, k>> \in fading
  /\ fading' = fading \ {<<p, k>>}
  /\ \E failed \in BOOLEAN : runErr' = [runErr EXCEPT ![p] = failed]
  /\ UNCHANGED <<pc, held, pidFile, refusal, file, client, minted, authorized, crashes>>

\* The client of an open connection stops on its own (a revoked key); nothing
\* but runErr notices.
Die(p) ==
  /\ pc[p] = "on"
  /\ client[p] # NoKey
  /\ client' = [client EXCEPT ![p] = NoKey]
  /\ runErr' = [runErr EXCEPT ![p] = TRUE]
  /\ UNCHANGED <<pc, held, pidFile, refusal, file, fading, minted, authorized, crashes>>

\* SignIn of the auth command.
SignIn(p) ==
  /\ pc[p] = "on"
  /\ Program[p] = "auth"
  /\ client[p] # NoKey
  /\ authorized' = authorized \cup {client[p]}
  /\ UNCHANGED <<pc, held, pidFile, refusal, file, client, fading, runErr, minted, crashes>>

\* LogOut of the logout command: the key is revoked, the file removed.
LogOut(p) ==
  /\ pc[p] = "on"
  /\ Program[p] = "logout"
  /\ client[p] # NoKey
  /\ authorized' = authorized \ {client[p]}
  /\ file' = Absent
  /\ UNCHANGED <<pc, held, pidFile, refusal, client, fading, runErr, minted, crashes>>

\* Mutant of Disconnect: the claim is released before the client has stopped.
DisconnectReleasing(p) ==
  /\ pc[p] = "on"
  /\ client' = [client EXCEPT ![p] = NoKey]
  /\ fading' = Cancelled(p)
  /\ held' = held \ {p}
  /\ Goto(p, "stopping")
  /\ UNCHANGED <<pidFile, refusal, file, runErr, minted, authorized, crashes>>

(***************************************************************************)
(* Disconnect: stop the client, wait for it (ten seconds at most), release *)
(* the claim.                                                              *)
(***************************************************************************)
Disconnect(p) ==
  /\ pc[p] = "on"
  /\ client' = [client EXCEPT ![p] = NoKey]
  /\ fading' = Cancelled(p)
  /\ Goto(p, "stopping")
  /\ UNCHANGED <<held, pidFile, refusal, file, runErr, minted, authorized, crashes>>

Disconnected(p) ==
  /\ pc[p] = "stopping"
  /\ Deadlines \/ \A k \in Key : <<p, k>> \notin fading
  /\ held' = held \ {p}
  /\ fading' = Survivors(p, fading)
  /\ Goto(p, Afterwards(p))
  /\ UNCHANGED <<pidFile, refusal, file, client, runErr, minted, authorized, crashes>>

\* The last step of the logout command, whatever came before.
RemoveFile(p) ==
  /\ pc[p] = "remove"
  /\ file' = Absent
  /\ fading' = {c \in fading : c[1] # p}
  /\ Goto(p, "off")
  /\ UNCHANGED <<held, pidFile, refusal, client, runErr, minted, authorized, crashes>>

\* kill -9: the kernel closes the connections and drops the lock.
Crash(p) ==
  /\ crashes < MaxCrashes
  /\ pc[p] # "off"
  /\ crashes' = crashes + 1
  /\ held' = held \ {p}
  /\ client' = [client EXCEPT ![p] = NoKey]
  /\ fading' = {c \in fading : c[1] # p}
  /\ runErr' = [runErr EXCEPT ![p] = FALSE]
  /\ Goto(p, "off")
  /\ UNCHANGED <<pidFile, refusal, file, minted, authorized>>

Step(p) ==
  \/ SaveSeed(p)
  \/ Claim(p)
  \/ Refused(p)
  \/ RecordPid(p)
  \/ Dial(p)
  \/ Ready(p)
  \/ RunFails(p)
  \/ ConnectDeadline(p)
  \/ \E k \in Key : Fade(p, k)
  \/ Disconnected(p)
  \/ RemoveFile(p)

Next == \E p \in Proc :
  \/ Start(p)
  \/ Step(p)
  \/ Store(p)
  \/ Die(p)
  \/ SignIn(p)
  \/ LogOut(p)
  \/ Disconnect(p)
  \/ Crash(p)

Spec == Init /\ [][Next]_vars

\* ensure: what a tool call gets.
Ensure(p) ==
  IF pc[p] = "on" THEN "handle" ELSE IF runErr[p] THEN "reason" ELSE "not connected"

-----------------------------------------------------------------------------
TypeOK ==
  /\ pc \in [Proc -> {"off", "seed", "claim", "record", "starting", "on", "stopping", "remove"}]
  /\ held \subseteq Proc
  /\ pidFile \in Proc \cup {NoProc}
  /\ refusal \in [Proc -> Proc \cup {NoProc}]
  /\ file \in Key \cup {Absent, Empty}
  /\ client \in [Proc -> Key \cup {NoKey}]
  /\ fading \subseteq Proc \X Key
  /\ runErr \in [Proc -> BOOLEAN]
  /\ minted \in 0..MaxKey
  /\ authorized \subseteq Key
  /\ crashes \in 0..MaxCrashes

\* A connection in use belongs to a process that holds the claim, and two such
\* processes both asked for the shared one.
ClaimedClients ==
  /\ \A p \in Proc : (client[p] # NoKey \/ Ensure(p) = "handle") => p \in held
  /\ \A p, q \in Proc :
       (p # q /\ client[p] # NoKey /\ client[q] # NoKey) => (p \in Shared /\ q \in Shared)

\* sessionlock_unix.go: "a crash can never leave a stale lock".  Nor does an
\* error path: a process that is not connecting, connected or disconnecting
\* holds nothing that could refuse another process, or its own next attempt.
NoLeakedClaim ==
  \A p \in held : pc[p] \in {"record", "starting", "on", "stopping"}

\* The invariant the proofs are by: a process holds the claim exactly while it
\* connects, is connected or disconnects, only then has it a client, and two
\* holders are both sharers.  When no deadline cuts a wait short, a cancelled
\* client belongs to a process still waiting for it in Disconnect.
Claiming == {"record", "starting", "on", "stopping"}

HolderPhase == \A p \in Proc : p \in held <=> pc[p] \in Claiming
ClientPhase == \A p \in Proc : client[p] # NoKey => pc[p] \in {"starting", "on"}
SharersOnly == \A p, q \in held : p # q => p \in Shared /\ q \in Shared
WaitedFor   == ~Deadlines => \A c \in fading : pc[c[1]] = "stopping"

ClaimInv == TypeOK /\ HolderPhase /\ ClientPhase /\ SharersOnly /\ WaitedFor

Uses(p, k) == client[p] = k \/ <<p, k>> \in fading

\* user.go: "Claim the session before opening it. Two clients sharing one auth
\* key make Telegram invalidate it".  One key is used by two clients only when
\* they are in processes that asked to share it.
OneClient ==
  \A k \in Key :
    /\ \A p, q \in Proc :
         (p # q /\ Uses(p, k) /\ Uses(q, k)) => (p \in Shared /\ q \in Shared)
    /\ \A p \in Proc : client[p] = k => <<p, k>> \notin fading

\* A session signed in at Telegram loses its file, and nobody has logged it out.
AccountLost == file \in authorized /\ file' # file /\ file \in authorized'

\* GO.md: a second process must not take the first one down.  No start, connect,
\* stop or crash, in any order, replaces the session of a signed-in account;
\* only the commands meant to do that.
AccountKept ==
  [][AccountLost =>
       \E p \in Proc : Program[p] \in {"adopt", "logout"} /\ pc'[p] # pc[p]]_vars

\* What keeps an account: once the file holds a signed-in key, every client runs
\* on that key, and a server that shares the claim got a signed-in key from the
\* file.  Keys in the file, in use or signed in were handed out by Telegram.
SignedInUse   == \A p \in Proc, k \in Key : (Uses(p, k) /\ file \in authorized) => file = k
SharersFollow == \A p \in Shared, k \in Key : (Uses(p, k) /\ k \in authorized) => file = k
KnownKeys ==
  \A k \in Key : (k \in authorized \/ file = k \/ \E p \in Proc : Uses(p, k)) => k <= minted
OneCancelled  == \A c, d \in fading : c[1] = d[1] => c = d
NobodySeeds   == \A p \in Proc : pc[p] # "seed"
RemovesLast   == \A p \in Proc : pc[p] = "remove" => Program[p] = "logout"

AccountInv ==
  /\ ClaimInv /\ SignedInUse /\ SharersFollow
  /\ KnownKeys /\ OneCancelled /\ NobodySeeds /\ RemovesLast

\* The promise of the claim, for the connections there are and, when no deadline
\* cuts a wait short, for every client that runs, cancelled ones included.
Connected == {p \in Proc : client[p] # NoKey}
Running   == {p \in Proc : \E k \in Key : Uses(p, k)}

Connections == INSTANCE SessionUse
  WITH User <- Proc, Sharer <- Shared, holders <- held, open <- Connected
Clients == INSTANCE SessionUse
  WITH User <- Proc, Sharer <- Shared, holders <- held, open <- Running

ConnectionsClaim == Connections!Spec
ClientsClaim     == Clients!Spec
=============================================================================
