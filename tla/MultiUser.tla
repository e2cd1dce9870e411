------------------------------ MODULE MultiUser ------------------------------
(***************************************************************************)
(* Signing in to the multi-user HTTP server: the forms of many users, each *)
(* handled by an asyncio task, one Telegram client per user, and what the  *)
(* credential backend keeps across a restart of the container.             *)
(*                                                                         *)
(* Python sources: auth/telegram_auth_provider.py, the multi-user branches *)
(* of credential_state.py, auth/kv_session_store.py and                    *)
(* auth/pending_otp_store.py.  Telethon and Telegram are external.         *)
(*                                                                         *)
(* A task runs alone from one `await` to the next; its writes to the       *)
(* backend are steps of their own because a crash may come between them    *)
(* (Turn keeps other tasks out).  revoke_session and cleanup_expired are   *)
(* left out: the program never calls them.  So are shutdown, which leaves  *)
(* what Restart leaves, a backend that refuses a delete while sessions are *)
(* restored, and a user who ends the session from another Telegram app.    *)
(* All clients of a user share one session key.                            *)
(***************************************************************************)
EXTENDS Integers, FiniteSets

CONSTANTS
  Sub,         \* users: the subject of the JWT
  Request,     \* asyncio tasks that handle a submitted form
  Client,      \* bound: Telegram clients that are referenced at one time
  None,        \* no client, and no user: Python's None
  BotOnly,     \* bound: users who submit nothing but bot tokens
  Durable,     \* MCP_STORAGE_BACKEND=cf-kv; otherwise the stores are in memory
  MaxRestarts  \* bound: restarts

ASSUME MultiUserAssumption ==
  /\ None \notin Client \cup Sub
  /\ BotOnly \subseteq Sub
  /\ Durable \in BOOLEAN
  /\ MaxRestarts \in Nat

VARIABLES
  pc,          \* [Request -> ...]
  form,        \* [Request -> "phone", "bot", "otp" or "password"]
  who,         \* [Request -> Sub]
  mine,        \* [Request -> client]  the local variable backend
  old,         \* [Request -> client]  the popped entry's, while it is disconnected
  active,      \* [Sub -> client]  active_clients
  pending,     \* [Sub -> client]  _pending_otps
  stash,       \* [Sub -> "none", "phone" or "code"]  _per_sub_steps
  kept,        \* users with an entry in PendingOtpStore
  record,      \* [Sub -> "none", "bot" or "user"]  the session record
  index,       \* the index of the session records
  restoring,   \* [Sub -> "no", "load" or "drop"]  restore_sessions
  connected,   \* clients with a connection
  bots,        \* clients that are bots
  owner,       \* [Client -> user it was made for]
  hashes,      \* clients that know the hash of a code they asked for
  account,     \* [Sub -> "out", "half" or "in"]  the user's key at Telegram
  raced,       \* history: users with two forms in progress at once
  restarts     \* history: restarts so far

task     == <<pc, form, who, mine, old>>
memory   == <<active, pending, stash>>
backend  == <<kept, record, index>>
clients  == <<connected, bots, owner, hashes>>
history  == <<raced, restarts>>
vars == <<task, memory, backend, restoring, clients, account, history>>

Init ==
  /\ pc = [r \in Request |-> "idle"]
  /\ form = [r \in Request |-> "none"]
  /\ who = [r \in Request |-> None]
  /\ mine = [r \in Request |-> None]
  /\ old = [r \in Request |-> None]
  /\ active = [s \in Sub |-> None]
  /\ pending = [s \in Sub |-> None]
  /\ stash = [s \in Sub |-> "none"]
  /\ kept = {}
  /\ record = [s \in Sub |-> "none"]
  /\ index = {}
  /\ restoring = [s \in Sub |-> "no"]
  /\ connected = {} /\ bots = {} /\ hashes = {}
  /\ owner = [c \in Client |-> None]
  /\ account = [s \in Sub |-> "out"]
  /\ raced = {} /\ restarts = 0

Goto(r, where) == pc' = [pc EXCEPT ![r] = where]

\* The task ends; its local variables are gone.
Return(r) ==
  /\ Goto(r, "idle")
  /\ mine' = [mine EXCEPT ![r] = None]
  /\ old' = [old EXCEPT ![r] = None]
  /\ form' = [form EXCEPT ![r] = "none"]
  /\ who' = [who EXCEPT ![r] = None]

\* No other task is between two writes that no `await` separates.
Writing == {"consume", "record", "index"}
Turn(r) == \A q \in Request : pc[q] \in Writing => q = r

\* A client that nobody refers to any more is freed at once.
Referenced == {c \in Client : \/ \E s \in Sub : c \in {active[s], pending[s]}
                              \/ \E r \in Request : c \in {mine[r], old[r]}}

Free(newConnected, newHashes) ==
  /\ connected' = newConnected \cap Referenced'
  /\ hashes' = newHashes \cap Referenced'
  /\ bots' = bots \cap Referenced'
  /\ owner' = [c \in Client |-> IF c \in Referenced' THEN owner[c] ELSE None]

NewClient(s, c, isBot) ==
  /\ c \notin Referenced
  /\ owner' = [owner EXCEPT ![c] = s]
  /\ bots' = IF isBot THEN bots \cup {c} ELSE bots \ {c}
  /\ UNCHANGED <<connected, hashes>>

\* A form arrives once the server has restored its sessions.
Submit(r, s, f) ==
  /\ pc[r] = "idle" /\ Turn(r)
  /\ s \in BotOnly => f = "bot"
  /\ \A t \in Sub : restoring[t] = "no"
  /\ form' = [form EXCEPT ![r] = f]
  /\ who' = [who EXCEPT ![r] = s]
  /\ raced' = IF \E q \in Request : pc[q] # "idle" /\ who[q] = s THEN raced \cup {s} ELSE raced

\* save_credentials: start_user_auth or register_bot make a client and connect it.
Start(r, s, f, c) ==
  /\ f \in {"phone", "bot"}
  /\ Submit(r, s, f)
  /\ NewClient(s, c, f = "bot")
  /\ mine' = [mine EXCEPT ![r] = c]
  /\ Goto(r, "connect")
  /\ UNCHANGED <<old, memory, backend, restoring, account, restarts>>

(***************************************************************************)
(* on_step_submitted and the head of complete_user_auth: a password needs  *)
(* the code stashed by the step before it; the pending sign-in is taken    *)
(* from memory or, after a restart, from the backend, unless it expired.   *)
(***************************************************************************)
CanSubmit(s, f) == f = "otp" \/ (f = "password" /\ stash[s] = "code")

Complete(r, s, f) ==
  /\ CanSubmit(s, f)
  /\ Submit(r, s, f)
  /\ pending[s] # None
  /\ mine' = [mine EXCEPT ![r] = pending[s]]
  /\ Goto(r, "signin")
  /\ UNCHANGED <<old, memory, backend, restoring, clients, account, restarts>>

Resume(r, s, f, c) ==
  /\ CanSubmit(s, f)
  /\ Submit(r, s, f)
  /\ pending[s] = None /\ s \in kept
  /\ NewClient(s, c, FALSE)
  /\ mine' = [mine EXCEPT ![r] = c]
  /\ Goto(r, "reconnect")
  /\ UNCHANGED <<old, memory, backend, restoring, account, restarts>>

\* "No pending authentication": nothing kept, or what was kept has expired.
NothingPending(r, s, f) ==
  /\ s \notin BotOnly
  /\ CanSubmit(s, f)
  /\ pc[r] = "idle" /\ Turn(r)
  /\ \A t \in Sub : restoring[t] = "no"
  /\ pending[s] = None
  /\ kept' = kept \ {s}
  /\ stash' = [stash EXCEPT ![s] = "none"]
  /\ UNCHANGED <<task, active, pending, record, index, restoring, clients, account, history>>

Connected(r) ==
  /\ pc[r] \in {"connect", "reconnect"} /\ Turn(r)
  /\ IF pc[r] = "reconnect"
     THEN Goto(r, "signin") /\ pending' = [pending EXCEPT ![who[r]] = mine[r]]
     ELSE Goto(r, IF form[r] = "bot" THEN "record" ELSE "sendcode") /\ UNCHANGED pending
  /\ UNCHANGED <<form, who, mine, old, active, stash, backend, restoring, account, history>>
  /\ Free(connected \cup {mine[r]}, hashes)

\* The error leaves save_credentials or on_step_submitted; nothing was stored.
ConnectFails(r) ==
  /\ pc[r] \in {"connect", "reconnect"} /\ Turn(r)
  /\ Return(r)
  /\ UNCHANGED <<memory, backend, restoring, account, history>>
  /\ Free(connected, hashes)

(***************************************************************************)
(* _register_pending_otp: the earlier entry is popped and its client       *)
(* disconnected (an `await`) before the new entry is set and saved.        *)
(***************************************************************************)
Register(r) ==
  /\ pending' = [pending EXCEPT ![who[r]] = mine[r]]
  /\ \/ /\ kept' = IF Durable THEN kept \cup {who[r]} ELSE kept
        /\ stash' = [stash EXCEPT ![who[r]] = "phone"]
     \/ Durable /\ UNCHANGED <<kept, stash>>   \* the backend refuses the entry
  /\ Return(r)

\* Mutant of CodeSent: the entry is disconnected without a look whether there is one.
CodeSentUnchecked(r) ==
  /\ pc[r] = "sendcode" /\ Turn(r)
  /\ old' = [old EXCEPT ![r] = pending[who[r]]]
  /\ pending' = [pending EXCEPT ![who[r]] = None]
  /\ Goto(r, "popped")
  /\ UNCHANGED <<form, who, mine, stash, kept, active, record, index, restoring, account, history>>
  /\ Free(connected, hashes \cup {mine[r]})

CodeSent(r) ==
  /\ pc[r] = "sendcode" /\ Turn(r)
  /\ IF pending[who[r]] = None
     THEN Register(r)
     ELSE /\ old' = [old EXCEPT ![r] = pending[who[r]]]
          /\ pending' = [pending EXCEPT ![who[r]] = None]
          /\ Goto(r, "popped")
          /\ UNCHANGED <<form, who, mine, stash, kept>>
  /\ UNCHANGED <<active, record, index, restoring, account, history>>
  /\ Free(connected, hashes \cup {mine[r]})

CodeRefused(r) ==
  /\ pc[r] = "sendcode" /\ Turn(r)
  /\ Return(r)
  /\ UNCHANGED <<memory, backend, restoring, account, history>>
  /\ Free(connected \ {mine[r]}, hashes)

Popped(r) ==
  /\ pc[r] = "popped" /\ Turn(r)
  /\ Register(r)
  /\ UNCHANGED <<active, record, index, restoring, account, history>>
  /\ Free(connected \ {old[r]}, hashes)

(***************************************************************************)
(* backend.sign_in.  Telethon answers at once for a key that is signed in, *)
(* sends a code only with the hash this client got for it, and asks for    *)
(* the password of a half-finished sign-in.                                *)
(***************************************************************************)
SignedIn(r) ==
  LET s == who[r] IN
  /\ pc[r] = "signin" /\ Turn(r)
  /\ mine[r] \in connected
  /\ \/ account[s] = "in"
     \/ mine[r] \in hashes
     \/ form[r] = "password" /\ account[s] = "half"
  /\ account' = [account EXCEPT ![s] = "in"]
  /\ Goto(r, "secure")
  /\ UNCHANGED <<form, who, mine, old, memory, backend, restoring, clients, history>>

\* Mutant of NeedsPassword: an accepted code is taken for a finished sign-in.
PasswordSkipped(r) ==
  /\ pc[r] = "signin" /\ Turn(r)
  /\ mine[r] \in connected \cap hashes
  /\ account[who[r]] # "in" /\ form[r] = "otp"
  /\ account' = [account EXCEPT ![who[r]] = "half"]
  /\ Goto(r, "secure")
  /\ UNCHANGED <<form, who, mine, old, memory, backend, restoring, clients, history>>

NeedsPassword(r) ==
  /\ pc[r] = "signin" /\ Turn(r)
  /\ mine[r] \in connected \cap hashes
  /\ account[who[r]] # "in" /\ form[r] = "otp"
  /\ account' = [account EXCEPT ![who[r]] = "half"]
  /\ stash' = [stash EXCEPT ![who[r]] = "code"]
  /\ Return(r)
  /\ UNCHANGED <<active, pending, backend, restoring, history>>
  /\ Free(connected, hashes)

\* Mutant of SignInFails: the client is disconnected, though its entry stays.
SignInFailsClosing(r) ==
  /\ pc[r] \in {"signin", "secure"} /\ Turn(r)
  /\ stash' = [stash EXCEPT ![who[r]] = "none"]
  /\ Return(r)
  /\ UNCHANGED <<active, pending, backend, restoring, account, history>>
  /\ Free(connected \ {mine[r]}, hashes)

\* A wrong code or password, a lost answer, or a client disconnected meanwhile:
\* by the second form of the user, or before get_me.
SignInFails(r) ==
  /\ pc[r] \in {"signin", "secure"} /\ Turn(r)
  /\ stash' = [stash EXCEPT ![who[r]] = "none"]
  /\ Return(r)
  /\ UNCHANGED <<active, pending, backend, restoring, account, history>>
  /\ Free(connected, hashes)

(***************************************************************************)
(* After sign_in: `del self._pending_otps[bearer]` takes away whatever     *)
(* entry the user has by now, and raises when there is none.               *)
(***************************************************************************)
\* Mutant of Secured: the entry is left to the next sign-in.
SecuredKeeping(r) ==
  /\ pc[r] = "secure" /\ Turn(r)
  /\ Goto(r, "consume")
  /\ UNCHANGED <<form, who, mine, old, memory, backend, restoring, clients, account, history>>

Secured(r) ==
  /\ pc[r] = "secure" /\ Turn(r)
  /\ IF pending[who[r]] = None
     THEN Return(r)
     ELSE Goto(r, "consume") /\ UNCHANGED <<form, who, mine, old>>
  /\ pending' = [pending EXCEPT ![who[r]] = None]
  /\ UNCHANGED <<active, stash, backend, restoring, account, history>>
  /\ Free(connected, hashes)

Consume(r) ==
  /\ pc[r] = "consume"
  /\ kept' = kept \ {who[r]}
  /\ Goto(r, "record")
  /\ UNCHANGED <<form, who, mine, old, memory, record, index, restoring, clients, account, history>>

\* Mutant of Record: the client is active before the index is saved.
RecordAndReply(r) ==
  /\ pc[r] = "record"
  /\ record' = [record EXCEPT ![who[r]] = IF form[r] = "bot" THEN "bot" ELSE "user"]
  /\ active' = [active EXCEPT ![who[r]] = mine[r]]
  /\ Goto(r, "index")
  /\ UNCHANGED <<form, who, mine, old, pending, stash, kept, index, restoring, clients,
                 account, history>>

\* KvSessionStore.store: the record, then the index.
Record(r) ==
  /\ pc[r] = "record" /\ Turn(r)
  /\ record' = [record EXCEPT ![who[r]] = IF form[r] = "bot" THEN "bot" ELSE "user"]
  /\ Goto(r, "index")
  /\ UNCHANGED <<form, who, mine, old, memory, kept, index, restoring, clients, account, history>>

Activate(r) ==
  /\ pc[r] = "index"
  /\ index' = index \cup {who[r]}
  /\ active' = [active EXCEPT ![who[r]] = mine[r]]
  /\ stash' = IF form[r] = "bot" THEN stash ELSE [stash EXCEPT ![who[r]] = "none"]
  /\ Return(r)
  /\ UNCHANGED <<pending, kept, record, restoring, account, history>>
  /\ Free(connected, hashes)

\* The credential backend refuses a write: the rest of the task does not happen.
WriteFails(r) ==
  /\ Durable
  /\ pc[r] \in Writing /\ Turn(r)
  /\ Return(r)
  /\ UNCHANGED <<memory, backend, restoring, account, history>>
  /\ Free(connected, hashes)

(***************************************************************************)
(* The process is killed, or shut down, and started again.  Memory and     *)
(* connections are gone; restore_sessions connects what the index lists,   *)
(* unless the backend cannot be read, and deletes what has expired or      *)
(* could not be connected.                                                 *)
(***************************************************************************)
Restart ==
  /\ restarts < MaxRestarts
  /\ restarts' = restarts + 1
  /\ pc' = [r \in Request |-> "idle"]
  /\ form' = [r \in Request |-> "none"]
  /\ who' = [r \in Request |-> None]
  /\ mine' = [r \in Request |-> None]
  /\ old' = [r \in Request |-> None]
  /\ active' = [s \in Sub |-> None]
  /\ pending' = [s \in Sub |-> None]
  /\ stash' = [s \in Sub |-> "none"]
  /\ IF Durable
     THEN /\ \/ restoring' = [s \in Sub |-> IF s \in index /\ record[s] # "none"
                                            THEN "load" ELSE "no"]
             \/ restoring' = [s \in Sub |-> "no"]
          /\ UNCHANGED backend
     ELSE /\ restoring' = [s \in Sub |-> "no"]
          /\ record' = [s \in Sub |-> "none"]
          /\ kept' = {} /\ index' = {}
  /\ UNCHANGED account
  /\ Free({}, {})
  /\ raced' = {}

Restored(s, c) ==
  /\ restoring[s] = "load"
  /\ c \notin Referenced
  /\ owner' = [owner EXCEPT ![c] = s]
  /\ bots' = IF record[s] = "bot" THEN bots \cup {c} ELSE bots \ {c}
  /\ connected' = connected \cup {c}
  /\ active' = [active EXCEPT ![s] = c]
  /\ restoring' = [restoring EXCEPT ![s] = "no"]
  /\ UNCHANGED <<task, pending, stash, backend, hashes, account, history>>

\* Mutant of RestoreFails: the record is cleared before the index is saved.
RestoreFailsRecordFirst(s) ==
  /\ restoring[s] = "load"
  /\ record' = [record EXCEPT ![s] = "none"]
  /\ restoring' = [restoring EXCEPT ![s] = "drop"]
  /\ UNCHANGED <<task, memory, kept, index, clients, account, history>>

\* KvSessionStore.delete: the index, then the record.
RestoreFails(s) ==
  /\ restoring[s] = "load"
  /\ index' = index \ {s}
  /\ restoring' = [restoring EXCEPT ![s] = "drop"]
  /\ UNCHANGED <<task, memory, kept, record, clients, account, history>>

DropRecord(s) ==
  /\ restoring[s] = "drop"
  /\ record' = [record EXCEPT ![s] = "none"]
  /\ restoring' = [restoring EXCEPT ![s] = "no"]
  /\ UNCHANGED <<task, memory, kept, index, clients, account, history>>

Step(r) ==
  \/ Connected(r)
  \/ ConnectFails(r)
  \/ CodeSent(r)
  \/ CodeRefused(r)
  \/ Popped(r)
  \/ SignedIn(r)
  \/ NeedsPassword(r)
  \/ SignInFails(r)
  \/ Secured(r)
  \/ Consume(r)
  \/ Record(r)
  \/ Activate(r)
  \/ WriteFails(r)

Begin(r, s) ==
  \/ \E f \in {"phone", "bot"}, c \in Client : Start(r, s, f, c)
  \/ \E f \in {"otp", "password"} : Complete(r, s, f) \/ NothingPending(r, s, f)
  \/ \E f \in {"otp", "password"}, c \in Client : Resume(r, s, f, c)

Restore(s) ==
  \/ \E c \in Client : Restored(s, c)
  \/ RestoreFails(s)
  \/ DropRecord(s)

Next ==
  \/ \E r \in Request : Step(r) \/ \E s \in Sub : Begin(r, s)
  \/ \E s \in Sub : Restore(s)
  \/ Restart

Spec == Init /\ [][Next]_vars

-----------------------------------------------------------------------------
HasClient == {"connect", "reconnect", "sendcode", "popped", "signin", "secure"} \cup Writing

TypeOK ==
  /\ pc \in [Request -> HasClient \cup {"idle"}]
  /\ form \in [Request -> {"none", "phone", "bot", "otp", "password"}]
  /\ who \in [Request -> Sub \cup {None}]
  /\ mine \in [Request -> Client \cup {None}]
  /\ old \in [Request -> Client \cup {None}]
  /\ active \in [Sub -> Client \cup {None}]
  /\ pending \in [Sub -> Client \cup {None}]
  /\ stash \in [Sub -> {"none", "phone", "code"}]
  /\ kept \subseteq Sub /\ index \subseteq Sub
  /\ record \in [Sub -> {"none", "bot", "user"}]
  /\ restoring \in [Sub -> {"no", "load", "drop"}]
  /\ {connected, bots, hashes} \subseteq SUBSET Client
  /\ owner \in [Client -> Sub \cup {None}]
  /\ account \in [Sub -> {"out", "half", "in"}]
  /\ raced \subseteq Sub
  /\ restarts \in 0..MaxRestarts
  /\ \A r \in Request : mine[r] # None <=> pc[r] \in HasClient
  /\ \A r \in Request : who[r] # None <=> pc[r] \in HasClient
  /\ \A r \in Request : old[r] # None <=> pc[r] = "popped"

\* telegram_auth_provider.py: concurrent users are isolated.  What a user's tools
\* run on was made for that user and, unless it is a bot, is signed in: whatever
\* forms of theirs and of others overlap at the awaits, and across restarts.
ServedIsOwn ==
  \A s \in Sub : active[s] # None =>
    /\ owner[active[s]] = s
    /\ active[s] \in bots \/ account[s] = "in"

\* A user whose forms do not overlap is never left with a client that somebody
\* has disconnected, neither to run tools on nor to send a code with.
OneAtATime ==
  \A s \in Sub \ raced : {active[s], pending[s]} \subseteq connected \cup {None}

\* The next sign-in of a user disconnects the pending client: it is never one
\* that tools run on.
PendingApart ==
  \A s, t \in Sub : pending[s] # None => pending[s] # active[t]

\* kv_session_store.py, delete: "without leaving a stale positive index", though
\* a crash may come between the two writes of a store or of a delete.
IndexSound == \A s \in index : record[s] # "none"

\* A user whose tools work is found by the next restart: what the index and the
\* record lack, a crash would lose.
Restorable == \A s \in Sub : active[s] # None => s \in index /\ record[s] # "none"

-----------------------------------------------------------------------------
\* MultiUser implements UserSessions: a restart restores what the index lists.
Saved == [s \in Sub |-> IF s \in index THEN record[s] ELSE "none"]
AtWork == [s \in Sub |-> IF active[s] = None THEN "none"
                         ELSE IF active[s] \in bots THEN "bot" ELSE "user"]

Sessions == INSTANCE UserSessions WITH User <- Sub, saved <- Saved, tools <- AtWork

\* telegram_auth_provider.py: "Session persistence: reconnects stored sessions on
\* startup".  Whatever forms overlap and wherever a crash or a refused write comes,
\* every step of the server is one that UserSessions allows.
SessionsArePromised == Sessions!Spec
=============================================================================
