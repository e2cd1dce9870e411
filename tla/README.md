# A formal model of better-telegram-mcp

This directory holds TLA+ models of the MCP server for Telegram in this
repository, the TLC configurations that check them on small instances, and
theorems about them that TLAPS proves for every value of the constants.
`PROJECT.json` lists the runs, the lines of code each definition stands for, the
hazards and the findings.

To check one run: `tlc -workers 2 -config CallbacksPoll.cfg MCCallbacks.tla`.
To check the proofs of one component: `tlapm CallbacksProofs.tla`.

## 1. The system

Two servers live in the repository. The Go server (`cmd/`, `internal/`) is the
one in use: a stdio process, spawned by an MCP client or a supervisor, usually
several at a time on one host. The Python server under `src/better_telegram_mcp/`
is its predecessor and the multi-user HTTP service. A shell relay
(`contrib/tg-relay/relay.sh`) owns the bot's update stream in one deployment.

| Component | State it keeps | Operations | What is hard | What makes it correct |
|---|---|---|---|---|
| Callback delivery (`telegram/bot.go`, `tools/messages.go`) | cursor in memory and in a file, mutex; Telegram's pending updates or the JSONL queue | `callbacks` (poll, queue, peek, `since_id`), confirm, answer | concurrent calls, crash between store, confirm and reply, lost confirmations, failed writes | a press is returned once and answered once, is lost only with a crash, and a peek takes nothing away |
| Session claim (`sessionlock_unix.go`, `sessionfile.go`, `user.go`, `telethon.go`, `main.go`) | flock and pid file, session file, the running MTProto client | connect, disconnect, import, sign in, log out | several processes, deadlines, clients that outlive their cancel, crashes | one client per auth key, no leaked claim, nobody replaces a signed-in session |
| Server lifecycle (`server/server.go`, `tools/config.go`) | published backend, `configured`, `pendingAuth`, `connecting`, `connErr`, settings | connect loop, refresh, reset, readiness | three kinds of goroutine, outages, the operator's commands | what is served from is connected, none is lost, an outage heals, and the status is true |
| Resume map (`bot.go`) | JSONL file message -> session | record (append, trim), look up | trim is read and rewrite without a lock | the newest registration of a message is found, until 500 newer lines, if its chat id prints like the press's |
| Alias store (`internal/aliases`) | one JSON file | save, delete, look up | unlocked load-modify-rename, one temporary file for all | a change survives, an alias is not repointed silently |
| Peer cache (`peercache.go`) | index of peers, time of the last sweep | sweep, resolve, clear | early stop plus rate limit, clear during a sweep | a peer the account has is found |
| Folders (`user_folders.go`) | none; read-modify-write at Telegram | add, remove, reorder | concurrent changes | no change is undone |
| Credential store, config | encrypted blob, machine secret | load, save, clear, detect mode | two first runs | what was saved can be read |
| Relay (`relay.sh`) | offset file, two queues | poll, answer, push, resume, fire | crash after the offset, caps, one try, lost answers | a kill costs one update, no press is given to two sessions |
| Python auth provider, stores | active clients, pending sign-ins, KV stores and their index | start, complete, revoke, clean up, restore | awaits between check and use | one client per user, no lost sign-in |
| Python credential state | state, step globals | save, OTP step, 2FA step, reset | two forms at once | the state matches the client |
| Pure algorithms | none | keyboard, closest match, peer ids, permissions, clock offset | boundaries | agree with a reference definition |
| Tools and backend methods (`internal/tools`, `user_*.go`, `bot_*.go`) | none | about 90 actions, each a sequence of checks, resolutions, requests and file changes | the order of these, two modes, several requests in one action, lost answers, an agent that retries | a refused call has changed nothing, a repeated call does nothing twice, the advice it gets helps |
| Security, docs | none | predicates, texts | nothing a model would add | not modelled |

**Interactions.** A tool call asks `Server.ready` for the backend and runs on it. The
connect loop and the credential actions of the config tool build, publish and close
backends. A bot backend polls Telegram or reads the queue the relay fills. A tool action
checks its arguments, asks the backend for a capability and calls its methods; in user
mode a method resolves the chat through the alias store and the peer cache first. A user
backend claims the session, then runs gotd on the key in the session file. The `auth`
and `logout` commands are processes of their own that claim the same session and change
the same credential store. The relay reads the resume map the server writes.

## 2. The modules

| Module | What it is | Code |
|---|---|---|
| `PressStream` | abstract: presses are claimed in order, handed over once or lost | the promise of `GetCallbackQueries` |
| `Callbacks` | the reader in detail | `bot.go`, `tools/messages.go` |
| `SessionUse` | abstract: who may have a client on the session, and when the claim on it is given up | the promise of `Connect` and `Disconnect` (`user.go`) |
| `SessionClaim` | processes on one session path | `sessionlock_unix.go`, `sessionfile.go`, `user.go`, `telethon.go`, `main.go` |
| `Server` | goroutines of one server process, and the operator | `server.go`, `tools/config.go`, `config.go`, `main.go` |
| `UserSessions` | abstract: what is saved for each user and what their tools run on | the promise of `telegram_auth_provider.py`, `kv_session_store.py` |
| `MultiUser` | sign-in forms of many users of the HTTP server | `telegram_auth_provider.py`, `credential_state.py`, `kv_session_store.py`, `pending_otp_store.py` |
| `ToolSteps` | the steps a tool action is made of, and those methods share | `user.go`, `user_profile.go`, `backend.go` |
| `UserMethods`, `BotMethods` | the plan of every method of the two backends | `user*.go`, `bot*.go` |
| `ToolActions` | the plan of every action of the tools, from the plans of the methods | `internal/tools/*.go`, `capabilities.go` |
| `ToolCalls` | one caller, the plan it runs, the faults it meets and its retries | `result.go`, `backend.go`, `aliasref.go` |
| `Peers` | concurrent resolutions of an id, the sweep, cache_clear | `peercache.go`, `user.go` |
| `Aliases` | concurrent changes of the alias file | `aliases.go` |
| `ResumeMap` | concurrent registrations in the resume map | `bot.go` |
| `Folders` | concurrent edits of the chat folders | `user_folders.go` |
| `Relay` | the relay between Telegram and the queue file, with the reader of that file | `contrib/tg-relay/relay.sh`, `bot.go` |
| `MCCallbacks`, `MCSessionClaim`, `MCServer`, `MCMultiUser`, `MCTools` | instances for TLC | |
| `CallbacksProofs`, `SessionClaimProofs`, `ServerProofs`, `MultiUserProofs`, `ToolCallsProofs`, `PeersProofs`, `StoresProofs` (aliases, folders, resume map), `RelayProofs` | theorems and proofs | |

### Callbacks

One action per step between which another goroutine, process or Telegram can act:
`Call` (the tool call), `Lock` (mutex and `loadCursor`), `GetUpdates` or
`ReadQueue` or `ReadFails`, `StoreCursor` (`storeCursor`), `Confirm`
(`confirmUpdates`), one `Serve` per press (the loop of `handleCallbacks`) and
`Reply`. `Arrive` is the environment, `Crash` a killed and restarted process.
`source` is what Telegram (or the queue file) holds: a `getUpdates` with a higher
offset drops what lies below it, the queue file is never written by the reader.
`file` is the cursor file, `offset`/`loaded` the cursor in memory, `mu` the mutex.
`taken`, `again`, `answered` and `twice` record what callers and Telegram have
seen. Update ids are positive, so offset 0 stands for "no cursor".

Abstracted: the content of a press is whether it is one (`Callback`), passes the
sender and pattern checks (`Welcome`) and arrived already answered
(`PreAnswered`). Arguments that are refused before the backend is called change
nothing. The temporary file and the rename are one step. `auto_answer` is a
choice at each press.

### SessionClaim

A process is a server or one run of `auth`, `auth --session-string` (`adopt`) or
`logout`. `Start` is everything before the claim (`prepareSessionFile`, and the
check of the import; `SaveSeed` is the import's write). `Claim`/`Refused` are
`acquireSessionLock`; `RecordPid` its last lines. gotd is external: `Dial` loads
the key or makes a new one, `Store` writes it at any time while the client runs,
`Die` stops it. A cancelled client moves to `fading` and may still store until
`Fade`. `ConnectDeadline` gives up without waiting; `Disconnect`/`Disconnected`
wait, unless `Deadlines` lets the ten seconds pass. A command's process ends with
its clients; a server stays and can connect again. `StoreSession` is atomic in
the code (a lock and a rename), so it is one step.

### Server

`Loop` is the goroutine of `StartConnect`; each caller runs
`config(action="setup_complete")` (`Reload`, `TakeOut`, `Disconnect`, `Apply`, then
the same connect steps as the loop) or `setup_reset` (`ClearStore`, `ClearFlag`).
`settings` is read again at every step that reads `s.settings`. Of the operator's
commands, `auth` with a bot token is one step (`AuthBot`). The two that use the session
are a `visitor` who holds the claim from one step to a later one: `auth --phone` from
`AuthPhone`, its connect, over the prompt to `SignIn` or `CodeFails`; `logout` from
`LogOut` to `Revoke`, followed, also after a refusal, by `Forget`. Meanwhile a connect of
the server is refused (`Claimable`), and a server that holds the claim refuses them.
Their effect is that on the credential store, the session file and the account. `Outage` and `Recover` switch
Telegram off and on. `Reply` is what `ready` and `NotReady` say. Shutting down is left out.

### MultiUser

A task of the event loop handles one form: `Start` (phone number or bot token),
`Complete` or `Resume` (code or password). It runs alone up to the next `await`,
and each `await` ends an action: `Connected`/`ConnectFails`, `CodeSent`/
`CodeRefused`, `Popped` (the earlier client is disconnected), `SignedIn`/
`NeedsPassword`/`SignInFails`, `Secured`. Between the writes to the credential
backend (`Consume`, `Record`, `Activate`) no task runs (`Turn`), but the process
may die or the backend refuse (`WriteFails`). `Restart` and `Restored`/
`RestoreFails`/`DropRecord` are `restore_sessions`, which ends before forms are
accepted. Telethon is external: it answers at once for a key that is signed in,
needs the hash of the code it sent (`hashes`) for a code, and asks for a password
when Telegram does, which the account's owner may switch on or off. Clients that
nobody refers to are freed (`Free`), so that a bounded set of them suffices.
`raced` remembers users with two forms in progress.

### SessionUse, UserSessions

Two abstract specifications that detailed modules implement. `SessionUse` knows holders
and who has a client: a client is opened under the claim, and the claim goes with the
client or after it. `SessionClaim` implements it with processes, once for the connections
that tool calls can use (`ConnectionsClaim`), and without deadlines also for every client
that still runs (`ClientsClaim`). `Server` implements it with the backends of one process
(`SessionIsClaimed`), so the guard its `Claim` puts on `holders` is what `SessionClaim`
provides. The two are not one state machine.

`UserSessions` has three values per user: `account` at Telegram, what is `saved`, and what
the `tools` run on. In `MultiUser` a user has a saved session if the index lists them and
the record says which (`Saved`), and tools run on the kind of the active client
(`AtWork`). `Save` is the write that completes the pair of record and index; when the record is
rewritten for a user who is listed already, the tools follow with the next write, or
never if that one fails, which is why `Save` may leave them alone.

### ToolSteps, UserMethods, BotMethods, ToolActions, ToolCalls

The methods of a backend and the actions of a tool have no state, but they have an
order, and the order is what a caller that retries depends on. So a method is a
*plan*: the sequence of what its code does. The steps are looks at the arguments
(`given`, `known`), checks whose message reaches the caller (`told`) or does not
(`hidden`, by `SafeError`), the mode (`only`), the connection (`ready`), resolving a
name (`name`), requests that read (`ask`) or change (`write`), and local files, which
are left as they were on a failure (`save`) or are not (`over`). A step that only some calls take carries the forms it belongs to, such as
the kind of the chat or an option. `ToolActions` puts the plan of an action together from
its own checks and the plans of the methods it calls, as the handler calls them; the
same operators give the plans of user mode and of bot mode. The plan of `send_photo`
stands for its three siblings, an album has two files, and an invitation of several
people two requests. A list of messages that is deleted or forwarded is one request,
as in the code. What a request carries and what a result looks like is left out.

`ToolCalls` runs the plans: `FirstCall` chooses an action, a form, a mode and the one
check the call fails, if any; each following step is one action and may end the call
with the answer the code gives. A request may be refused, or its answer be lost with
or without the effect (`Change`). `CallAgain` is the caller that has read the error:
it repeats the call as it was or put right, in the other mode when it was told so.

Six forms of a call may stop after a change; the constant `Halves` names them and the
properties leave them out: `send` with `resume_session` (in user mode it posts the message
and then answers with the mode error of `RecordResumeSession`), `settings` of title and
description, an invitation in several requests, the two invite links, whose answer
may come back in a form the code refuses, and a download over a file of the same name:
both backends create the target in place, which empties it, and remove it when the rest
fails (`bot.go`, 901-916; `user.go`, 1160-1163), so the earlier file is gone. A download
into a free name leaves nothing but, perhaps, the directory made for it.

### Peers

`Seek` begins a call of `resolveNumeric`. `LookupNumeric` asks gotd's manager, which
makes a request for an id in its store, and that may fail; `Recall` is `knownPeer`;
`Enter` the mutex and the rate limit of `sweepPeers`; `Walk(c, n, ok)` one of its four
sources (folders, contacts, chat list, archive), which fails or ends where the id turns
up. `Recall` and `LookupNumeric` follow once more, and `Return` answers with the error of
the last lookup: Telegram's own or `PEER_NOT_FOUND`. An id that is found ends the call
(`Done`).
Between these steps other calls learn of chats (`Learn`, `ReadFolders`), the account gains
one (`Appear`), time passes (`Interval`) and `cache_clear` runs in its two steps
(`Forget`, `ForgetSweep`). `store` is gotd's peer manager, `index` is `knownPeers`.
`had` and `excuse` record what was true when a call began and what disturbed its sweep.
`Place` says which source lists a chat, 0 for those beyond the thousand a list is
walked for. `shown` holds, per kind of result, the ids handed out by results that keep the
entities they came with: folder actions (`ReadFolders`), and the chat list, the contacts
and the members of a chat (`Learn`, `rememberPeers`). History, search, drafts, blocked
people, imported contacts and new chats hand ids out too and keep nothing, although the
answer had the hashes (`user.go`, 633-686; `user_contacts.go`, 64-96;
`user_messages.go`, 352-368): such an id is no different here from one the process was
never told of. Ids of basic groups need no hash and are left out, as is a chat that moves
between list and archive during a sweep.

### Aliases, ResumeMap, Folders

`Aliases`: `SaveAlias` and `DeleteAlias` load the file and decide; `OpenTmp`, `FillTmp`
and `RenameTmp` are `os.WriteFile` and `os.Rename`; `handle` is the file an open
handle points at, which may have been moved into place by another change. `Die` is a kill.
`told` is what the changes that finished leave, one after another.

`ResumeMap`: `Record` is the append, `ReadLines`, `Truncate` and `WriteBack` are
`trimResumeMap`, `Lookup` reads. A line keeps its chat id as the caller spelled it, and
`Matches` is the comparison of `bot.go`, 595-601: by how the two print. A press carries an
integer. A text of digits prints alike; a JSON number is read back as a float64, which
prints alike up to six digits and with an exponent from seven on (`Long`); an `@name` or
an alias never does.

`Folders`: `CreateFolder`, `DeleteFolder`, `AddChat`, `RemoveChat` and `ReorderFolders`
read the folders and decide what to write (`Decide`); `UpdateFilter` and `UpdateOrder`
are the requests, and Telegram stores what they bring. An editor is a call or another
client. `meant` is what the finished edits ask for.

### Relay

`GetUpdates` polls from the offset in the file, which makes Telegram forget what lies
below; an empty file asks from the oldest update. `TakeNext` takes an update of the
batch and empties the offset file, `WriteOffset` fills it (or `WriteFails`). `Handle`
skips an update or goes on: for a text to `SendReply` (the brain, the error text and the
"only text" reply are one reply, sent once), for a press to `AppendOwn`, `PushLast`,
`CutQueue`, `Resume` and `Fire`, each with what may be refused. Answering the press at
Telegram leaves no trace in the relay, and whether the answer failed is not looked at, so
it is part of `Handle`. The relay's own file is only read for its last line. A delivery
may arrive without the relay knowing (`Attempt`). `KilledRelay` is a container restart at
any step. `Consume` is the reader of `Callbacks` reduced to its cursor: it takes any
number of the oldest lines. Telegram drops updates after a day, which is left out. In
queue mode `Callbacks` takes the lines to come in increasing order; `QueueInOrder` is that
assumption, shown of the relay that writes them.

`MCTools` puts these six beside each other: a behaviour moves one of them and leaves
the others as they began, so that one run covers what are independent state machines.

## 3. What is checked

Runs that hold:

| Run | Instance | Shows |
|---|---|---|
| `CallbacksPoll` | 1 server, 2 callers, 4 updates (one no press, one rejected), limits 1 and 3, 1 crash, 1 failed write | `TypeOK`, `EachPressOnce`, `LossBounded`, `OnlyConsumersTake`, `CursorNeverBack` |
| `CallbacksQueue` | queue file, 3 presses (one answered by the relay), `since_id` in use, 1 crash | `AnsweredOnce`, `OnlyConsumersTake`, and the refinement `Delivers`, which implies `EachPressOnce` |
| `CallbacksLive` | 2 updates, the press second, limit 1 | `CallsReturn`, `EveryPressArrives` |
| `SessionExclusive` | a server, an auth, a logout, 2 keys, 1 crash, no deadline | `TypeOK`, `OneClient`, `AccountKept` |
| `SessionSlow` | 2 sharing servers (one seeded), an adopt, deadlines, 1 crash | `ClaimedClients`, `NoLeakedClaim` |
| `ServerCalls` | 2 callers, 4 backends, user mode, `auth --phone` and `logout` | `TypeOK`, `PublishedIsUp`, `RetryIsReal`, `NeverOrphans` |
| `ServerHeals` | the loop, no refresh, both modes, all commands | `HealsByItself` |
| `Tools` | all actions in both modes, every fault, two tries; 2 resolutions of 2 ids (in a folder, in the archive only); 2 changes of 2 aliases at a time, 4 in all; 2 registrations at a time, 4 in all, 2 kept, one chat id long and one short; 2 editors, 3 folder ids (one shared), 2 chats, 4 edits; 2 presses, a text and a stranger's update, a queue of 1 line, 1 kill, 1 refusal | `ToolsType`, `ErrorsChangeNothing`, `RepeatIsSafe`, `AdviceWorks`, `MistakesAreFree`, `UnknownHasReason`, `ShownResolves`, `SerialChangesKeep`, `NeverSilentlyRepointed`, `NewestSessionFound`, `EditsLand`, `TabsComplete`, `KillCostsOne`, `SecondTimeHasReason` |
| `MultiUser` | 2 users (one only with bot tokens), 2 forms at a time, 4 clients, durable backend, 1 restart | `TypeOK`, `ServedIsOwn`, `OneAtATime`, `PendingApart`, `IndexSound`, and the refinement `SessionsArePromised`, which implies `Restorable` |

Runs that find a disagreement between the code and what it or its documentation
says (each is a finding in `PROJECT.json`, with the lines):

| Run | What happens |
|---|---|
| `CallbacksPeekSince` | a peek with `since_id` takes presses away from the consumer |
| `ServerSignIn` | the server keeps out the sign-in it asks for |
| `ResumeByNumber` | a session registered under the number of its chat, as documented, is not found by any press |

The models show more than the runs ask. These follow from the code as modelled, and
are hazards without a property, because no statement about them holds:

- two server processes of one session keep the cursor they loaded at their first
  call, and hand out the same queued press; everything about presses is therefore
  stated for one process;
- with `Deadlines` (as in `SessionSlow`), `OneClient` fails: the connect deadline and a
  cancelled context release the claim while the cancelled client still runs
  (`user.go`, 203-218), and the next process opens the same key;
- a connect of the loop that meets `auth --phone` at its prompt, or a `logout`, is told
  the session is busy and the loop ends for good (`server.go`, 157-166), although the
  command is soon over; `HealsByItself` therefore has that end as its second case;
- with refreshes (as in `ServerCalls`), `HealsByItself` fails: a refresh during an
  outage closes the backend, fails to connect once and leaves nobody to retry
  (`server.go`, 309-319);
- the import of a session string overwrites a session that another process stored
  after its check, because both come before the claim;
- with servers that share a session and a `logout` beside them, `AccountKept` fails: a
  `logout` that was refused the claim removes the session file all the same (`main.go`,
  381), and the next server dials with a new key while the first still runs;
- a refused process may be told the pid of an earlier holder (a shared holder does
  not write the pid, and nobody clears it);
- a connection whose client died keeps its handle, so its reason is not reported;
- while a refresh is connecting, tool calls of a configured server are told to sign
  in;
- in the multi-user server a second form of a user may disconnect the client that the
  first has just made active; a client made anew after a restart does not know the
  hash of the code, so that a right code is refused; a session that cannot be
  restored is deleted;
- an authorization check that gets no answer marks the account as not signed in;
- next to a session file, a refresh does not look at a bot token just saved;
- two overlapping changes of the alias file lose one, repoint an alias unasked, or leave
  a torn file, which the next change replaces by its own alias alone;
- overlapping registrations, and a kill inside the rewrite, lose lines of the resume map;
- a folder that is created takes the id of a shared folder, because `dialogFilters`
  leaves those out, and replaces it; overlapping edits of one folder undo each other;
- an id that exists is called unknown when another call's sweep has stopped early within
  the last fifteen seconds; or when a message, a draft, a search or the list of blocked
  people has just handed it out, past what a sweep reaches, since those results are not
  remembered, although `serialize.go` calls such an id what callers pass to follow-ups;
- a call the code itself refuses is mostly not told why: `SafeError` (`result.go`, 56) lets
  only five kinds of error through, and makes "Operation failed. Check server logs for
  details." of an unknown name, a missing file or a connection that is down, whose
  messages are written for the caller (answer `hidden` in `ToolCalls`);
- a download that fails takes an earlier file of the same name with it;
- a press whose push into the server's queue is refused stays in the relay's own file, and
  when no session takes it either it reaches nobody, although the relay's README (line 39)
  says it "is already in the queue first";
- an offset file left empty, by a kill between emptying and writing it or by a full disk,
  brings the whole batch again: its presses are queued and delivered a second time;
- a copy that the relay could not append makes it push the press before instead;
- a delivery that times out, or a fire request without an answer, although the session has
  the press, is followed by another, and two sessions act on it;
- an answer that is lost makes a careful caller repeat a change: messages are sent
  without an identifier of the caller's.

**Bounds.** `MaxId`, `MaxKey`, `MaxCrashes`, `MaxFaults`, `MaxRestarts`, `Backend`,
`Client`, `BotOnly`, in `MCTools` `MaxTries`, `MaxNews`, `MaxClears`, `MaxSeeks`,
`MaxChanges`, `MaxLines`, `MaxEdits`, `MaxNamed` (ids a reorder names),
`MaxUpdates`, `MaxRefused`, `MaxKilled`, and the number of processes, callers, users and
tasks are the only bounds. Two callers are what the mutex is about, and a third only
repeats the second. Four updates make a batch of three with a non-press inside, and one
left over. One crash suffices because a restart returns every variable of the process to
its initial value; what it may meet is the state of the files. Two keys tell "the same"
from "another" account. Three or four backends cover one per goroutine and a published
one; an exhausted pool only delays `NewBackend`. In `MultiUser` a user needs at most
four clients (active, pending, and one for each of two forms); `BotOnly` keeps the
second user's forms to bot tokens, which is enough to share every structure that is not
per user. In `Tools`, two tries show every repetition, since a try depends on the one
before only through what it changed; one chat is in the cheapest source and one in the
last, so that a sweep has to walk all four; four alias changes are two that overlap, one
before and one after; two lines are kept of four, so that the map is trimmed more than
once; four edits make three folders and a reorder, or two that meet. For the relay, one kill and
one refusal in a batch of up to four show what each costs, alone and together; two
presses overflow a queue of one line. The offset write fails once at most (`wiped`). The
run does not
check for deadlock, because it ends when these bounds are used up. The theorems below do
not have these bounds.

**Symmetry** is used for callers, backends, tasks, clients and, in `Tools`, the two calls
that resolve an id, in runs without liveness; nothing is chosen by an order of them.

**Fairness.** Weak fairness for the steps of a call and of the loop: goroutines are
scheduled, and every request ends (HTTP client timeout, connect deadline). Strong
fairness for `Lock`: Go's mutex goes to a waiter that has starved for a
millisecond. `DiligentSpec` adds agents that keep reading and a connection that
works now and then, without which no press can arrive; `FairSpec` of `Server`
adds that an outage ends; `OperatedSpec` that the operator runs the command the
server asks for whenever it can run, and types the code.

**Conditions in properties.** `EachPressOnce` and `AnsweredOnce` are about a disk that
works (`faults = 0`): a failed cursor write is logged and ignored by the code, and a
crash after it does replay the queue. `NeverOrphans` is about a user session under the
exclusive lock: in bot mode two concurrent connects do lose a backend (a hazard in
`PROJECT.json`). `OneClient` and `AccountKept` are checked without deadlines, because a
deadline breaks the first (above). `SerialChangesKeep` and `NeverSilentlyRepointed` are
about changes that do not overlap, `NewestSessionFound` about registrations that do not
and are not killed inside the rewrite, and for the lines whose chat id prints like the press's,
`HealsByItself` about a server nobody tells to refresh, `ShownResolves` about ids from
results that keep their entities, `EditsLand` and `TabsComplete` about edits that
do not concern the same folder or the order and what there is to order: everything else
is in the model and is lost there. `SecondTimeHasReason` ends with an offset file left
empty and excepts deliveries without an answer; `KillCostsOne` counts the refusals too.
`ErrorsChangeNothing`, `RepeatIsSafe` and `MistakesAreFree` leave out the six forms in
`Halves`; the first two also what a lost answer hides.

## 4. What is proved

Proved by TLAPS for every value of the constants that the named assumptions
(`CallbacksAssumption`, `SessionAssumption`, `ServerAssumption`, `MultiUserAssumption`,
`Words`, `PlanType`, `PlaceType`, `AliasNames`, `FolderIds`, `SomeEntries`, `RelayUpdates`)
allow; TLC evaluates these
assumptions in every run.

**Callbacks.** `TypeCorrect`: `[]TypeOK`, with no further assumption. The others assume
one server process on the cursor file (`OneProcess`): a second one would read from the
cursor it loaded at its first call, and replay what the other has taken. `CursorInv` is
the inductive invariant: `EachPressOnce` alone is not inductive, since nothing in it
says that what a reader is about to get is new. It adds that a read holds the mutex
(`MutexHeld`), that it asks for nothing below the cursor in memory and that this is not
behind the file (`ReadsAhead`), and that what is on its way or was handed out lies below
the cursor, in one place (`PassedOn`). From it follow `PressOnce` (`EachPressOnce`),
`CursorForward` (`CursorNeverBack`) and, when no write fails, `ImplementsStream`: each
step of the reader is a `Claim`, a `Hand`, a `Lose` or a stutter of `PressStream`.

`NoSecondAnswer` (`AnsweredOnce`) adds to it that what was answered lies behind the cursor
and that a press still to be served was not (`AnswersBehind`, `ToServe`). The other two
need to know what a read has got: `ReadInv` adds that reads start where the cursor is and
hold an initial part of what waits there (`ReadsInOrder`), that nobody has skipped ahead
when nobody passes `since_id` (`SinceUnused`), and that a batch has no more presses than
the call's limit (`BatchFits`). `ConsumersTake` (`OnlyConsumersTake`) follows, except for a poll with
`since_id`, where it is false (run `CallbacksPeekSince`). For `LossIsBounded`
(`LossBounded`) each step is shown to lose nothing, or to be a crash that loses at most
what the calls had in hand (`LostStep`), and a union of as many sets as there are callers,
each of at most a limit's size, is counted (`FamilyFits`).

**SessionClaim.** `SessionTypeCorrect`; `ClaimInvariant` with `ClaimInv`, which ties the
claim to the place where a process is (`HolderPhase`, `ClientPhase`), makes holders
compatible (`SharersOnly`) and, without deadlines, keeps a cancelled client inside
the `Disconnect` that waits for it (`WaitedFor`). From it `ClientsAreClaimed` and
`ClaimNeverLeaks` follow in all configurations, and `OneClientPerKey` without
deadlines. `AccountsAreKept` holds under `Plain`: no deadline, no seed, no `adopt`, and no `logout`
where servers share the session (section 3 says what happens there). It needs
`AccountInv` as well: while the file holds a signed-in key nobody uses another
(`SignedInUse`), a server that shares the session and uses a signed-in key has it from the
file (`SharersFollow`), and no key is used before Telegram made it (`KnownKeys`). `ConnectionsKeepToTheClaim` and, without
deadlines, `ClientsKeepToTheClaim` are the two refinements of `SessionUse`, step by step.

**Server.** `ServerTypeCorrect`; `PublishedStaysUp` by `OwnerInv`, in which a backend
has one owner (the goroutine that builds it, then `s.backend`, then the goroutine that
took it out); `WaitingIsForTheLoop` (`RetryIsReal`) by `LoopEnded`; `NoneIsLost`, for a
user session under the exclusive lock (`UserOnly`), by `ClaimInv`, in which whatever is
up holds the one claim there is, so a second connect is refused before it could
overwrite the first. `ServerKeepsToTheClaim` is the refinement of `SessionUse`, in every mode
and with backends that are lost: a user client has the claim before it dials
(`UserClaims`). `OneUserClient` follows: one server runs two clients on a session only
when it was told to share it.

**MultiUser.** `MultiUserTypeCorrect`. `IndexIsSound` and `SessionsAreKept` rest on
`RestartInv`: no form is handled while sessions are restored, a session that is given up
has left the index (`RestoreFirst`), and the record is written before the index
(`Recorded`). `UsersAreIsolated` and `PendingIsApart` rest on `OwnerInv` besides: a
client in hand or pending is its user's (`Owned`), a form has come as far as its place
in the code says (`Progress`), and a client that is being connected is referred to by
one task alone (`Alone`), which is why making it pending or active cannot take it from
another. `SoleUsersStayConnected` (`OneAtATime`) adds `Live`: clients of users whose forms
never overlapped are connected, wherever their one form stands (`SoleForm`).
`ServerKeepsItsPromise` is the refinement of `UserSessions` (`SessionsArePromised`),
durable backend or not. `WriteInv` says that one task writes at a time and that the
record is of the kind of client it is about to make active; a client at work does not change its
kind (`BotsStay`), which is set when a client is made. Through it two theorems of the abstract
module hold of the server: `WorkIsBacked`, tools run only where a restart would restore
a sign-in, and on an account Telegram has signed in; and `NoSignInIsLost`, what is saved is
taken away only while no tools of that user run.

**Tool calls.** `CallsTypeCorrect`, and four theorems about any plans: if no step
follows a change (`ChangeLast`) and no file is emptied before what replaces it is there
(`NothingOver`), `ErrorsLeaveNothing` and `RepeatsAreSafe`; if arguments
and mode are looked at before the first request (`MistakesFirst`), `MistakesStayFree`; if
no call is turned away in both modes (`ServedSomewhere`) nor before the name of its action
was looked at (`NamedFirst`), `AdviceHelps` (`AdviceWorks`): a mode that refused the call
has the step for it (`Turned`), and a call that stands there got past the name (`Unflawed`).
The five conditions are about finite sequences and the plans of this code meet them, the
first three apart from `Halves`: TLC evaluates them in `ToolsType` on all plans. `CallsBasis` ties the
running call to its plan and to what it has passed; `Orderly` says who is to blame when
a change is done twice.

**Peers.** `PeersTypeCorrect`; `UnknownNeedsReason` and `ShownStaysKnown` by `PeersInv`:
what was shown is in the index or the store (`ShownIsKept`), a call under way without an excuse either knows
its id or has not yet walked the source that lists it (`WalkedIsKnown`), and what a call
was told at its start stays true or is excused (`WantStays`, `Honest`). An id from a
folder is found in the index, without a request; one from another list is in the store,
so it is called unknown only if Telegram did not answer for it.

**Aliases.** `AliasTypeCorrect`; `SerialChangesAreKept` and `OnlyReplaceRepoints` by
`AliasInv`: while no changes overlap, the one under way is alone (`Alone`), its copy is
the file with one alias changed as it may be (`OwnCopy`), and the temporary file holds
that copy when it is renamed (`OwnTmp`), whatever an earlier kill had left in it.

**Folders.** `FoldersTypeCorrect`; `AllEditsLand` by `FoldersInv`: what an edit is about
to write is what it asks of the folder as it is now (`Fits`), because no other edit under
way is about that folder (`Apart`). `TabsStayComplete` (`TabsComplete`) by `TabsInv`: the
tabs, and every order about to be written, name each folder there is once (`Complete`),
because no folder is created or deleted while a reorder is under way. That `Ordered` makes
such an order of any ids (`OrderComplete`) rests on `PickProperties`: what is picked from
a sequence at a set of positions has their elements and repeats none, since each
position of a finite set has a rank of its own and each rank a position (`RankGrows`,
`NthIsThere`).

**Resume map.** `ResumeTypeCorrect`; `NewestSessionIsFound` (`NewestSessionFound`) by
`TrimInv`: while nothing has disturbed it, one registration is under way at most, and the
file, unless it is emptied, and what is to be written back are the last lines ever
appended, whatever their chat ids, at least as many as a trim keeps (`KeepsNewest`). The end of a sequence looks a
message up as the whole does when it has the message at all (`LookupInTail`).

**Relay.** `RelayTypeCorrect`; `EachKillCostsOne` (`KillCostsOne`) and
`SecondTimesHaveReasons` (`SecondTimeHasReason`) by `RelayInv`: the offset in the file and
what Telegram has forgotten are no further than the update in hand (`OffsetsBehind`), the
updates that have had their turn and reached nobody are no more than the kills and
refusals (`MissedPaid`), and while the offset file was never left empty a press that was
pushed or given has had its only turn (`OneTurn`).
`QueueStaysInOrder` by `OrderInv`, which adds that the last line of the relay's own file
is the newest of all and the cursor stands behind a line that was read (`LastIsNewest`);
it ends with an offset file left empty, where the order is indeed lost. `QueueStaysCapped`:
the queue exceeds its cap by the line just pushed and one per kill between a push and its
cut. No run names these two, which were checked on an instance of `Relay` by itself.

**Only model-checked:** everything about liveness (`CallsReturn`, `EveryPressArrives`,
`HealsByItself`), which needs fairness and ENABLED; the findings; and `ToolsType`, of which
the types of the six parts are proved one by one, and which for the rest evaluates the five
conditions on the plans as they are, a finite table. `Callbacks` is proved for one server
process and `NoneIsLost`, `OneClientPerKey` and `AccountsAreKept` under the conditions
named, because without them the code does what section 3 lists.

## 5. What is not modelled, and the plan

Not planned: the fields of requests and results (`serialize.go`), text and path checks
as predicates, embedded documentation, the Python backends and tools (the predecessor of
the Go code, of the same shape), build scripts. They keep no state, and a model would
repeat them line by line.

Left for later, in this order:

1. `CredStore`: first run of the machine secret; composed with `Server` for the order
   of save, refresh and reset.
2. `CredentialState` (Python): the OTP and 2FA steps over module globals.
3. The peek filter of `callbacks` (`message_id`), which hides presses behind its limit.
4. `Keyboard`, `ClockOffset`, `ClosestMatch`: functions with a reference definition,
   checked over bounded inputs.
5. `SessionClaim` and `Server` in one state machine, beyond the promise they share.
