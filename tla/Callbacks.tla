----------------------------- MODULE Callbacks -----------------------------
(***************************************************************************)
(* Delivery of inline-button presses ("callback queries") to the agents    *)
(* that call the `callbacks` action of the messages tool.                  *)
(*                                                                         *)
(* Go sources: internal/telegram/bot.go (GetCallbackQueries, readQueue,    *)
(* confirmUpdates, loadCursor, storeCursor) and internal/tools/messages.go *)
(* (handleCallbacks).                                                      *)
(*                                                                         *)
(* A press is an update with a positive id, handed out by Telegram in      *)
(* increasing order.  The reader finds it either in Telegram's own         *)
(* getUpdates stream (QueueMode = FALSE) or in a JSONL file another        *)
(* process fills (QueueMode = TRUE).  A server process serialises its      *)
(* reads with a mutex, keeps a cursor in memory and copies it to a file;   *)
(* the file is all that survives a crash, and every server process of one  *)
(* session uses the same file.                                             *)
(***************************************************************************)
EXTENDS Integers, FiniteSets

CONSTANTS
  Server,       \* server processes that use the same session directory
  Caller,       \* tool calls that may be in progress at once
  ServerOf,     \* [Caller -> Server]
  NoCaller,     \* "the mutex is free"
  MaxId,        \* bound: update ids are 1..MaxId
  Callback,     \* the updates that carry a callback_query
  Welcome,      \* the presses rejectionReason lets through
  PreAnswered,  \* the presses whose queue line says "answered": true
  Limits,       \* values of `limit`, after clamp
  QueueMode,    \* TELEGRAM_CALLBACK_QUEUE_FILE is set
  SinceIdUsed,  \* callers pass the last "cursor" back as since_id
  MaxCrashes,   \* bound: server crashes
  MaxFaults     \* bound: failed writes of the cursor file

Id == 1..MaxId

\* A nil *int: update ids are positive, so "from the start" is offset 0.
NoOffset == 0

ASSUME CallbacksAssumption ==
  /\ ServerOf \in [Caller -> Server]
  /\ NoCaller \notin Caller
  /\ MaxId \in Nat
  /\ Callback \subseteq Id
  /\ Welcome \subseteq Callback
  /\ PreAnswered \subseteq Callback
  /\ Limits \subseteq Nat \ {0}
  /\ QueueMode \in BOOLEAN
  /\ SinceIdUsed \in BOOLEAN
  /\ MaxCrashes \in Nat
  /\ MaxFaults \in Nat

VARIABLES
  latest,     \* updates 1..latest have happened
  source,     \* ids the stream (or the queue file) still holds
  file,       \* the offset in the cursor file
  offset,     \* [Server -> offset]   BotBackend.callbackOffset
  loaded,     \* [Server -> BOOLEAN]  BotBackend.cursorLoaded
  mu,         \* [Server -> Caller \cup {NoCaller}]  BotBackend.mu
  pc,         \* [Caller -> ...]      where the call is
  ask,        \* [Caller -> arguments of the call]
  from,       \* [Caller -> offset]   the offset the read asks for
  batch,      \* [Caller -> SUBSET Id] what the read returned
  todo,       \* [Caller -> SUBSET Id] the part handleCallbacks has not looked at
  watermark,  \* [Caller -> id]       "cursor" of the last result
  answered,   \* presses answered at Telegram
  twice,      \* history: presses answered a second time
  taken,      \* history: presses a consuming call has returned
  again,      \* history: presses a consuming call has returned a second time
  crashes,    \* history: crashes so far
  faults      \* history: failed cursor writes so far

stream  == <<latest, source>>
cursor  == <<file, offset, loaded>>
request == <<pc, ask, from, batch, todo, watermark>>
history == <<answered, twice, taken, again, crashes, faults>>
vars == <<latest, source, file, offset, loaded, mu, pc, ask, from, batch, todo,
          watermark, answered, twice, taken, again, crashes, faults>>

Ask == [peek : BOOLEAN, since : 0..MaxId, limit : Limits \cup {1}]
NoAsk == [peek |-> FALSE, since |-> 0, limit |-> 1]

\* The first n of S in id order: what Telegram returns, and what sort plus
\* updates[:limit] leaves in readQueue.
Oldest(S, n) == {i \in S : Cardinality({j \in S : j < i}) < n}

\* A since_id may move the offset forward, never back.
StartAt(cur, since) == IF since # 0 /\ since + 1 > cur THEN since + 1 ELSE cur

\* The cursor a server reads from: the one in memory once loaded, until then
\* the file's.
Cursor(s) == IF loaded[s] THEN offset[s] ELSE file

Init ==
  /\ latest = 0
  /\ source = {}
  /\ file = NoOffset
  /\ offset = [s \in Server |-> NoOffset]
  /\ loaded = [s \in Server |-> FALSE]
  /\ mu = [s \in Server |-> NoCaller]
  /\ pc = [c \in Caller |-> "idle"]
  /\ ask = [c \in Caller |-> NoAsk]
  /\ from = [c \in Caller |-> NoOffset]
  /\ batch = [c \in Caller |-> {}]
  /\ todo = [c \in Caller |-> {}]
  /\ watermark = [c \in Caller |-> 0]
  /\ answered = {}
  /\ twice = {}
  /\ taken = {}
  /\ again = {}
  /\ crashes = 0
  /\ faults = 0

(***************************************************************************)
(* Environment: the next update.  A line of the queue may already be       *)
(* answered by the process that wrote it.                                  *)
(***************************************************************************)
Arrive ==
  /\ latest < MaxId
  /\ latest' = latest + 1
  /\ source' = source \cup {latest + 1}
  /\ answered' = answered \cup ({latest + 1} \cap PreAnswered)
  /\ UNCHANGED <<cursor, mu, request, twice, taken, again, crashes, faults>>

(***************************************************************************)
(* handleCallbacks, up to the backend call.  The arguments it refuses      *)
(* (answer_text too long, bad regex, message_id without peek) change       *)
(* nothing and are left out; message_id only filters what a peek shows.    *)
(***************************************************************************)
Call(c, peek, since, limit) ==
  /\ pc[c] = "idle"
  /\ pc' = [pc EXCEPT ![c] = "lock"]
  /\ ask' = [ask EXCEPT ![c] = [peek |-> peek, since |-> since, limit |-> limit]]
  /\ UNCHANGED <<stream, cursor, mu, from, batch, todo, watermark, history>>

\* Mutant of Lock: polls are not serialised.
LockIgnoringMutex(c) ==
  LET s == ServerOf[c] IN
  /\ pc[c] = "lock"
  /\ mu' = [mu EXCEPT ![s] = c]
  /\ loaded' = [loaded EXCEPT ![s] = TRUE]
  /\ offset' = [offset EXCEPT ![s] = Cursor(s)]
  /\ from' = [from EXCEPT ![c] = StartAt(Cursor(s), ask[c].since)]
  /\ pc' = [pc EXCEPT ![c] = "read"]
  /\ UNCHANGED <<stream, file, ask, batch, todo, watermark, history>>

\* Mutant of Lock: a new process does not load the cursor file.
LockWithoutLoading(c) ==
  LET s == ServerOf[c] IN
  /\ pc[c] = "lock"
  /\ mu[s] = NoCaller
  /\ mu' = [mu EXCEPT ![s] = c]
  /\ loaded' = [loaded EXCEPT ![s] = TRUE]
  /\ from' = [from EXCEPT ![c] = StartAt(offset[s], ask[c].since)]
  /\ pc' = [pc EXCEPT ![c] = "read"]
  /\ UNCHANGED <<stream, file, offset, ask, batch, todo, watermark, history>>

(***************************************************************************)
(* GetCallbackQueries: b.mu.Lock, loadCursor, the offset to read from.     *)
(***************************************************************************)
Lock(c) ==
  LET s == ServerOf[c] IN
  /\ pc[c] = "lock"
  /\ mu[s] = NoCaller
  /\ mu' = [mu EXCEPT ![s] = c]
  /\ loaded' = [loaded EXCEPT ![s] = TRUE]
  /\ offset' = [offset EXCEPT ![s] = Cursor(s)]
  /\ from' = [from EXCEPT ![c] = StartAt(Cursor(s), ask[c].since)]
  /\ pc' = [pc EXCEPT ![c] = "read"]
  /\ UNCHANGED <<stream, file, ask, batch, todo, watermark, history>>

\* The calls of D are over, their locals gone.
End(D) ==
  /\ pc' = [c \in Caller |-> IF c \in D THEN "idle" ELSE pc[c]]
  /\ ask' = [c \in Caller |-> IF c \in D THEN NoAsk ELSE ask[c]]
  /\ from' = [c \in Caller |-> IF c \in D THEN NoOffset ELSE from[c]]
  /\ batch' = [c \in Caller |-> IF c \in D THEN {} ELSE batch[c]]
  /\ todo' = [c \in Caller |-> IF c \in D THEN {} ELSE todo[c]]

\* Mutant of ReturnBatch: other updates are passed on as presses.
ReturnEverything(c, got) ==
  /\ batch' = [batch EXCEPT ![c] = got]
  /\ todo' = [todo EXCEPT ![c] = got]
  /\ mu' = [mu EXCEPT ![ServerOf[c]] = NoCaller]
  /\ pc' = [pc EXCEPT ![c] = "serve"]

\* The read is over: drop what is not a press (onlyCallbacks), release the
\* mutex, go on in handleCallbacks.
ReturnBatch(c, got) ==
  /\ batch' = [batch EXCEPT ![c] = got \cap Callback]
  /\ todo' = [todo EXCEPT ![c] = got \cap Callback]
  /\ mu' = [mu EXCEPT ![ServerOf[c]] = NoCaller]
  /\ pc' = [pc EXCEPT ![c] = "serve"]

\* Mutant of GotBatch: a peek moves the cursor as well.
PeekConsumes(c, got) ==
  IF got # {}
  THEN /\ batch' = [batch EXCEPT ![c] = got]
       /\ pc' = [pc EXCEPT ![c] = "store"]
       /\ UNCHANGED <<mu, todo>>
  ELSE ReturnBatch(c, got)

\* Mutant of GotBatch: a batch without a press does not move the cursor.
OnlyPressesMoveCursor(c, got) ==
  IF got \cap Callback # {} /\ ~ask[c].peek
  THEN /\ batch' = [batch EXCEPT ![c] = got]
       /\ pc' = [pc EXCEPT ![c] = "store"]
       /\ UNCHANGED <<mu, todo>>
  ELSE ReturnBatch(c, got)

\* A non-empty consuming read moves the cursor before it returns.
GotBatch(c, got) ==
  IF got # {} /\ ~ask[c].peek
  THEN /\ batch' = [batch EXCEPT ![c] = got]
       /\ pc' = [pc EXCEPT ![c] = "store"]
       /\ UNCHANGED <<mu, todo>>
  ELSE ReturnBatch(c, got)

\* Telegram forgets an update once getUpdates asks for a higher offset.
Confirmed(next) == {i \in source : i >= next}

(***************************************************************************)
(* The first getUpdates call of a poll: Telegram drops what lies below the *)
(* offset and returns the oldest of the rest.                              *)
(***************************************************************************)
GetUpdates(c) ==
  /\ ~QueueMode
  /\ pc[c] = "read"
  /\ source' = Confirmed(from[c])
  /\ GotBatch(c, Oldest(Confirmed(from[c]), ask[c].limit))
  /\ UNCHANGED <<latest, cursor, ask, from, watermark, history>>

(***************************************************************************)
(* readQueue: the queue file is read whole and never written.              *)
(***************************************************************************)
ReadQueue(c) ==
  /\ QueueMode
  /\ pc[c] = "read"
  /\ GotBatch(c, Oldest({i \in source : i >= from[c]}, ask[c].limit))
  /\ UNCHANGED <<stream, cursor, ask, from, watermark, history>>

\* Mutant of ReadFails: the error path leaves the mutex locked.
ReadFailsLocked(c) ==
  /\ pc[c] = "read"
  /\ UNCHANGED source
  /\ End({c})
  /\ UNCHANGED <<latest, cursor, mu, watermark, history>>

(***************************************************************************)
(* The read fails: no answer, ok:false (a webhook, another poller), an     *)
(* unreadable queue file.  Telegram may have acted on a request whose      *)
(* answer was lost.                                                        *)
(***************************************************************************)
ReadFails(c) ==
  /\ pc[c] = "read"
  /\ \/ UNCHANGED source
     \/ ~QueueMode /\ source' = Confirmed(from[c])
  /\ mu' = [mu EXCEPT ![ServerOf[c]] = NoCaller]
  /\ End({c})
  /\ UNCHANGED <<latest, cursor, watermark, history>>

\* Mutant of StoreCursor: the offset of the last press, not the one after it.
StoreLastId(c, highest) ==
  LET s == ServerOf[c] IN
  /\ pc[c] = "store"
  /\ highest \in batch[c]
  /\ \A i \in batch[c] : i <= highest
  /\ offset' = [offset EXCEPT ![s] = highest]
  /\ file' = highest
  /\ \/ QueueMode /\ ReturnBatch(c, batch[c])
     \/ /\ ~QueueMode
        /\ pc' = [pc EXCEPT ![c] = "confirm"]
        /\ UNCHANGED <<mu, batch, todo>>
  /\ UNCHANGED <<stream, loaded, ask, from, watermark, history>>

(***************************************************************************)
(* storeCursor: the cursor in memory, then a temporary file renamed over   *)
(* the cursor file.  A failed write is logged and otherwise ignored.  The  *)
(* queue reader returns at once; the poll has a confirming call to make.   *)
(***************************************************************************)
StoreCursor(c, highest) ==
  LET s == ServerOf[c] IN
  /\ pc[c] = "store"
  /\ highest \in batch[c]
  /\ \A i \in batch[c] : i <= highest
  /\ offset' = [offset EXCEPT ![s] = highest + 1]
  /\ \/ file' = highest + 1 /\ UNCHANGED faults
     \/ faults < MaxFaults /\ faults' = faults + 1 /\ UNCHANGED file
  /\ \/ QueueMode /\ ReturnBatch(c, batch[c])
     \/ /\ ~QueueMode
        /\ pc' = [pc EXCEPT ![c] = "confirm"]
        /\ UNCHANGED <<mu, batch, todo>>
  /\ UNCHANGED <<stream, loaded, ask, from, watermark, answered, twice, taken, again, crashes>>

\* Mutant of Confirm: a failed confirmation fails the call.
ConfirmOrError(c) ==
  /\ pc[c] = "confirm"
  /\ \/ source' = Confirmed(offset[ServerOf[c]]) /\ ReturnBatch(c, batch[c])
          /\ UNCHANGED <<ask, from>>
     \/ /\ UNCHANGED source
        /\ mu' = [mu EXCEPT ![ServerOf[c]] = NoCaller]
        /\ End({c})
  /\ UNCHANGED <<latest, cursor, watermark, history>>

(***************************************************************************)
(* confirmUpdates: tell Telegram to drop the batch; a failure is ignored.  *)
(***************************************************************************)
Confirm(c) ==
  /\ pc[c] = "confirm"
  /\ \/ source' = Confirmed(offset[ServerOf[c]])
     \/ UNCHANGED source
  /\ ReturnBatch(c, batch[c])
  /\ UNCHANGED <<latest, cursor, ask, from, watermark, history>>

\* Mutant of Serve: acknowledges what the queue says is answered.
ServeAnsweredToo(c, i) ==
  /\ pc[c] = "serve"
  /\ i \in todo[c]
  /\ \A j \in todo[c] : i <= j
  /\ todo' = [todo EXCEPT ![c] = @ \ {i}]
  /\ \/ /\ i \in Welcome
        /\ ~ask[c].peek
        /\ answered' = answered \cup {i}
        /\ twice' = twice \cup ({i} \cap answered)
     \/ UNCHANGED <<answered, twice>>
  /\ UNCHANGED <<stream, cursor, mu, pc, ask, from, batch, watermark, taken, again, crashes, faults>>

(***************************************************************************)
(* One turn of the loop in handleCallbacks, oldest press first: a press    *)
(* that passes the checks is acknowledged unless this is a peek or the     *)
(* queue says it is answered already.  auto_answer may be off, and a       *)
(* failed acknowledgement is only logged.                                  *)
(***************************************************************************)
Serve(c, i) ==
  /\ pc[c] = "serve"
  /\ i \in todo[c]
  /\ \A j \in todo[c] : i <= j
  /\ todo' = [todo EXCEPT ![c] = @ \ {i}]
  /\ \/ /\ i \in Welcome \ PreAnswered
        /\ ~ask[c].peek
        /\ answered' = answered \cup {i}
        /\ twice' = twice \cup ({i} \cap answered)
     \/ UNCHANGED <<answered, twice>>
  /\ UNCHANGED <<stream, cursor, mu, pc, ask, from, batch, watermark, taken, again, crashes, faults>>

(***************************************************************************)
(* The result goes to the agent; its "cursor", the highest id seen, is     *)
(* kept by an agent that passes it back.                                   *)
(***************************************************************************)
Reply(c) ==
  /\ pc[c] = "serve"
  /\ todo[c] = {}
  /\ \E w \in 0..MaxId :
       /\ w \in batch[c] \cup {ask[c].since}
       /\ \A i \in batch[c] \cup {ask[c].since} : i <= w
       /\ watermark' = [watermark EXCEPT ![c] = IF SinceIdUsed THEN w ELSE 0]
  /\ IF ask[c].peek
     THEN UNCHANGED <<taken, again>>
     ELSE /\ taken' = taken \cup batch[c]
          /\ again' = again \cup (batch[c] \cap taken)
  /\ End({c})
  /\ UNCHANGED <<stream, cursor, mu, answered, twice, crashes, faults>>

(***************************************************************************)
(* A server process dies with all its calls and is started again: memory   *)
(* is fresh (NewBotBackend), the cursor file is what is left.              *)
(***************************************************************************)
Crash(s) ==
  /\ crashes < MaxCrashes
  /\ crashes' = crashes + 1
  /\ offset' = [offset EXCEPT ![s] = NoOffset]
  /\ loaded' = [loaded EXCEPT ![s] = FALSE]
  /\ mu' = [mu EXCEPT ![s] = NoCaller]
  /\ End({c \in Caller : ServerOf[c] = s})
  /\ UNCHANGED <<stream, file, watermark, answered, twice, taken, again, faults>>

\* The since_id a caller has to pass: none, or the last result's cursor.
SinceIds(c) == {0} \cup IF SinceIdUsed THEN {watermark[c]} ELSE {}

Begin(c) == \E peek \in BOOLEAN, since \in SinceIds(c), limit \in Limits :
              Call(c, peek, since, limit)

Step(c) ==
  \/ GetUpdates(c)
  \/ ReadQueue(c)
  \/ ReadFails(c)
  \/ \E highest \in Id : StoreCursor(c, highest)
  \/ Confirm(c)
  \/ \E i \in Id : Serve(c, i)
  \/ Reply(c)

Next ==
  \/ Arrive
  \/ \E c \in Caller : Begin(c)
  \/ \E c \in Caller : Lock(c)
  \/ \E c \in Caller : Step(c)
  \/ \E s \in Server : Crash(s)

Spec == Init /\ [][Next]_vars

\* Every HTTP request ends (client timeout 30 s) and a goroutine that can run
\* is scheduled; Go's mutex hands itself to a starving waiter, hence SF.
FairSpec ==
  /\ Spec
  /\ \A c \in Caller : WF_vars(Step(c)) /\ SF_vars(Lock(c))

\* Agents that keep making consuming reads, on a connection that lets one of
\* them through now and then.
DiligentSpec ==
  /\ FairSpec
  /\ \A c \in Caller : /\ SF_vars(\E limit \in Limits : Call(c, FALSE, 0, limit))
                       /\ SF_vars(~ask[c].peek /\ (GetUpdates(c) \/ ReadQueue(c)))

-----------------------------------------------------------------------------
StreamOK ==
  /\ latest \in 0..MaxId
  /\ source \subseteq 1..latest

CursorOK ==
  /\ file \in 0..MaxId + 1
  /\ offset \in [Server -> 0..MaxId + 1]
  /\ loaded \in [Server -> BOOLEAN]
  /\ mu \in [Server -> Caller \cup {NoCaller}]

RequestOK ==
  /\ pc \in [Caller -> {"idle", "lock", "read", "store", "confirm", "serve"}]
  /\ ask \in [Caller -> Ask]
  /\ from \in [Caller -> 0..MaxId + 1]
  /\ batch \in [Caller -> SUBSET Id]
  /\ todo \in [Caller -> SUBSET Callback]
  /\ \A c \in Caller : pc[c] = "serve" => batch[c] \subseteq Callback

HistoryOK ==
  /\ watermark \in [Caller -> 0..MaxId]
  /\ answered \subseteq Callback
  /\ twice \subseteq answered
  /\ taken \subseteq Callback
  /\ again \subseteq taken
  /\ crashes \in 0..MaxCrashes
  /\ faults \in 0..MaxFaults

TypeOK == StreamOK /\ CursorOK /\ RequestOK /\ HistoryOK

\* The presses server s would still find.
Waiting(s) == {i \in source \cap Callback : i >= Cursor(s)}

\* The presses of a consuming call that has moved the cursor and not replied.
InFlight(c) ==
  IF pc[c] \in {"confirm", "serve"} /\ ~ask[c].peek THEN batch[c] \cap Callback ELSE {}

\* A read holds the mutex of its server from the lock to its return.
MutexHeld ==
  \A c \in Caller : pc[c] \in {"read", "store", "confirm"} =>
    mu[ServerOf[c]] = c /\ loaded[ServerOf[c]]

\* What a read has asked for, or got and not stored yet, lies at or above the
\* cursor in memory, and that is never behind the file.
ReadsAhead ==
  /\ \A s \in Server : loaded[s] => offset[s] >= file /\ (faults = 0 => offset[s] = file)
  /\ \A c \in Caller :
       /\ pc[c] = "read" => from[c] >= offset[ServerOf[c]]
       /\ pc[c] = "store" => \A i \in batch[c] : i >= offset[ServerOf[c]]
       /\ pc[c] \in {"store", "confirm"} => ~ask[c].peek

\* What is on its way or handed out lies below the cursor, in one place only.
PassedOn ==
  faults = 0 =>
    /\ \A i \in taken : i < file
    /\ \A c \in Caller : \A i \in InFlight(c) : i < file /\ i \notin taken
    /\ \A c, d \in Caller : c # d => InFlight(c) \cap InFlight(d) = {}

\* The inductive invariant behind EachPressOnce, for one server process.
CursorInv == TypeOK /\ MutexHeld /\ ReadsAhead /\ PassedOn

\* docs/messages.md: "`callbacks` returns each press once ... a repeated call
\* cannot replay a decision ... so a restart does not either".  No press is in
\* the result of two consuming calls, whatever the calls and restarts between
\* them, unless a cursor write had failed.
EachPressOnce == faults = 0 => again = {}

\* A press is acknowledged at Telegram at most once, by the process that
\* queued it or by one call here: a spent callback_query_id is not reused.
AnsweredOnce == faults = 0 => twice = {}

\* Presses disappear only with a crashing server, and a crash loses at most
\* what its calls in progress had taken off the stream: every other press that
\* arrived still waits, is on its way to a caller, or was handed out.
LossBounded ==
  LET reach == UNION ({Waiting(s) : s \in Server} \cup {InFlight(c) : c \in Caller}) IN
  \A n \in Limits : (\A m \in Limits : m <= n) =>
    Cardinality((Callback \cap 1..latest) \ (reach \cup taken))
      <= crashes * Cardinality(Caller) * n

\* bot.go: "With consume=false the cursor is left alone, so a watcher can look
\* without taking the press away from whoever acts on it."  A press stops being
\* readable only in a step of a consuming call, which has just read it or whose
\* since_id says it has been seen.
OnlyConsumersTake ==
  [][\A s \in Server : \A i \in Waiting(s) \ Waiting(s)' :
       \E c \in Caller : /\ pc[c] \in {"read", "store"}
                         /\ ~ask[c].peek
                         /\ i \in batch[c] \/ i <= ask[c].since]_vars

\* The cursor file never moves back: an older cursor would hand presses out a
\* second time after the next restart.
CursorNeverBack == [][file' >= file]_file

\* The abstract delivery: with a working disk and one server process the cursor
\* file is its mark, whatever callers, crashes and lost answers do.
Claimed == UNION {InFlight(c) : c \in Caller}
Stream == INSTANCE PressStream WITH next <- file, claimed <- Claimed
Delivers == Stream!Spec

\* A call that started returns, through errors and lost answers: nothing
\* leaves the mutex locked.
CallsReturn == \A c \in Caller : pc[c] # "idle" ~> pc[c] = "idle"

\* As long as some agent keeps reading and no server dies, every press reaches
\* an agent: other updates in the stream, peeks and small limits do not block it.
EveryPressArrives == \A i \in Callback : i <= latest ~> i \in taken \/ crashes > 0
=============================================================================
