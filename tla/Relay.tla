------------------------------- MODULE Relay -------------------------------
(***************************************************************************)
(* The relay (contrib/tg-relay/relay.sh) that owns the bot's update stream *)
(* and hands the presses over.  It polls Telegram from the offset in a     *)
(* file, and takes the updates of a batch one by one: it stores the next   *)
(* offset, then answers and queues a press and gives it to a session, or   *)
(* runs the brain on a text.  A docker restart kills it at any step; the   *)
(* offset file and the server's queue survive.  The reader of the queue is *)
(* the one of Callbacks, with one server.                                  *)
(***************************************************************************)
EXTENDS Integers, Sequences, FiniteSets

CONSTANTS
  Press, Text,   \* the updates that are presses, or texts, of CHAT
  MaxUpdates,    \* bound: update ids are 1..MaxUpdates
  queueCap,      \* lines the queue may have (500), and
  queueKept,     \* lines it is cut to (200)
  MaxRefused,    \* bound: refused writes, pushes and sends
  MaxKilled      \* bound: kills of the relay

ASSUME RelayUpdates ==
  /\ {MaxUpdates, queueCap, MaxRefused, MaxKilled} \subseteq Nat
  /\ Press \cap Text = {} /\ Press \cup Text \subseteq 1..MaxUpdates
  /\ queueKept \in 1..queueCap

VARIABLES
  newest,     \* updates 1..newest have happened
  forgotten,  \* Telegram has dropped the updates below
  stored,     \* the offset file; 0 also when it is empty
  doing,      \* where the relay is
  hand,       \* the update it works on
  upto,       \* the last update of its batch
  ownLast,    \* the last line of the relay's own file, 0 if it has none
  queue,      \* the server's queue file
  mark,       \* the server's cursor
  read,       \* presses the server has returned
  dropped,    \* presses cut from the queue before they were read
  replied,    \* texts answered
  given,      \* per press: the sessions that got it
  attempt,    \* tries of the fire request
  unsure,     \* presses for which a delivery got no answer
  refused,    \* refused writes, pushes and sends
  wiped,      \* the offset file has been left empty
  killed      \* kills of the relay

relayVars == <<newest, forgotten, stored, doing, hand, upto, ownLast, queue, mark, read,
               dropped, replied, given, attempt, unsure, refused, wiped, killed>>
outside   == <<newest, mark, read>>
ours      == <<stored, ownLast, queue, dropped, replied>>
sessions  == <<given, attempt, unsure>>
mishaps   == <<refused, wiped, killed>>

Update == 1..MaxUpdates
Offset == 0..MaxUpdates + 1

RelayType ==
  /\ newest \in 0..MaxUpdates /\ forgotten \in Offset /\ stored \in Offset /\ mark \in Offset
  /\ doing \in {"poll", "next", "write", "handle", "brain", "append", "push", "cut",
                "resume", "fire"}
  /\ hand \in 0..MaxUpdates /\ upto \in 0..MaxUpdates
  /\ ownLast \in Press \cup {0} /\ queue \in Seq(Press)
  /\ read \subseteq Press /\ dropped \subseteq Press /\ replied \subseteq Text
  /\ given \in [Press -> Nat] /\ attempt \in 0..1 /\ unsure \subseteq Press
  /\ refused \in 0..MaxRefused /\ wiped \in BOOLEAN /\ killed \in 0..MaxKilled

RelayInit ==
  /\ newest = 0 /\ forgotten = 0 /\ stored = 0 /\ doing = "poll" /\ hand = 0 /\ upto = 0
  /\ ownLast = 0 /\ queue = <<>> /\ mark = 0 /\ read = {} /\ dropped = {} /\ replied = {}
  /\ given = [u \in Press |-> 0] /\ attempt = 0 /\ unsure = {}
  /\ refused = 0 /\ wiped = FALSE /\ killed = 0

Happens ==
  /\ newest < MaxUpdates /\ newest' = newest + 1
  /\ UNCHANGED <<forgotten, doing, hand, upto, mark, read, ours, sessions, mishaps>>

Later(a, b) == IF a > b THEN a ELSE b

(* Telegram drops what is below the offset even if its answer is lost, and *)
(* takes an empty or zero offset for "from the oldest you hold".           *)
GetUpdates(answer) ==
  LET first == Later(forgotten, stored) IN
  /\ doing = "poll"
  /\ forgotten' = first
  /\ IF answer /\ Later(first, 1) <= newest
     THEN /\ doing' = "next" /\ hand' = Later(first, 1) - 1 /\ upto' = newest
     ELSE UNCHANGED <<doing, hand, upto>>
  /\ UNCHANGED <<outside, ours, sessions, mishaps>>

(* The loop takes the next update, or polls again.  `echo` empties the     *)
(* offset file before it writes it.                                        *)
TakeNext ==
  /\ doing = "next"
  /\ IF hand < upto
     THEN doing' = "write" /\ hand' = hand + 1 /\ stored' = 0 /\ UNCHANGED upto
     ELSE doing' = "poll" /\ hand' = 0 /\ upto' = 0 /\ UNCHANGED stored
  /\ UNCHANGED <<outside, forgotten, ownLast, queue, dropped, replied, sessions, mishaps>>

\* Mutant of WriteOffset: the id itself is stored.
WriteId ==
  /\ doing = "write"
  /\ doing' = "handle" /\ stored' = hand
  /\ UNCHANGED <<outside, forgotten, hand, upto, ownLast, queue, dropped, replied, sessions,
                 mishaps>>

\* Mutant of WriteOffset: the whole batch is confirmed with its first update.
WriteBatch ==
  /\ doing = "write"
  /\ doing' = "handle" /\ stored' = upto + 1
  /\ UNCHANGED <<outside, forgotten, hand, upto, ownLast, queue, dropped, replied, sessions,
                 mishaps>>

WriteOffset ==
  /\ doing = "write"
  /\ doing' = "handle" /\ stored' = hand + 1
  /\ UNCHANGED <<outside, forgotten, hand, upto, ownLast, queue, dropped, replied, sessions,
                 mishaps>>

WriteFails ==
  /\ doing = "write" /\ ~wiped /\ refused < MaxRefused
  /\ doing' = "handle" /\ wiped' = TRUE
  /\ UNCHANGED <<outside, forgotten, hand, upto, ours, sessions, refused, killed>>

(* A press of a stranger, a chat that is not CHAT and a bot are skipped.   *)
(* A press is answered; nobody looks whether that worked.                  *)
Handle ==
  /\ doing = "handle"
  /\ doing' = CASE hand \in Press -> "append"
                [] hand \in Text  -> "brain"
                [] OTHER          -> "next"
  /\ UNCHANGED <<outside, forgotten, hand, upto, ours, sessions, mishaps>>

Refuse(may) == /\ refused' = IF may THEN refused + 1 ELSE refused
               /\ refused' <= MaxRefused

(* Whatever the brain answers, or that it failed, is sent once.            *)
SendReply(fails) ==
  /\ doing = "brain" /\ doing' = "next"
  /\ replied' = IF fails THEN replied ELSE replied \cup {hand}
  /\ Refuse(fails)
  /\ UNCHANGED <<outside, forgotten, hand, upto, stored, ownLast, queue, dropped, sessions,
                 wiped, killed>>

(* The relay's own copy, of which only the last line is read again.        *)
AppendOwn(fails) ==
  /\ doing = "append" /\ doing' = "push"
  /\ ownLast' = IF fails THEN ownLast ELSE hand
  /\ Refuse(fails)
  /\ UNCHANGED <<outside, forgotten, hand, upto, stored, queue, dropped, replied, sessions,
                 wiped, killed>>

(* The last line of that copy goes to the queue, whichever line it is.     *)
PushLast(fails) ==
  /\ doing = "push" /\ doing' = IF fails THEN "resume" ELSE "cut"
  /\ queue' = IF fails \/ ownLast = 0 THEN queue ELSE Append(queue, ownLast)
  /\ Refuse(fails)
  /\ UNCHANGED <<outside, forgotten, hand, upto, stored, ownLast, dropped, replied, sessions,
                 wiped, killed>>

Lines(q) == {q[i] : i \in DOMAIN q}

CutQueue ==
  /\ doing = "cut" /\ doing' = "resume"
  /\ queue' = IF Len(queue) <= queueCap THEN queue
              ELSE SubSeq(queue, Len(queue) - queueKept + 1, Len(queue))
  /\ dropped' = dropped \cup {u \in Lines(queue) \ Lines(queue') : u >= mark /\ u \notin read}
  /\ UNCHANGED <<outside, forgotten, hand, upto, stored, ownLast, replied, sessions, mishaps>>

(* One attempt to give the press to a session: it arrives or not, and the  *)
(* relay knows or not.                                                     *)
Attempt(arrives, known) ==
  /\ known => arrives
  /\ given' = IF arrives THEN [given EXCEPT ![hand] = @ + 1] ELSE given
  /\ unsure' = IF arrives /\ ~known THEN unsure \cup {hand} ELSE unsure

(* No session is registered, or resume is off; or the session is given it. *)
Resume ==
  /\ doing = "resume" /\ attempt' = 0
  /\ \/ doing' = "fire" /\ UNCHANGED <<given, unsure>>
     \/ \E arrives, known \in BOOLEAN :
          Attempt(arrives, known) /\ doing' = IF known THEN "next" ELSE "fire"
  /\ UNCHANGED <<outside, forgotten, hand, upto, ours, mishaps>>

(* Off, or a new session is started, with a second try.                    *)
Fire ==
  /\ doing = "fire"
  /\ \/ attempt = 0 /\ doing' = "next" /\ UNCHANGED sessions
     \/ \E arrives, known \in BOOLEAN :
          /\ Attempt(arrives, known)
          /\ IF known \/ attempt = 1 THEN doing' = "next" /\ attempt' = 0
             ELSE doing' = "fire" /\ attempt' = 1
  /\ UNCHANGED <<outside, forgotten, hand, upto, ours, mishaps>>

KilledRelay ==
  /\ killed < MaxKilled /\ doing # "poll"
  /\ killed' = killed + 1
  /\ doing' = "poll" /\ hand' = 0 /\ upto' = 0 /\ attempt' = 0
  /\ wiped' = (wiped \/ doing = "write")
  /\ UNCHANGED <<outside, forgotten, ours, given, unsure, refused>>

(* A consuming call of the server: the oldest lines from the cursor on.    *)
Consume(last) ==
  /\ last \in Lines(queue) /\ last >= mark
  /\ mark' = last + 1
  /\ read' = read \cup {u \in Lines(queue) : u >= mark /\ u <= last}
  /\ UNCHANGED <<newest, forgotten, doing, hand, upto, ours, sessions, mishaps>>

RelayNext ==
  \/ Happens \/ TakeNext \/ WriteOffset \/ WriteFails \/ Handle \/ CutQueue \/ Resume \/ Fire
  \/ KilledRelay
  \/ \E fails \in BOOLEAN :
       GetUpdates(fails) \/ SendReply(fails) \/ AppendOwn(fails) \/ PushLast(fails)
  \/ \E last \in Press : Consume(last)

RelaySpec == RelayInit /\ [][RelayNext]_relayVars

----------------------------------------------------------------------------
Reachable(u) == IF u \in Text THEN u \in replied
                ELSE u \in read \cup dropped \/ (u >= mark /\ u \in Lines(queue))

(* The updates Telegram no longer holds and the relay does not work on,    *)
(* that reached nobody: not the server, its queue or the chat.             *)
Unseen == {u \in Press \cup Text : u < forgotten /\ ~Reachable(u)}

(* Telegram has forgotten no more updates that nobody saw than the relay   *)
(* was killed or refused: a kill costs the one update it interrupts,       *)
(* however long the batch, and a press once pushed can be read, unless the *)
(* queue was cut (relay.sh, the offset stored before each update).         *)
KillCostsOne == Cardinality(Unseen) <= killed + refused

Times(u) == Cardinality({i \in DOMAIN queue : queue[i] = u})

(* No press is given to two sessions or queued twice, whatever kills come, *)
(* as long as the offset file was never left empty: a delivery without an  *)
(* answer, and a copy that was not appended, are the only other excuses    *)
(* (relay.sh, resume before fire, the offset before the update).           *)
SecondTimeHasReason ==
  ~wiped => /\ \A u \in Press \ unsure : given[u] <= 1
            /\ refused = 0 => \A u \in Press : Times(u) <= 1

(* The relay's side of the reader: a press is queued behind the older ones *)
(* and is not below the cursor unless the server has returned it, so that  *)
(* no line is passed over (bot.go, readQueue: older ids are skipped).  An  *)
(* offset file left empty brings old updates back, behind newer ones.      *)
QueueInOrder ==
  ~wiped => /\ \A i, j \in DOMAIN queue : i <= j => queue[i] <= queue[j]
            /\ \A u \in Lines(queue) : u < mark => u \in read

(* "Append one press to the MCP-side queue and cap that file": the queue   *)
(* is over its cap by the line just pushed, and by one for each kill that  *)
(* came between a push and the cut, which the next cut makes good.         *)
QueueCapped ==
  Len(queue) <= queueCap + killed + (IF doing = "cut" THEN 1 ELSE 0)
=============================================================================
