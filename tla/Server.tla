------------------------------- MODULE Server -------------------------------
(***************************************************************************)
(* The life of a stdio server: the background connect loop, the credential *)
(* actions of the config tool, the backend every tool call is served from  *)
(* and what a tool call is told when there is none.                        *)
(*                                                                         *)
(* Go sources: internal/server/server.go, internal/tools/config.go, the    *)
(* part of internal/config/config.go that decides what the credentials     *)
(* describe, and the auth and logout commands, run meanwhile by the        *)
(* operator in processes of their own (SessionClaim has those in detail).  *)
(*                                                                         *)
(* Tool calls run concurrently with the loop and with each other.  The     *)
(* environment holds no credentials.  Shutting down is left out: it ends   *)
(* the process.                                                            *)
(***************************************************************************)
EXTENDS Integers, FiniteSets

CONSTANTS
  Loop,        \* the goroutine of StartConnect
  Caller,      \* goroutines of tool calls
  NoBackend,   \* a nil backend
  Backend,     \* bound: backends that exist at one time
  Mode,        \* what was saved before the start: a subset of "bot", "user"
  Command,     \* what the operator runs: a subset of "bot", "phone", "logout"
  SharedLock,  \* TELEGRAM_SESSION_LOCK=shared
  Refresher    \* callers that may use config(action="setup_complete")

ASSUME ServerAssumption ==
  /\ Loop \notin Caller
  /\ NoBackend \notin Backend
  /\ Mode \subseteq {"bot", "user"}
  /\ Command \subseteq {"bot", "phone", "logout"}
  /\ SharedLock \in BOOLEAN
  /\ Refresher \subseteq Caller

Thread == Caller \cup {Loop}

VARIABLES
  saved,        \* what the credential store holds: a mode or "none"
  session,      \* the session file has content
  signedIn,     \* the account in the session file is signed in
  reachable,    \* Telegram answers
  visitor,      \* the operator's command that holds the session claim, or "none"
  settings,     \* s.settings: the mode it describes, or "none"
  configured,   \* s.configured
  pendingAuth,  \* s.pendingAuth
  connecting,   \* s.connecting
  connErr,      \* s.connErr: "none", "error" or "busy"
  published,    \* s.backend
  life,         \* [Backend -> "fresh", "dialing" or "up"]
  kind,         \* [Backend -> mode it was built for]
  holders,      \* backends of this process that hold the session claim
  pc,           \* [Thread -> ...]
  mine,         \* [Thread -> backend]  the local variable backend
  want          \* [Thread -> mode]  the local variable settings of a refresh

credentials == <<saved, session, signedIn>>
state       == <<configured, pendingAuth, connecting, connErr, published>>
backends    == <<life, kind, holders>>
world       == <<reachable, visitor>>
vars == <<credentials, world, settings, state, backends, pc, mine, want>>

Goto(t, where) == pc' = [pc EXCEPT ![t] = where]

\* config.Load and ApplySaved: the saved credentials are looked at only when
\* there is no session file to make the settings complete without them.
Described == IF session THEN "user" ELSE saved

Init ==
  /\ saved \in Mode \cup {"none"}
  /\ session \in BOOLEAN /\ (session => "user" \in Mode)
  /\ signedIn \in BOOLEAN /\ (signedIn => session)
  /\ reachable \in BOOLEAN /\ visitor = "none"
  /\ settings = Described /\ settings # "none"
  /\ configured = TRUE /\ pendingAuth = FALSE
  /\ connecting = TRUE /\ connErr = "none"
  /\ published = NoBackend
  /\ life = [b \in Backend |-> "fresh"]
  /\ kind \in [Backend -> {"bot"}]
  /\ holders = {}
  /\ pc = [t \in Thread |-> IF t = Loop THEN "connect" ELSE "idle"]
  /\ mine = [t \in Thread |-> NoBackend]
  /\ want = [t \in Thread |-> "none"]

(***************************************************************************)
(* Connect, for the loop and for a refresh: build a backend, claim the     *)
(* session in user mode, dial, publish.  A user client without a session   *)
(* gets a new one, signed in to nothing.  An error ends a refresh and      *)
(* sends the loop round again.                                             *)
(***************************************************************************)
Done(t)    == Goto(t, IF t = Loop THEN "succeeded" ELSE "idle")

\* Mutant of Discard: the claim is not released with the backend.
DiscardClaimed(b) == life' = [life EXCEPT ![b] = "fresh"] /\ UNCHANGED holders

Discard(b) == life' = [life EXCEPT ![b] = "fresh"] /\ holders' = holders \ {b}

Failed(t, why) ==
  /\ Goto(t, IF t = Loop THEN "failed" ELSE "idle")
  /\ connErr' = IF t = Loop THEN why ELSE connErr
  /\ mine' = [mine EXCEPT ![t] = NoBackend]
  /\ Discard(mine[t])
  /\ UNCHANGED <<credentials, world, settings, configured, pendingAuth, connecting,
                 published, kind, want>>

NothingToConnect(t) ==
  /\ pc[t] = "connect"
  /\ settings = "none"
  /\ Done(t)
  /\ UNCHANGED <<credentials, world, settings, state, backends, mine, want>>

NewBackend(t, b) ==
  /\ pc[t] = "connect"
  /\ settings # "none"
  /\ life[b] = "fresh"
  /\ life' = [life EXCEPT ![b] = "dialing"]
  /\ kind' = [kind EXCEPT ![b] = settings]
  /\ mine' = [mine EXCEPT ![t] = b]
  /\ Goto(t, IF settings = "user" THEN "claim" ELSE "dial")
  /\ UNCHANGED <<credentials, world, settings, state, holders, want>>

\* Mutant of Claim: the session is opened without a look at the lock.
ClaimAnyway(t) ==
  /\ pc[t] = "claim"
  /\ holders' = holders \cup {mine[t]}
  /\ Goto(t, "dial")
  /\ UNCHANGED <<credentials, world, settings, state, life, kind, mine, want>>

\* A command of the operator claims the session for itself.
Claimable == visitor = "none" /\ (holders = {} \/ SharedLock)

Claim(t) ==
  /\ pc[t] = "claim"
  /\ Claimable
  /\ holders' = holders \cup {mine[t]}
  /\ Goto(t, "dial")
  /\ UNCHANGED <<credentials, world, settings, state, life, kind, mine, want>>

Refused(t) ==
  /\ pc[t] = "claim"
  /\ ~Claimable
  /\ Failed(t, "busy")

DialFails(t) ==
  /\ pc[t] = "dial"
  /\ ~reachable
  /\ Failed(t, "error")

DialUp(t) ==
  /\ pc[t] = "dial"
  /\ reachable
  /\ life' = [life EXCEPT ![mine[t]] = "up"]
  /\ session' = (session \/ kind[mine[t]] = "user")
  /\ signedIn' = (signedIn /\ (session \/ kind[mine[t]] = "bot"))
  /\ Goto(t, "publish")
  /\ UNCHANGED <<saved, world, settings, state, kind, holders, mine, want>>

\* IsAuthorized: a bot always is; for a user Telegram is asked, and no answer is no.
IsAuthorized(b) == kind[b] = "user" => signedIn /\ reachable

Publish(t) ==
  /\ pc[t] = "publish"
  /\ published' = mine[t]
  /\ configured' = TRUE
  /\ pendingAuth' = (settings = "user" /\ ~IsAuthorized(mine[t]))
  /\ mine' = [mine EXCEPT ![t] = NoBackend]
  /\ Done(t)
  /\ UNCHANGED <<credentials, world, settings, connecting, connErr, backends, want>>

Connect(t) ==
  \/ NothingToConnect(t)
  \/ \E b \in Backend : NewBackend(t, b)
  \/ Claim(t)
  \/ Refused(t)
  \/ DialFails(t)
  \/ DialUp(t)
  \/ Publish(t)

\* connectLoop, after an attempt.
LoopEnds ==
  /\ pc[Loop] = "succeeded"
  /\ connecting' = FALSE /\ connErr' = "none"
  /\ Goto(Loop, "done")
  /\ UNCHANGED <<credentials, world, settings, configured, pendingAuth, published,
                 backends, mine, want>>

\* Mutant of LoopGivesUp: the loop ends and nobody is told.
LoopGoesQuiet ==
  /\ pc[Loop] = "failed"
  /\ connErr = "busy"
  /\ Goto(Loop, "done")
  /\ UNCHANGED <<credentials, world, settings, state, backends, mine, want>>

LoopGivesUp ==
  /\ pc[Loop] = "failed"
  /\ connErr = "busy"
  /\ connecting' = FALSE
  /\ Goto(Loop, "done")
  /\ UNCHANGED <<credentials, world, settings, configured, pendingAuth, connErr,
                 published, backends, mine, want>>

\* Mutant of LoopRetries: one attempt is all there is.
LoopTriesOnce ==
  /\ pc[Loop] = "failed"
  /\ connErr # "busy"
  /\ connecting' = FALSE
  /\ Goto(Loop, "done")
  /\ UNCHANGED <<credentials, world, settings, configured, pendingAuth, connErr,
                 published, backends, mine, want>>

LoopRetries ==
  /\ pc[Loop] = "failed"
  /\ connErr # "busy"
  /\ Goto(Loop, "connect")
  /\ UNCHANGED <<credentials, world, settings, state, backends, mine, want>>

(***************************************************************************)
(* RefreshCredentials, config(action="setup_complete"): read what `auth`   *)
(* saved, close the backend, connect the one now described.                *)
(***************************************************************************)
Reload(c) ==
  /\ pc[c] = "idle"
  /\ c \in Refresher
  /\ settings' = Described
  /\ want' = [want EXCEPT ![c] = Described]
  /\ Goto(c, "close")
  /\ UNCHANGED <<credentials, world, state, backends, mine>>

\* Mutant of TakeOut: no check for a nil backend.
TakeOutNil(c) ==
  /\ pc[c] = "close"
  /\ mine' = [mine EXCEPT ![c] = published]
  /\ published' = NoBackend
  /\ Goto(c, "disconnect")
  /\ UNCHANGED <<credentials, world, settings, configured, pendingAuth, connecting,
                 connErr, backends, want>>

\* Mutant of TakeOut: the backend is still published while it is disconnected.
TakeOutLater(c) ==
  /\ pc[c] = "close"
  /\ mine' = [mine EXCEPT ![c] = published]
  /\ Goto(c, IF published = NoBackend THEN "apply" ELSE "disconnect")
  /\ UNCHANGED <<credentials, world, settings, state, backends, want>>

\* Close takes the backend out under the lock, then disconnects it.
TakeOut(c) ==
  /\ pc[c] = "close"
  /\ mine' = [mine EXCEPT ![c] = published]
  /\ published' = NoBackend
  /\ Goto(c, IF published = NoBackend THEN "apply" ELSE "disconnect")
  /\ UNCHANGED <<credentials, world, settings, configured, pendingAuth, connecting,
                 connErr, backends, want>>

Disconnect(c) ==
  /\ pc[c] = "disconnect"
  /\ Discard(mine[c])
  /\ mine' = [mine EXCEPT ![c] = NoBackend]
  /\ Goto(c, "apply")
  /\ UNCHANGED <<credentials, world, settings, state, kind, want>>

Apply(c) ==
  /\ pc[c] = "apply"
  /\ configured' = (want[c] # "none")
  /\ pendingAuth' = FALSE
  /\ Goto(c, IF want[c] = "none" THEN "idle" ELSE "connect")
  /\ UNCHANGED <<credentials, world, settings, connecting, connErr, published,
                 backends, mine, want>>

\* ResetCredentials, config(action="setup_reset"): clear the store, then the flag.
ClearStore(c) ==
  /\ pc[c] = "idle"
  /\ saved' = "none"
  /\ Goto(c, "reset")
  /\ UNCHANGED <<session, signedIn, world, settings, state, backends, mine, want>>

ClearFlag(c) ==
  /\ pc[c] = "reset"
  /\ configured' = FALSE
  /\ Goto(c, "idle")
  /\ UNCHANGED <<credentials, world, settings, pendingAuth, connecting, connErr,
                 published, backends, mine, want>>

(***************************************************************************)
(* The operator's commands, each a process of its own that needs the claim *)
(* for itself to use the session.                                          *)
(***************************************************************************)
AuthBot ==
  /\ "bot" \in Command
  /\ reachable
  /\ saved' = "bot"
  /\ UNCHANGED <<session, signedIn, world, settings, state, backends, pc, mine, want>>

VisitorsOnly == UNCHANGED <<reachable, settings, state, backends, pc, mine, want>>

\* Connect of a command: the claim, then the client; a new session if there is none.
Visit(command) ==
  /\ command \in Command
  /\ visitor = "none" /\ holders = {}
  /\ visitor' = command
  /\ session' = (session \/ reachable)
  /\ signedIn' = (signedIn /\ (session \/ ~reachable))
  /\ UNCHANGED saved /\ VisitorsOnly

\* auth --phone keeps the claim while it connects and until the code is typed.
AuthPhone == Visit("phone")

\* The code is typed; a file that was removed meanwhile may come back.
SignIn ==
  /\ visitor = "phone"
  /\ reachable
  /\ visitor' = "none"
  /\ saved' = "user" /\ session' \in {session, TRUE} /\ signedIn' = TRUE
  /\ VisitorsOnly

\* It cannot connect, or the code is wrong or never typed.
CodeFails ==
  /\ visitor = "phone"
  /\ visitor' = "none"
  /\ UNCHANGED credentials /\ VisitorsOnly

\* logout looks for the file, then revokes its session if it can.
LogOut ==
  /\ session
  /\ Visit("logout")

Revoke ==
  /\ visitor = "logout"
  /\ visitor' = "none"
  /\ signedIn' \in {signedIn, signedIn /\ ~reachable}
  /\ UNCHANGED <<saved, session>> /\ VisitorsOnly

\* The file goes, revoked or not, and a client that runs may write it again.
Forget ==
  /\ "logout" \in Command
  /\ visitor # "logout"
  /\ saved' = "none"
  /\ session' \in {FALSE} \cup (IF holders = {} /\ visitor = "none" THEN {} ELSE {session})
  /\ UNCHANGED <<signedIn, visitor>> /\ VisitorsOnly

\* Telegram stops answering, and answers again.
Outage ==
  /\ reachable
  /\ reachable' = FALSE
  /\ UNCHANGED <<credentials, visitor, settings, state, backends, pc, mine, want>>

Recover ==
  /\ ~reachable
  /\ reachable' = TRUE
  /\ UNCHANGED <<credentials, visitor, settings, state, backends, pc, mine, want>>

LoopStep == Connect(Loop) \/ LoopEnds \/ LoopGivesUp \/ LoopRetries
CallStep(c) == Connect(c) \/ TakeOut(c) \/ Disconnect(c) \/ Apply(c) \/ ClearFlag(c)

Next ==
  \/ LoopStep
  \/ \E c \in Caller : Reload(c) \/ ClearStore(c) \/ CallStep(c)
  \/ AuthBot
  \/ AuthPhone \/ SignIn \/ CodeFails
  \/ LogOut \/ Revoke \/ Forget
  \/ Outage
  \/ Recover

Spec == Init /\ [][Next]_vars

\* A goroutine that can go on does, and an outage ends.
FairSpec ==
  /\ Spec
  /\ WF_vars(LoopStep)
  /\ \A c \in Caller : WF_vars(CallStep(c))
  /\ WF_vars(Recover)

\* The operator also runs the command the server asks for, whenever it can run,
\* and types the code.
OperatedSpec == FairSpec /\ SF_vars(AuthPhone) /\ SF_vars(SignIn)

\* ready, connectStatus and NotReady: what a tool call gets.
Reply ==
  CASE published # NoBackend /\ ~pendingAuth -> "run"
    [] published = NoBackend /\ connErr # "none" /\ connecting -> "still retrying"
    [] published = NoBackend /\ connErr # "none" /\ ~connecting -> "failed"
    [] published = NoBackend /\ connErr = "none" /\ connecting /\ configured -> "still connecting"
    [] OTHER -> IF configured THEN "sign in" ELSE "set up"

-----------------------------------------------------------------------------
\* A goroutine has a backend of its own exactly while it connects or closes one.
HasBackend == {"claim", "dial", "publish", "disconnect"}

TypeOK ==
  /\ saved \in {"none", "bot", "user"}
  /\ settings \in {"none", "bot", "user"}
  /\ {session, signedIn, reachable, configured, pendingAuth, connecting} \subseteq BOOLEAN
  /\ visitor \in {"none", "phone", "logout"}
  /\ connErr \in {"none", "error", "busy"}
  /\ published \in Backend \cup {NoBackend}
  /\ life \in [Backend -> {"fresh", "dialing", "up"}]
  /\ kind \in [Backend -> {"bot", "user"}]
  /\ holders \subseteq Backend
  /\ pc \in [Thread -> HasBackend \cup {"idle", "connect", "succeeded", "failed", "done",
                                      "close", "apply", "reset"}]
  /\ mine \in [Thread -> Backend \cup {NoBackend}]
  /\ want \in [Thread -> {"none", "bot", "user"}]
  /\ \A t \in Thread : mine[t] # NoBackend <=> pc[t] \in HasBackend

\* server.go, Close: a backend is out of every tool call's reach before it is
\* disconnected, whoever else connects, closes or publishes meanwhile.
PublishedIsUp ==
  published # NoBackend =>
    life[published] = "up" /\ \A t \in Thread : mine[t] # published

\* server.go: "The server keeps retrying, so try again in a moment."  Nobody is
\* sent back to wait for a loop that has ended.
RetryIsReal ==
  Reply \in {"still retrying", "still connecting"} => pc[Loop] # "done"

\* A backend that is connected, or holds the session claim, can still be closed:
\* it is the published one or somebody is on the way to publish or close it.  A
\* lost one would refuse the session to this very server until it is restarted.
NeverOrphans ==
  \A b \in Backend : (life[b] # "fresh" \/ b \in holders) =>
    (b = published \/ \E t \in Thread : mine[t] = b)

\* What the proofs are by.  A backend has one owner: the goroutine that builds
\* it, then s.backend, then the goroutine that took it out.
OneOwner ==
  /\ \A t, u \in Thread : t # u /\ mine[t] # NoBackend => mine[t] # mine[u]
  /\ \A t \in Thread : mine[t] # NoBackend => mine[t] # published
OwnedLife ==
  /\ published # NoBackend => life[published] = "up"
  /\ \A t \in Thread : pc[t] \in {"claim", "dial"} => life[mine[t]] = "dialing"
  /\ \A t \in Thread : pc[t] \in {"publish", "disconnect"} => life[mine[t]] = "up"

OwnerInv == TypeOK /\ OneOwner /\ OwnedLife

\* A loop that has ended is not connecting any more.
LoopEnded == pc[Loop] = "done" => ~connecting

\* And, with nothing but a user session under the exclusive lock: what is up
\* holds the one claim there is.
OnlyUser   == saved # "bot" /\ settings # "bot" /\ \A b \in Backend : life[b] # "fresh" => kind[b] = "user"
UpClaims   == \A b \in Backend : life[b] = "up" => b \in holders
DialClaims == \A t \in Thread : pc[t] = "dial" => mine[t] \in holders
OneHolder  == \A a, b \in holders : a = b

ClaimInv ==
  OwnerInv /\ NeverOrphans /\ OnlyUser /\ UpClaims /\ DialClaims /\ OneHolder

\* The claim as this process uses it: a backend in user mode is a user of the
\* session that SessionClaim has in detail, from Connect until Disconnect.
OnSession == {b \in Backend : life[b] = "up" /\ kind[b] = "user"}

Session == INSTANCE SessionUse
  WITH User <- Backend, Sharer <- (IF SharedLock THEN Backend ELSE {}), open <- OnSession

SessionIsClaimed == Session!Spec

\* What that is proved by: a user client dials and runs under the claim.
UserClaims ==
  /\ \A b \in OnSession : b \in holders
  /\ \A t \in Thread : pc[t] = "claim" => kind[mine[t]] = "user"
  /\ \A t \in Thread : (pc[t] = "dial" /\ kind[mine[t]] = "user") => mine[t] \in holders

\* server.go: "retrying with backoff so an outage heals by itself", unless an
\* attempt meets another process in the session: the loop then ends for good, and
\* from then on every call is told so.
HealsByItself ==
  (<>[](configured /\ reachable)) =>
    []<>(published # NoBackend) \/ <>[](connErr = "busy" /\ Reply = "failed")

\* server.go: "run `better-telegram-mcp auth --phone +<number>` to complete it".
AuthCompletes == (<>[]reachable) => (pendingAuth ~> ~pendingAuth)
=============================================================================
