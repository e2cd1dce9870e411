----------------------------- MODULE SessionUse -----------------------------
(***************************************************************************)
(* What the claim on a session promises, without files, keys, processes or *)
(* goroutines: a user opens the session while it holds the claim, and      *)
(* lets go of the claim only when it has closed it                         *)
(* (internal/telegram/user.go, Connect: "Claim the session before opening  *)
(* it.  Two clients sharing one auth key make Telegram invalidate it").    *)
(*                                                                         *)
(* SessionClaim implements it with processes that claim for themselves,    *)
(* Server with the backends of one process.                                *)
(***************************************************************************)
CONSTANTS
  User,    \* who may claim the session
  Sharer   \* those who ask for a shared claim

VARIABLES
  holders,  \* users that hold the claim
  open      \* users with a client on the session

Init == holders = {} /\ open = {}

Acquire(u) ==
  /\ \A v \in holders : u \in Sharer /\ v \in Sharer
  /\ holders' = holders \cup {u}
  /\ UNCHANGED open

Open(u) ==
  /\ u \in holders
  /\ open' = open \cup {u}
  /\ UNCHANGED holders

Close(u) ==
  /\ open' = open \ {u}
  /\ UNCHANGED holders

Release(u) ==
  /\ u \notin open
  /\ holders' = holders \ {u}
  /\ UNCHANGED open

\* The client has stopped, or dies with its process, and the claim goes at once.
Drop(u) ==
  /\ open' = open \ {u}
  /\ holders' = holders \ {u}

Next == \E u \in User : Acquire(u) \/ Open(u) \/ Close(u) \/ Release(u) \/ Drop(u)

Spec == Init /\ [][Next]_<<holders, open>>

-----------------------------------------------------------------------------
\* user.go: two clients are on one session only when both asked to share it.
Alone == \A u, v \in open : u # v => u \in Sharer /\ v \in Sharer

\* What Alone is proved by: clients are holders, and holders are compatible.
Held == open \subseteq holders /\ \A u, v \in holders : u # v => u \in Sharer /\ v \in Sharer
=============================================================================
