---------------------------- MODULE UserSessions ----------------------------
(***************************************************************************)
(* What the multi-user server promises each of its users, without forms,   *)
(* tasks, clients or a pending code: a sign-in is saved once Telegram has  *)
(* accepted it, tools run on what was saved when they were put to work,    *)
(* and what is saved stays, through crashes, until a newer sign-in of the  *)
(* user takes its place or it cannot be restored                           *)
(* (auth/telegram_auth_provider.py, restore_sessions; auth/kv_session_     *)
(* store.py).  MultiUser implements it.                                    *)
(***************************************************************************)
CONSTANTS
  User,
  Durable   \* what is saved outlives the process

VARIABLES
  account,  \* [User -> "out", "half" or "in"]  the user's key at Telegram
  saved,    \* [User -> "none", "bot" or "user"]  what a restart would restore
  tools     \* [User -> "none", "bot" or "user"]  what the user's tools run on

Nothing == [u \in User |-> "none"]

Init == account = [u \in User |-> "out"] /\ saved = Nothing /\ tools = Nothing

\* Telegram accepts a code, with or without a password to follow, or a password.
Accept(u) ==
  /\ account[u] # "in"
  /\ \E a \in {"half", "in"} : account' = [account EXCEPT ![u] = a]
  /\ UNCHANGED <<saved, tools>>

\* The tools follow at once, unless the second write of the save fails.
Save(u, kind) ==
  /\ kind = "user" => account[u] = "in"
  /\ saved' = [saved EXCEPT ![u] = kind]
  /\ tools' \in {tools, [tools EXCEPT ![u] = kind]}
  /\ UNCHANGED account

Serve(u) ==
  /\ saved[u] # "none"
  /\ tools' = [tools EXCEPT ![u] = saved[u]]
  /\ UNCHANGED <<account, saved>>

GiveUp(u) ==
  /\ tools[u] = "none"
  /\ saved' = [saved EXCEPT ![u] = "none"]
  /\ UNCHANGED <<account, tools>>

Stop ==
  /\ tools' = Nothing
  /\ saved' = IF Durable THEN saved ELSE Nothing
  /\ UNCHANGED account

Next ==
  \/ Stop
  \/ \E u \in User : \/ Accept(u) \/ Serve(u) \/ GiveUp(u)
                     \/ \E kind \in {"bot", "user"} : Save(u, kind)

Spec == Init /\ [][Next]_<<account, saved, tools>>

-----------------------------------------------------------------------------
\* A user whose tools work is restored by the next start, and nothing but a bot
\* is saved, or at work, that Telegram has not signed in.
Backed ==
  \A u \in User : /\ tools[u] # "none" => saved[u] # "none"
                  /\ "user" \in {saved[u], tools[u]} => account[u] = "in"

\* What is saved for a user is taken away only while no tools of theirs run, and
\* tools move to another sign-in only if that is the one saved.
NoneIsLost ==
  [][\A u \in User :
       /\ Durable /\ saved[u] # "none" /\ saved'[u] = "none" => tools[u] = "none"
       /\ tools'[u] # tools[u] => tools'[u] \in {"none", saved'[u]}
       /\ account[u] = "in" => account'[u] = "in"]_<<account, saved, tools>>
=============================================================================
