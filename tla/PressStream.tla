---------------------------- MODULE PressStream ----------------------------
(***************************************************************************)
(* What the callback reader promises, without files, processes or          *)
(* Telegram: presses are claimed in id order, a claimed press is handed to *)
(* one caller or lost, and nothing below the mark is ever claimed again    *)
(* (internal/telegram/bot.go, GetCallbackQueries: "an update handed out    *)
(* here is confirmed with Telegram and never returned again").             *)
(***************************************************************************)
EXTENDS Integers

CONSTANTS
  Id,        \* update ids
  Callback   \* the updates that are presses

VARIABLES
  next,     \* no press with a smaller id will be claimed any more
  claimed,  \* presses on their way to a caller
  taken     \* presses that reached a caller

Init == next = 0 /\ claimed = {} /\ taken = {}

\* A consuming call takes some of the presses from the mark up to `highest`
\* and moves the mark past it.
Claim(highest, presses) ==
  /\ highest >= next
  /\ presses \subseteq Callback \cap next..highest
  /\ next' = highest + 1
  /\ claimed' = claimed \cup presses
  /\ UNCHANGED taken

Hand(presses) ==
  /\ presses \subseteq claimed
  /\ claimed' = claimed \ presses
  /\ taken' = taken \cup presses
  /\ UNCHANGED next

Lose(presses) ==
  /\ presses \subseteq claimed
  /\ claimed' = claimed \ presses
  /\ UNCHANGED <<next, taken>>

Next ==
  \/ \E highest \in Id, presses \in SUBSET Callback : Claim(highest, presses)
  \/ \E presses \in SUBSET claimed : Hand(presses) \/ Lose(presses)

Spec == Init /\ [][Next]_<<next, claimed, taken>>
=============================================================================
