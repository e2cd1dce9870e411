---------------------------- MODULE MCCallbacks ----------------------------
(***************************************************************************)
(* Instances of Callbacks.  Update 2 is not a press; press 3 comes from a  *)
(* sender the caller does not allow; press 1 is already answered when the  *)
(* queue is written.                                                       *)
(***************************************************************************)
EXTENDS Callbacks, TLC

CONSTANTS c1, c2, s1

OneServer  == [c \in Caller |-> s1]
Presses    == Id \ {2}
Expected   == Presses \ {3}
Queued     == Id
FromRelay  == {1}
NoneYet    == {}
LatePress  == {2}
AnyCaller  == Permutations(Caller)
=============================================================================
