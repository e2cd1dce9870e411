----------------------------- MODULE MCMultiUser -----------------------------
(***************************************************************************)
(* Instances of MultiUser: u1 gives phone numbers too, u2 only bot tokens. *)
(***************************************************************************)
EXTENDS MultiUser, TLC

CONSTANTS u1, u2, r1, r2, k1, k2, k3, k4

Interchangeable == Permutations(Client) \cup Permutations(Request)
=============================================================================
