------------------------------ MODULE MCServer ------------------------------
(***************************************************************************)
(* Instances of Server: one or two concurrent tool calls.                  *)
(***************************************************************************)
EXTENDS Server, TLC

CONSTANTS c1, c2, b1, b2, b3, b4

AnyBackend == Permutations(Backend) \cup Permutations(Caller)
=============================================================================
