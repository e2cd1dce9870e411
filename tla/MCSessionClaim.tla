--------------------------- MODULE MCSessionClaim ---------------------------
(***************************************************************************)
(* Instances of SessionClaim: two or three processes on one session path.  *)
(***************************************************************************)
EXTENDS SessionClaim, TLC

CONSTANTS p1, p2, p3

AllServers     == [p \in Proc |-> "server"]
AuthAndLogout  == p1 :> "server" @@ p2 :> "auth" @@ p3 :> "logout"
ServersAndMove == [p \in Proc |-> IF p = p3 THEN "adopt" ELSE "server"]
=============================================================================
