CONSTANTS
  p1 = p1
  p2 = p2
  p3 = p3
  NoProc = NoProc
  Proc = {p1, p2, p3}
  Program <- ServersAndMove
  Shared = {p1, p2}
  Seeded = {p1}
  MaxKey = 1
  Deadlines = TRUE
  MaxCrashes = 1
SPECIFICATION Spec
INVARIANTS ClaimedClients NoLeakedClaim
