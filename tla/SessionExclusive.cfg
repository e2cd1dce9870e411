CONSTANTS
  p1 = p1
  p2 = p2
  p3 = p3
  NoProc = NoProc
  Proc = {p1, p2, p3}
  Program <- AuthAndLogout
  Shared = {}
  Seeded = {}
  MaxKey = 2
  Deadlines = FALSE
  MaxCrashes = 1
SPECIFICATION Spec
INVARIANTS TypeOK OneClient
PROPERTIES AccountKept
