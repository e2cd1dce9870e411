CONSTANTS
  c1 = c1
  c2 = c2
  b1 = b1
  b2 = b2
  b3 = b3
  b4 = b4
  Loop = Loop
  NoBackend = NoBackend
  Caller = {c1, c2}
  Refresher = {c1, c2}
  Backend = {b1, b2, b3, b4}
  Mode = {"user"}
  Command = {"phone", "logout"}
  SharedLock = FALSE
SPECIFICATION Spec
SYMMETRY AnyBackend
INVARIANTS TypeOK PublishedIsUp RetryIsReal NeverOrphans
