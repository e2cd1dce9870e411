CONSTANTS
  c1 = c1
  c2 = c2
  b1 = b1
  b2 = b2
  b3 = b3
  b4 = b4
  Loop = Loop
  NoBackend = NoBackend
  Caller = {c1}
  Refresher = {c1}
  Backend = {b1, b2}
  Mode = {"user"}
  Command = {"phone"}
  SharedLock = FALSE
SPECIFICATION OperatedSpec
PROPERTIES AuthCompletes
