CONSTANTS
  c1 = c1
  c2 = c2
  b1 = b1
  b2 = b2
  b3 = b3
  b4 = b4
  Loop = Loop
  NoBackend = NoBackend
  Caller = {c1}
  Refresher = {}
  Backend = {b1, b2}
  Mode = {"bot", "user"}
  Command = {"bot", "phone", "logout"}
  SharedLock = FALSE
SPECIFICATION FairSpec
PROPERTIES HealsByItself
