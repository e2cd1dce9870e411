CONSTANTS
  c1 = c1
  c2 = c2
  s1 = s1
  NoCaller = NoCaller
  Caller = {c1, c2}
  Server = {s1}
  ServerOf <- OneServer
  MaxId = 4
  Callback <- Presses
  Welcome <- Expected
  PreAnswered <- NoneYet
  Limits = {1, 3}
  QueueMode = FALSE
  SinceIdUsed = FALSE
  MaxCrashes = 1
  MaxFaults = 1
SPECIFICATION Spec
SYMMETRY AnyCaller
INVARIANTS TypeOK EachPressOnce LossBounded
PROPERTIES OnlyConsumersTake CursorNeverBack
