CONSTANTS
  c1 = c1
  c2 = c2
  s1 = s1
  NoCaller = NoCaller
  Caller = {c1, c2}
  Server = {s1}
  ServerOf <- OneServer
  MaxId = 3
  Callback <- Queued
  Welcome <- Queued
  PreAnswered <- FromRelay
  Limits = {1, 2}
  QueueMode = TRUE
  SinceIdUsed = TRUE
  MaxCrashes = 1
  MaxFaults = 0
SPECIFICATION Spec
SYMMETRY AnyCaller
INVARIANTS AnsweredOnce
PROPERTIES OnlyConsumersTake Delivers
