CONSTANTS
  c1 = c1
  c2 = c2
  s1 = s1
  NoCaller = NoCaller
  Caller = {c1, c2}
  Server = {s1}
  ServerOf <- OneServer
  MaxId = 3
  Callback <- Presses
  Welcome <- Expected
  PreAnswered <- NoneYet
  Limits = {1, 2}
  QueueMode = FALSE
  SinceIdUsed = TRUE
  MaxCrashes = 0
  MaxFaults = 0
SPECIFICATION Spec
PROPERTIES OnlyConsumersTake
