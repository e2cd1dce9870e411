CONSTANTS
  c1 = c1
  c2 = c2
  s1 = s1
  NoCaller = NoCaller
  Caller = {c1, c2}
  Server = {s1}
  ServerOf <- OneServer
  MaxId = 2
  Callback <- LatePress
  Welcome <- LatePress
  PreAnswered <- NoneYet
  Limits = {1}
  QueueMode = FALSE
  SinceIdUsed = FALSE
  MaxCrashes = 1
  MaxFaults = 1
SPECIFICATION DiligentSpec
PROPERTIES CallsReturn EveryPressArrives
