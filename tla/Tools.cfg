SPECIFICATION ToolsSpec
CONSTANTS
  Word <- Strings
  Op <- Actions
  Plan <- AllPlans
  Halves <- HalfWay
  MaxTries = 2
  i1 = i1
  i2 = i2
  Seeker = {i1, i2}
  Peer = {1, 3}
  NoPeer = NoPeer
  Place <- Places
  MaxNews = 1
  MaxClears = 1
  MaxSeeks = 2
  Writer = {w1, w2}
  Alias = {k1, k2}
  PersonId = {p1, p2}
  Nobody = Nobody
  Torn = Torn
  Missing = Missing
  MaxChanges = 4
  Sender = {s1, s2}
  Message = {m1, m2}
  Long = {m1}
  maxResumeEntries = 2
  MaxLines = 4
  Editor = {e1, e2}
  FolderId = {2, 3, 4}
  Item = {c1, c2}
  Shared = {4}
  Gone = Gone
  MaxEdits = 4
  MaxNamed = 2
  Press = {2, 4}
  Text = {3}
  MaxUpdates = 4
  queueCap = 1
  queueKept = 1
  MaxRefused = 1
  MaxKilled = 1
SYMMETRY Same
CHECK_DEADLOCK FALSE
INVARIANTS ToolsType ErrorsChangeNothing RepeatIsSafe AdviceWorks MistakesAreFree
INVARIANTS UnknownHasReason ShownResolves SerialChangesKeep NewestSessionFound
INVARIANTS EditsLand TabsComplete KillCostsOne SecondTimeHasReason
PROPERTY NeverSilentlyRepointed
