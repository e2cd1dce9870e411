SPECIFICATION ResumeSpec
CONSTANTS
  Sender = {s1, s2}
  Message = {m1, m2}
  Long = {m1}
  maxResumeEntries = 2
  MaxLines = 3
CHECK_DEADLOCK FALSE
INVARIANT PressCarriesSession
