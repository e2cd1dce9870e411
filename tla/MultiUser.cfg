CONSTANTS
  u1 = u1
  u2 = u2
  r1 = r1
  r2 = r2
  k1 = k1
  k2 = k2
  k3 = k3
  k4 = k4
  None = None
  Sub = {u1, u2}
  Request = {r1, r2}
  Client = {k1, k2, k3, k4}
  BotOnly = {u2}
  Durable = TRUE
  MaxRestarts = 1
SPECIFICATION Spec
SYMMETRY Interchangeable
INVARIANTS TypeOK ServedIsOwn OneAtATime PendingApart IndexSound
PROPERTIES SessionsArePromised
