SPECIFICATION ServerSpec
CONSTANTS
  t1 = t1
  t2 = t2
  t3 = t3
  q1 = q1
  q2 = q2
  c1 = c1
  c2 = c2
  a1 = a1
  a2 = a2
  Token = {t1, t2, t3}
  NoToken = NoToken
  Request = {q1, q2}
  MaxEnds = 2
  MaxLost = 1
  Codes = {c1, c2}
  Links = {"l"}
  Uses = {q1, q2}
  MaxSetups = 2
  MaxAccidents = 1
  Address = {a1, a2}
  Visit = {q1, q2}
  MaxRequests = 1
  Window = 2
  BanTime = 3
  MaxCount = 2
  MaxLostExpiry = 1
SYMMETRY ServerSymmetry
INVARIANTS
  ServerTypeOK
  LogoutHolds
  OneSuccessor
  FactorAsWanted
  UsedOnce
  RefusalsEnd
CHECK_DEADLOCK FALSE
