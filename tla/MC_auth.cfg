CONSTANTS
  None = None
  s1 = s1  s2 = s2  n1 = n1  n2 = n2
  Request = {r1, r2}
  AccessKey = {k1}
  Known = {}
  Expiration = 1
  Capacity = 1
  MinDelay = 1
  MaxDelay = 1
  MaxTime = 3
  MaxFaults = 1
  ApiCall = {p1, p2}
  Name = {n1, n2}
  Satellite = {s1, s2}
  Source <- Sources2
  Contents <- Lists2
  Activities <- Together
  MaxChanges = 2
SPECIFICATION Spec
CHECK_DEADLOCK FALSE
INVARIANTS AuthApiTypeOK NobodyWaitsInVain RevokedIsRefused HandedOutIsServed ListedIsAllowed NameGivenWithinASecond
PROPERTIES ClientIsServed
SYMMETRY Symmetry
