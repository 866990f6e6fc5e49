CONSTANTS
  None = None
  s1 = s1  s2 = s2  n1 = n1  n2 = n2
  Request = {r1}
  AccessKey = {k1}
  Known = {}
  Expiration = 1
  Capacity = 1
  MinDelay = 1
  MaxDelay = 2
  MaxTime = 1
  MaxFaults = 0
  ApiCall = {p1, p2}
  Name = {n1}
  Satellite = {s1, s2}
  Source <- Sources2
  Contents <- Lists2
  Activities <- Claims
  MaxChanges = 0
SPECIFICATION Spec
CHECK_DEADLOCK FALSE
PROPERTIES PutOfExistingIsError
