CONSTANTS
  None = None
  n1 = n1
  n2 = n2
  n3 = n3
  k1 = k1
  k2 = k2
  k3 = k3
  Node = {n1, n2, n3}
  Key = {k1, k2}
  Reusable = {}
  Client = {c1}
  Join <- RelayJoin
  ExpiresAt <- FirstExpires
  ReplicationLimit = 2
  FirstStart = TRUE
  Bound <- RelayedFaulty
SPECIFICATION Spec
INVARIANTS ClockBound NeverBehindOrigin LogHasRecord RecordHasLog HoldersAgree
