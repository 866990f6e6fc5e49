CONSTANTS
  None = None
  n1 = n1
  n2 = n2
  n3 = n3
  k1 = k1
  k2 = k2
  k3 = k3
  Node = {n1, n2}
  Key = {k1, k2}
  Reusable = {k1}
  Client = {c1, c2}
  Join <- SelfJoin
  ExpiresAt <- NeverExpires
  ReplicationLimit = 2
  FirstStart = FALSE
  Bound <- Faulty
SPECIFICATION Spec
INVARIANTS CountingInv OwnClockCountsPuts
PROPERTIES OnlyAdminChangesRecords
