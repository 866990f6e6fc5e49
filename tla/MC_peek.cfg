CONSTANTS
  None = None
  n1 = n1
  n2 = n2
  n3 = n3
  k1 = k1
  Node = {n1, n2}
  Key = {k1}
  Reusable = {}
  Client = {c1}
  Reader = {r1}
  Join <- FullMesh
  ExpiresAt <- NeverExpires
  ReplicationLimit = 1
  FirstStart = FALSE
  Bound <- Invalidating
SPECIFICATION GetSpec
INVARIANTS NeverServesInvalid
