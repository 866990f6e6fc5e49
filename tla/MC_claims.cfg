CONSTANTS
  None = None
  n1 = n1
  n2 = n2
  n3 = n3
  k1 = k1
  k2 = k2
  k3 = k3
  Node = {n1, n2}
  Key = {k1, k2}
  Reusable = {k1}
  Client = {c1}
  Join <- FullMesh
  ExpiresAt <- NeverExpires
  ReplicationLimit = 1
  FirstStart = FALSE
  Bound <- Claiming
SPECIFICATION FairSpec
PROPERTIES Convergence
