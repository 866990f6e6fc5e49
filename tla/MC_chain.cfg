CONSTANTS
  None = None
  n1 = n1
  n2 = n2
  n3 = n3
  k1 = k1
  k2 = k2
  k3 = k3
  Node = {n1, n2, n3}
  Key = {k1}
  Reusable = {}
  Client = {c1}
  Join <- ChainJoin
  ExpiresAt <- NeverExpires
  ReplicationLimit = 1
  FirstStart = FALSE
  Bound <- Chained
SPECIFICATION FairSpec
PROPERTIES Convergence
