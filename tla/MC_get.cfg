CONSTANTS
  None = None
  n1 = n1
  n2 = n2
  n3 = n3
  k1 = k1
  Node = {n1, n2, n3}
  Key = {k1}
  Reusable = {}
  Client = {c1}
  Reader = {r1}
  Join <- StarJoin
  ExpiresAt <- Expires
  ReplicationLimit = 1
  FirstStart = FALSE
  Bound <- Reading
SPECIFICATION GetSpec
INVARIANTS FoundWhereHeld
