CONSTANTS
  None = None
  m1 = m1
  m2 = m2
  m3 = m3
  Mutex = {m1, m2, m3}
  TTL = 2
  Interval = 1
  MaxMeta = 2
  MaxFaults = 2
SPECIFICATION FairSpec
INVARIANTS ExclusionInv MutualExclusion HolderHasObject
PROPERTIES LockComesFree
