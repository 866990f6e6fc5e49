CONSTANTS
  None = None
  m1 = m1
  m2 = m2
  m3 = m3
  Mutex = {m1, m2, m3}
  TTL = 3
  Interval = 1
  MaxMeta = 2
  MaxFaults = 1
SPECIFICATION Spec
INVARIANTS HealthyLockIsExclusive
SYMMETRY Perms
