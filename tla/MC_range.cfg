CONSTANTS
  None = None
  Failed = Failed
  Malformed = Malformed
  h1 = h1
  f1 = f1
  f2 = f2
  f3 = f3
  m1 = m1
  m2 = m2
  Host = {h1}
  Fetch = {f1, f2, f3}
  Mutex = {m1, m2}
  Text <- Texts
  MaxTTL = 1
  MaxTime = 1
  MaxChanges = 1
  MaxFaults = 1
  Scenes <- MCScenes
  Key <- MCKey
  Size = {2, 3}
  Prefix <- PrefixOf
  PaidTier = {h1}
SYMMETRY Alike
SPECIFICATION Spec
CHECK_DEADLOCK FALSE
INVARIANT NoCacheMiss
