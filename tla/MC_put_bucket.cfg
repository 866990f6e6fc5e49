CONSTANTS
  None = None
  k1 = k1  k2 = k2  u1 = u1  u2 = u2  b1 = b1  o1 = o1  h1 = h1
  anonymous = anonymous
  Request = {r1, r2}
  AccessKey = {k1, k2}
  Known = {k1, k2}
  Expiration = 1
  Capacity = 1
  MinDelay = 1
  MaxDelay = 1
  MaxTime = 0
  MaxFaults = 0
  Calls <- NewBuckets
  Alone <- NoCalls
  User = {u1, u2}
  Bucket = {b1}
  Object = {o1}
  UserOf <- Owner1
  LimitKey = {h1, anonymous}
  HeadOf <- OneHead
  NoHead = anonymous
  Allowed = 1
SPECIFICATION Spec
CHECK_DEADLOCK FALSE
INVARIANTS BucketNamesAreUnique
