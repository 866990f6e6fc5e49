CONSTANTS
  None = None
  Services = {"gateway", "auth", "linksharing"}
  Conn = {c1, c2}
  ShutdownDelay = 2
  ShutdownTimeout = 1
  ProbeInterval = 1
  MaxFaults = 2
SPECIFICATION FairSpec
CHECK_DEADLOCK FALSE
INVARIANTS RoutedIsAccepted DatabaseOutlivesRequests CutOnlyWhenLate
PROPERTIES ShutdownEnds
