SPECIFICATION Spec
CONSTANTS
  Sessions <- ThreeSessions
  NoSession = NoSession
  DbMgmt = DbMgmt
  Launcher = Launcher
  s1 = s1
  s2 = s2
  s3 = s3
  Simultaneous = TRUE
  UINT32_MAX = 5
  Timeouts <- AllTimeouts
SYMMETRY Symmetry
INVARIANTS
  QueueHoldsWaiters
  FreeModeIsAvailable
PROPERTIES
  EarlierRequestsFirst
CHECK_DEADLOCK FALSE
