SPECIFICATION Spec
CONSTANTS
  Sessions <- ThreeSessions
  NoSession = NoSession
  DbMgmt = DbMgmt
  Launcher = Launcher
  s1 = s1
  s2 = s2
  s3 = s3
  Simultaneous = TRUE
  UINT32_MAX = 5
  Timeouts <- Unlimited
SYMMETRY Symmetry
INVARIANTS
  NoStrandedRequest
CHECK_DEADLOCK FALSE
