SPECIFICATION Spec
CONSTANTS
  Sessions <- ManagementSessions
  Threads <- TwoThreads
  Services <- ReadWriteServices
  NoSession = NoSession
  DbMgmt = DbMgmt
  Launcher = Launcher
  s1 = s1
  s2 = s2
  t1 = t1
  t2 = t2
  Simultaneous = TRUE
  UINT32_MAX = 5
  SetupMayFail = TRUE
SYMMETRY Symmetry
INVARIANTS
  ManagementFlagsExcludeWriter
CHECK_DEADLOCK FALSE
