SPECIFICATION FairSpec
CONSTANTS
  Sessions <- UserSessions
  Threads <- TwoThreads
  Services <- FairServices
  NoSession = NoSession
  DbMgmt = DbMgmt
  Launcher = Launcher
  s1 = s1
  s2 = s2
  t1 = t1
  t2 = t2
  Simultaneous = FALSE
  UINT32_MAX = 4
  SetupMayFail = FALSE
PROPERTIES
  NotificationEnds
  TransitionEnds
CHECK_DEADLOCK FALSE
