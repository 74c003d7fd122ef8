SPECIFICATION Spec
CONSTANTS
  Sessions <- UserSessions
  Threads <- TwoThreads
  Services <- AllServices
  NoSession = NoSession
  DbMgmt = DbMgmt
  Launcher = Launcher
  s1 = s1
  s2 = s2
  t1 = t1
  t2 = t2
  Simultaneous = FALSE
  UINT32_MAX = 4
  SetupMayFail = TRUE
SYMMETRY Symmetry
INVARIANTS
  TypeOK
  ReaderCount
  ReadersExcludeWriter
  OneWriter
  NoMissedWakeUp
PROPERTIES
  NothingGrantedAfterStop
  CandidateKeepsConfig
CHECK_DEADLOCK FALSE
