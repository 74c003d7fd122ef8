SPECIFICATION Spec
CONSTANTS
  Drivers = {"ODL", "POLC"}
  MaxLate = 1
  MaxFaults = 1
  MaxCrashes = 2
  MaxRestarts = 1
  MaxFailoverInstance = 2
INVARIANTS CleanEnd InSequence
PROPERTIES ImplementsCommit FailoverRedoes
CHECK_DEADLOCK FALSE
