SPECIFICATION Spec
CONSTANTS
  here = here
  there = there
  Hosts = {here, there}
  DefaultHost = there
  DefaultConnections = 3
  DefaultPending = 8
  DefaultDuration = 1
  DefaultRefresh = 5
  Callers = {p1, p2, p3}
  Configs <- MCConfigs
  Wrap = 4
  MaxCalls = 32
INVARIANTS TypeOK SomebodyToServe VerifiedForItsHost InTurnWithinGroup InTurnAcrossGroups
CHECK_DEADLOCK FALSE
