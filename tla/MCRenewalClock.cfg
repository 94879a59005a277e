\* RenewBefore just reaches the interval; a failure is retried sooner.
SPECIFICATION Spec
CONSTANTS
  Before = 4
  Every = 4
  Retry = 1
  CheckMax = 2
  MinLife = 5
  MaxLife = 9
  MaxNow = 22
INVARIANTS TypeOK AskedInTime KeepsTrying
CHECK_DEADLOCK FALSE
