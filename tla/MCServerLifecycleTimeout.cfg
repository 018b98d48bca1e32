SPECIFICATION Safe
CONSTANTS
  r1 = r1
  r2 = r2
  Requests <- MCRequests
  Environments <- MCEnvironments
  Unset = Unset
  DEFAULT_SHUTDOWN_TIMEOUT_MILLIS = 2
  MaxTime = 4
CHECK_DEADLOCK FALSE
INVARIANT
  StopsInConfiguredTime
