SPECIFICATION Safe
CONSTANTS
  t1 = t1
  t2 = t2
  c1 = c1
  c2 = c2
  c3 = c3
  Tokens <- MCTokens
  Malformed = {t2}
  Calls <- MCCalls
  Workloads <- MCCleanup
CHECK_DEADLOCK FALSE
PROPERTY
  OnlyExpiredRemoved
