SPECIFICATION Spec
CONSTANTS
  r1 = r1
  r2 = r2
  i1 = i1
  i2 = i2
  alice = alice
  bob = bob
  l1 = l1
  Users = {alice}
  Requests <- MCRequests
  Instances <- MCInstances
  Logins <- MCLogins
  FlagOf <- MCFlagOf
  BetaTesters <- MCBeta
  CanaryUsers <- MCCanary
  Delay = 2
  DeleteLag = 1
  MaxTries = 2
  MaxTime = 3
  NoUser = NoUser
  NoInstance = NoInstance
CHECK_DEADLOCK FALSE
INVARIANTS
  TypeOK
  DelayOutlastsDelete
  CopiesAreAttempts
  RolloutIsMonotone
PROPERTY
  PromiseKept
