SPECIFICATION Spec
CONSTANTS
  k1 = k1
  k2 = k2
  r1 = r1
  Keys <- MCKeys
  Requests = {r1}
  Traffic <- MCTraffic
  NoKey = NoKey
CHECK_DEADLOCK FALSE
INVARIANTS
  TypeOK
  LegacyKeyWasCurrent
  IdentityKeySigned
  SignedIffRequired
  UnauthorizedIsOurs
  ServedAsPromised
PROPERTY
  RequestsAnswered
