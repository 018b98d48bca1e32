SPECIFICATION Spec
CONSTANTS
  r1 = r1
  r2 = r2
  Requests = {r1, r2}
  Traffic <- MCTraffic
CHECK_DEADLOCK FALSE
INVARIANTS
  TypeOK
  AnswerWasTrue
  AcknowledgedHolds
PROPERTIES
  EnvironmentsApart
  RequestsAnswered
