SPECIFICATION Spec
CONSTANTS
  r1 = r1
  r2 = r2
  d1 = d1
  d2 = d2
  e1 = e1
  e2 = e2
  Requests = {r1, r2}
  Devices = {d1, d2}
  Emails = {e1, e2}
  Traffic <- MCTraffic
  Refusals = {"404", "409", "412", "422"}
  MaxVersion = 2
CHECK_DEADLOCK FALSE
INVARIANTS
  TypeOK
  NoLostUpdate
  AnswerTellsEffect
  RefusalIsTrue
  EmailWasValidated
PROPERTY
  PromiseKept
  RequestsAnswered
