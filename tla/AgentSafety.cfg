SPECIFICATION Spec
CONSTANTS
  Requests = {r1, r2}
  Dangerous = {r1, r2}
  NoRequest = NoRequest
  MaxWorkers = 2
  MaxRetries = 0
  MaxConns = 2
  MaxEntries = 8
  MaxFailures = 0
INVARIANTS
  TypeOK
  NeverMoreThanApproved
  EffectsAreLogged
  AnswersAreReported
CHECK_DEADLOCK FALSE
