SPECIFICATION FairSpec
CONSTANTS
  Requests = {r1, r2}
  Dangerous = {r1}
  NoRequest = NoRequest
  MaxWorkers = 1
  MaxRetries = 1
  MaxConns = 2
  MaxEntries = 8
  MaxFailures = 0
PROPERTIES
  CtrlCEndsOnceAnswered
CHECK_DEADLOCK FALSE
