SPECIFICATION Spec
CONSTANTS
  Requests = {r1}
  Dangerous = {}
  NoRequest = NoRequest
  MaxWorkers = 2
  MaxRetries = 1
  MaxConns = 1
  MaxEntries = 8
  MaxFailures = 0
INVARIANTS
  ActionsInTheFile
CHECK_DEADLOCK FALSE
