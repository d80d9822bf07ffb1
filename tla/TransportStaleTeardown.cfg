SPECIFICATION Spec
CONSTANTS
  Agents = {a1}
  NoAgent = NoAgent
  NoToken = NoToken
  MaxDials = 2
  MaxRequests = 1
  MaxFaults = 1
  MaxRetries = 1
  MaxWorkers = 1
  Codes = {c1}
  Tokens = {t1, t2, t3, t4, t5}
  CodeExpiration = 0
  SessionTokenExpiration = 0
  MaxClock = 0
INVARIANT RunningAgentIsConnected
CHECK_DEADLOCK FALSE
