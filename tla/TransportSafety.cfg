SPECIFICATION Spec
CONSTANTS
  Agents = {a1, a2}
  NoAgent = NoAgent
  NoToken = NoToken
  MaxDials = 3
  MaxRequests = 0
  MaxFaults = 2
  MaxRetries = 1
  MaxWorkers = 1
  Codes = {c1}
  Tokens = {t1, t2, t3, t4, t5, t6, t7}
  CodeExpiration = 0
  SessionTokenExpiration = 0
  MaxClock = 1
INVARIANTS
  TypeOK
  CipherWithConn
  HeldByItsHandler
  SameKey
  SessionReconnects
  OneAgentPerCode
CHECK_DEADLOCK FALSE
