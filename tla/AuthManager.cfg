SPECIFICATION Spec
CONSTANTS
  Codes = {c1, c2}
  Tokens = {t1, t2, t3}
  CodeExpiration = 1
  SessionTokenExpiration = 2
  MaxClock = 3
INVARIANTS
  TypeOK
  OneTimeUse
  CodeAnswer
  SessionAnswer
PROPERTIES
  ImplementsOneTimeToken
