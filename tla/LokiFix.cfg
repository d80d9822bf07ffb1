SPECIFICATION FairSpec
CONSTANTS
  Operators = {op1, op2}
  Self = op1
  Size = 2
  Absent = Absent
  Conns = 3
  MaxCalls = 1
INVARIANTS
  TypeOK
  InstalledIsComplete
  ReadyForTheNextAgent
PROPERTIES
  EndsWhenAsked
  TunnelServesOrEnds
CHECK_DEADLOCK FALSE
