SPECIFICATION Spec
CONSTANTS
  Files <- MCFiles
  Absent = Absent
  ChunkSize = 2
  MaxSize = 5
  MaxTransfers = 2
  MaxFaults = 2
  MaxChanges = 2
INVARIANTS
  TypeOK
  FailureSaysHowFar
  KeptUnlessOverwrite
PROPERTIES
  SuccessIsACopy
CHECK_DEADLOCK FALSE
