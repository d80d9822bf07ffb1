SPECIFICATION Spec
CONSTANTS
  Records <- MCRecords
  Reporters = {callback, cleanup}
  MaxEntries = 3
  MaxReports = 2
  MaxFailures = 1
INVARIANTS
  TypeOK
  GapsAreFailedWrites
  SummaryFollowsItsEntries
CHECK_DEADLOCK FALSE
