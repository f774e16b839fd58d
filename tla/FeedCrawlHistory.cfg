SPECIFICATION Spec
CONSTANTS
  MaxItems = 9
  At <- MCAt
  Requests <- OneWindow
  BatchSize = 2
  Limit = 9
  MaxFaults = 0
INVARIANTS
  HistoryIsComplete
CHECK_DEADLOCK FALSE
