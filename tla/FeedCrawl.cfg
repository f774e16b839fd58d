SPECIFICATION FairSpec
CONSTANTS
  MaxItems = 9
  At <- MCAt
  Requests <- AllRequests
  BatchSize = 2
  Limit = 7
  MaxFaults = 1
INVARIANTS
  TypeOK
  CollectedInWindow
  MissesOnlyOnLastPage
PROPERTIES
  CrawlEnds
CHECK_DEADLOCK FALSE
