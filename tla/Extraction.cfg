SPECIFICATION FairSpec
CONSTANTS
  n1 = n1
  p1 = p1
  b1 = b1
  macro = macro
  echo = echo
  hub = hub
  stock = stock
  v1 = v1
  v2 = v2
  Stream = Stream
  None = None
  Docs <- MixedFeed
  DocType <- MCDocType
  Content <- MCContent
  Relations <- MCRelations
  EdgeKey <- MCEdgeKey
  Rejected <- MCRejected
  TouchesStock <- MCTouchesStock
  Replies <- AllReplies
  Passes <- MCPasses
  StreamConfig = v1
  BackfillConfig = v2
  MaxConcurrency = 1
  BatchSize = 2
  MaxTopic = 2
  MaxFaults = 1
INVARIANTS
  TypeOK
  PublishedAtMostOnce
  PublishedIsStaged
  ConsumedIsSettled
  BackfillCoversTarget
  StagedIsSound
PROPERTIES
  ImplementsLedger
  StreamDrains
CHECK_DEADLOCK FALSE
