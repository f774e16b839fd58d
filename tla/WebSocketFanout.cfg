SPECIFICATION FairSpec
CONSTANTS
  c1 = c1
  c2 = c2
  c3 = c3
  HPG = HPG
  FPT = FPT
  None = None
  Sockets <- ThreeSockets
  Symbols = {HPG, FPT}
  MaxMessages = 2
INVARIANTS
  TypeOK
  SentInOrderOnce
  UndisturbedReachesAll
  LeftIsForgotten
PROPERTIES
  TaskKeepsUp
CHECK_DEADLOCK FALSE
