SPECIFICATION Spec
CONSTANTS
  c1 = c1
  c2 = c2
  c3 = c3
  HPG = HPG
  FPT = FPT
  None = None
  Sockets <- ThreeSockets
  Symbols = {HPG}
  MaxMessages = 1
INVARIANTS
  EveryActiveIsSent
CHECK_DEADLOCK FALSE
