SPECIFICATION FairSpec
CONSTANTS
  r1 = r1
  r2 = r2
  FPT = FPT
  None = None
  Requests = {r1, r2}
  Symbols = {FPT}
  Horizons = 1
  LastHour = 2
  SymbolOf <- AllAboutFPT
  DateOf <- NowAndZoned
  MaxFaults = 1
INVARIANTS
  TypeOK
  CleanStartServes
  AnsweredFromLog
PROPERTIES
  ComputedOnce
  RequestsEnd
CHECK_DEADLOCK FALSE
