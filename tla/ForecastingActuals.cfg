SPECIFICATION DailySpec
CONSTANTS
  r1 = r1
  r2 = r2
  FPT = FPT
  None = None
  Requests = {r1}
  Symbols = {FPT}
  Horizons = 1
  LastHour = 2
  SymbolOf <- AllAboutFPT
  DateOf <- NowAndZoned
  MaxFaults = 0
PROPERTIES
  ActualsAreFilled
CHECK_DEADLOCK FALSE
