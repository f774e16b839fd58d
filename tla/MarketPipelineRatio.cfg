SPECIFICATION FairSpec
CONSTANTS
  poller = poller
  backfiller = backfiller
  HPG = HPG
  HDB = HDB
  FPT = FPT
  p1 = p1
  None = None
  Pollers = {poller}
  Backfillers = {}
  Watchlist = {HPG}
  Targets = {HPG, FPT}
  LastDay = 2
  MaxVersion = 1
  Malformed <- NoMalformed
  Posts <- NoPosts
  PostDay = 1
  MaxLag = 1
  MaxFaults = 0
PROPERTIES
  RatioUsesHistory
CHECK_DEADLOCK FALSE
