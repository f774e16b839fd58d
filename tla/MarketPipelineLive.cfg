SPECIFICATION FairSpec
CONSTANTS
  poller = poller
  backfiller = backfiller
  HPG = HPG
  HDB = HDB
  FPT = FPT
  p1 = p1
  None = None
  Pollers = {poller}
  Backfillers = {backfiller}
  Watchlist = {HPG}
  Targets = {HPG, FPT}
  LastDay = 1
  MaxVersion = 2
  Malformed <- NoMalformed
  Posts <- NoPosts
  PostDay = 1
  MaxLag = 1
  MaxFaults = 1
PROPERTIES
  FeaturesCatchUp
CHECK_DEADLOCK FALSE
