SPECIFICATION FairSpec
CONSTANTS
  poller = poller
  backfiller = backfiller
  HPG = HPG
  HDB = HDB
  FPT = FPT
  p1 = p1
  None = None
  Pollers = {poller}
  Backfillers = {}
  Watchlist = {HPG, HDB}
  Targets = {HPG, FPT}
  LastDay = 1
  MaxVersion = 2
  Malformed <- FirstMalformed
  Posts <- OnePost
  PostDay = 1
  MaxLag = 1
  MaxFaults = 1
INVARIANTS
  TypeOK
  TalliesMatchPosts
  DivergenceIsFresh
  PolledIsTallied
PROPERTIES
  StreamsKeepApart
CHECK_DEADLOCK FALSE
