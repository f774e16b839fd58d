SPECIFICATION FairSpec
CONSTANTS
  poller = poller
  backfiller = backfiller
  a = a
  b = b
  c = c
  text = text
  edited = edited
  junk = junk
  None = None
  Pollers = {poller}
  Backfillers = {backfiller}
  Ids <- ThreeIds
  Fingerprints <- Texts
  Items <- TwinsEditsAndJunk
  Window <- FirstDate
  MaxAt = 2
  MaxFaults = 1
INVARIANTS
  TypeOK
  UniqueFingerprint
  PublishedIsStored
PROPERTIES
  StoresAreFinal
  RepublishesOnlyEdits
  WatermarksAdvance
  CollectedIsStored
