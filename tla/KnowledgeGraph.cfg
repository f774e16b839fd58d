SPECIFICATION Spec
CONSTANTS
  d1 = d1
  d2 = d2
  fed = fed
  VND = VND
  HPG = HPG
  raises = raises
  respelt = respelt
  hits = hits
  rumour = rumour
  number = number
  None = None
  Docs = {d1, d2}
  Entities = {fed, VND, HPG}
  Relations <- MCRelations
  Ends <- MCEnds
  Phrase <- MCPhrase
  Unsure = {rumour}
  Unnamed = {number}
  Lists <- MCLists
  BatchSize = 2
  MaxFaults = 2
INVARIANTS
  TypeOK
  OneNodePerId
  GraphMatchesLedger
  ConsumedIsHydrated
  BackfillHydrates
CHECK_DEADLOCK FALSE
