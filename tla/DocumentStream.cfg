SPECIFICATION FairSpec
CONSTANTS
  Iterators = {i1, i2}
  Readers = {r1}
  Apis = {"dom", "ondemand"}
  Inputs <- MCInputs
  MaxDocs = 3
  Sections = 2
  MaxPieces = 1
  MaxRevision = 8
INVARIANTS
  TypeOK
  OnlyLatestItemIsFresh
  ReadsOwnDocument
  
PROPERTIES
  StaleItemsStayStale
  ImplementsItemLease
  LoopsTerminate
