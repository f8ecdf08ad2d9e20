SPECIFICATION FairSpec
CONSTANTS
  p1 = p1
  p2 = p2
  d1 = d1
  d2 = d2
  Threads = {t1, t2}
  Parsers = {p1, p2}
  Documents = {d1, d2}
  Inputs = {good, bad}
  Valid = {good}
  Calls <- OrderedCalls
  Callbacks <- OrderedCallbacks
  Rank <- MCRank
  FreeThreaded = TRUE
  NoThread = NoThread
  Torn = Torn
INVARIANTS
  TypeOK
  NoDataRace
  DocumentsHoldWhatWasReported
  LockOrder
PROPERTY CallsReturn
