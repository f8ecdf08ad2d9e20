\* A build with a GIL against what docs/threading.md says of it.
SPECIFICATION Spec
CONSTANTS
  p1 = p1
  p2 = p2
  d1 = d1
  d2 = d2
  Threads = {t1, t2}
  Parsers = {p1}
  Documents = {d1}
  Inputs = {good}
  Valid = {good}
  Calls <- AllCalls
  Callbacks <- NoCallbacks
  Rank <- MCRank
  FreeThreaded = FALSE
  NoThread = NoThread
  Torn = Torn
INVARIANT OneThreadInsideParser
