\* The errors of docs/streaming.md as iterate_many raises them.
SPECIFICATION Spec
CONSTANTS
  Iterators = {i1}
  Readers = {r1}
  Apis = {"ondemand"}
  Inputs <- MCInputs
  MaxDocs = 2
  Sections = 1
  MaxPieces = 1
  MaxRevision = 4
INVARIANT MalformedDocumentsRaise
