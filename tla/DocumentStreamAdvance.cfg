\* The rule of docs/streaming.md as the code keeps it.
SPECIFICATION Spec
CONSTANTS
  Iterators = {i1}
  Readers = {r1}
  Apis = {"dom"}
  Inputs <- MCInputs
  MaxDocs = 2
  Sections = 1
  MaxPieces = 1
  MaxRevision = 4
INVARIANT AdvanceInvalidatesItems
