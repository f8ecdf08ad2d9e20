\* A document whose iterator met an error is abandoned by simdjson: it is used no more.
CHECK_DEADLOCK FALSE
SPECIFICATION Spec
CONSTANTS
  Inputs <- MCInputs
  MaxHandles = 3
  MaxYields = 2
INVARIANTS
  TypeOK
  AnswersAreRight
  LoopsAloneSeeTheirMembers
