\* A document whose iterator met an error is abandoned by simdjson: it is used no more.
CHECK_DEADLOCK FALSE
\* A lookup by key after a loop that was left early.
SPECIFICATION Spec
CONSTANTS
  Inputs <- FlatInputs
  MaxHandles = 3
  MaxYields = 3
PROPERTY UnorderedLookupsSearchEverywhere
