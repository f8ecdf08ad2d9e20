\* Every call of a program may be its last.
CHECK_DEADLOCK FALSE
\* A loop over an array inside a loop over the same array.
SPECIFICATION Spec
CONSTANTS
  Inputs <- FlatInputs
  MaxHandles = 4
  MaxYields = 2
INVARIANT LoopsGoForward
