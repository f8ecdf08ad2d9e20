SPECIFICATION Spec
CONSTANTS
  Threads = {t1, t2}
  Inputs = {good, other, bad}
  Valid = {good, other}
  Hooks <- BorrowHook
  MaxNesting = 2
  Torn = Torn
SYMMETRY ThreadSymmetry
INVARIANTS
  TypeOK
  LoadsReturnsItsInput
  ParserHoldsInnermostInput
