SPECIFICATION Spec
CONSTANTS
  Threads = {t1, t2}
  Sizes = {0, 1, 2}
  Depths = {d1, d2}
  DefaultDepth = d1
  NoThread = NoThread
SYMMETRY ThreadSymmetry
INVARIANTS
  TypeOK
  CopiesAreWhole
  AllocateIsAllOrNothing
