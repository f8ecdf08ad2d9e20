SPECIFICATION Spec
CONSTANTS
  Strings = {p1, p2}
  Builders = {builder}
  Readers = {r1, r2}
  Storages = {s1, s2, s3}
  Buffers = {b1, b2, b3, b4}
  Chunks = {x, y}
  MaxLength = 2
  None = None
SYMMETRY Symmetry
INVARIANTS
  TypeOK
  BuffersHaveOneOwner
  TextsAreWhatWasWritten
  ReadersReadTheirInput
