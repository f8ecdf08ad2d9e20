\* An append to the string a document was made of.
SPECIFICATION Spec
CONSTANTS
  Strings = {p1}
  Builders = {builder}
  Readers = {r1}
  Storages = {s1, s2}
  Buffers = {b1, b2, b3}
  Chunks = {x}
  MaxLength = 2
  None = None
INVARIANT ReadersHoldTheirBuffer
