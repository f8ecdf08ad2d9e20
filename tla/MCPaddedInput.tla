--------------------------- MODULE MCPaddedInput ---------------------------
(* Small instances of PaddedInput. *)
EXTENDS PaddedInput, TLC

\* Strings, readers, storages, buffers and pieces of text are interchangeable.
Symmetry ==
  Permutations(Strings) \cup Permutations(Readers) \cup Permutations(Storages)
    \cup Permutations(Buffers) \cup Permutations(Chunks)
=============================================================================
