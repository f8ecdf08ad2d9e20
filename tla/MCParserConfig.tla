--------------------------- MODULE MCParserConfig ---------------------------
(* Small instances of ParserConfig. *)
EXTENDS ParserConfig, TLC

ThreadSymmetry == Permutations(Threads)
=============================================================================
