------------------------------ MODULE MCLoads ------------------------------
(* Small instances of Loads. *)
EXTENDS Loads, TLC

ThreadSymmetry == Permutations(Threads)

\* Python code may run when the bytes are borrowed, or when they are released.
BorrowHook == {"borrow"}
ReleaseHook == {"release"}
=============================================================================
