---------------------------- MODULE MCFdContext ----------------------------
(* Small instances of FdContext for TLC. *)
EXTENDS FdContext, TLC

CONSTANTS t1, t2, t3

\* The threads are interchangeable.
Symmetry == Permutations(Threads)
=============================================================================
