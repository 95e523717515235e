--------------------------- MODULE MCTimerManager ---------------------------
(* Small instances of TimerManager for TLC. *)
EXTENDS TimerManager, TLC

CONSTANTS t1, t2, p1, p2, e1

\* The pollers are interchangeable.
Symmetry == Permutations(Pollers)
=============================================================================
