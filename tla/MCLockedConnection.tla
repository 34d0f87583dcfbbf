------------------------- MODULE MCLockedConnection -------------------------
(* Small instances of LockedConnection for TLC.                              *)
EXTENDS LockedConnection, TLC

Symmetry == Permutations(Thread) \cup Permutations(Row)
=============================================================================
