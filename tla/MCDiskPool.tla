----------------------------- MODULE MCDiskPool -----------------------------
(* TLC instance of DiskPool.                                               *)
EXTENDS DiskPool, TLC

\* Handles are interchangeable.
HandleSymmetry == Permutations(Handles)
=============================================================================
