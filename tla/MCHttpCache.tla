---------------------------- MODULE MCHttpCache ----------------------------
(* Operations of one kind are interchangeable.                             *)
EXTENDS HttpCache, TLC

Symmetry == Permutations(Writers) \cup Permutations(Lookups)
=============================================================================
