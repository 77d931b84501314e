----------------------------- MODULE MCWriteback -----------------------------
(* TLC instances of Writeback.                                             *)
EXTENDS Writeback, TLC

CONSTANTS q, f1, f2

MCKind == [j \in Jobs |-> IF j = q THEN "query" ELSE "flush"]

Symmetry == Permutations(Deltas)
=============================================================================
