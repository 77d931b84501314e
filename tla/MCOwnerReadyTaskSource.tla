----------------------- MODULE MCOwnerReadyTaskSource -----------------------
(* TLC instance of OwnerReadyTaskSource.                                   *)
EXTENDS OwnerReadyTaskSource, TLC

CONSTANTS p1, p2

\* One producer sends two tasks, alone or as a batch; the other producer and
\* the owner send one each.
SmallBudget == (p1 :> 2) @@ (p2 :> 1) @@ (Owner :> 1)
=============================================================================
