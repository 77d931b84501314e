-------------------------- MODULE MCParkableImages --------------------------
(* TLC instance of ParkableImages.                                         *)
EXTENDS ParkableImages, TLC

\* Images are interchangeable, and so are clients.
Symmetry == Permutations(Images) \cup Permutations(Clients)
=============================================================================
