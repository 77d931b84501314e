-------------------------- MODULE MCSessionHistory --------------------------
(* A page with one frame, which holds another.                             *)
EXTENDS SessionHistory
CONSTANTS top, frame, inner

Nested == [c \in {frame, inner} |-> IF c = frame THEN top ELSE frame]
=============================================================================
