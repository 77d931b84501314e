--------------------------- MODULE MCVersionChange ---------------------------
(* TLC instance of VersionChange: an upgrade and a delete.                 *)
EXTENDS VersionChange, TLC

CONSTANTS open, delete, fresh

MCNewConn == (open :> fresh) @@ (delete :> NoConn)
=============================================================================
