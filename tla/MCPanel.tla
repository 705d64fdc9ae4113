------------------------------- MODULE MCPanel -------------------------------
(* Two sessions, two configurations; three processes, so that a worker may   *)
(* start while two predecessors are still being terminated.                  *)
EXTENDS Panel
=============================================================================
