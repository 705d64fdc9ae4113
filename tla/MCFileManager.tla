---------------------------- MODULE MCFileManager ----------------------------
(* One directory on each side besides the list of drives; one window, two    *)
(* input boxes; two files in a selection, one failure.                       *)
EXTENDS FileManager
=============================================================================
