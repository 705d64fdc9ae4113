----------------------------- MODULE MCChannel ------------------------------
(* Two threads and two sources, buffers that fill up.                        *)
EXTENDS Channel
=============================================================================
