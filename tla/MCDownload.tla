----------------------------- MODULE MCDownload -----------------------------
(* A file of several windows, reads shorter than a chunk included.           *)
EXTENDS Download
=============================================================================
