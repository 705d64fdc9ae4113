---------------------------- MODULE MCClipboard -----------------------------
(* Two texts and an empty clipboard to start from, three copies.             *)
EXTENDS Clipboard
=============================================================================
