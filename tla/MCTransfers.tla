---------------------------- MODULE MCTransfers -----------------------------
(* Two connections, one after the other, with ids that overlap.              *)
EXTENDS Transfers
=============================================================================
