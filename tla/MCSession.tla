----------------------------- MODULE MCSession ------------------------------
(* Two connection tasks that race for the slot, one client host.            *)
EXTENDS Session
=============================================================================
