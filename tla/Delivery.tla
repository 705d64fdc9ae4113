------------------------------ MODULE Delivery ------------------------------
(***************************************************************************)
(* What the encrypted connection promises its users: the messages of one   *)
(* sender arrive in the order it sent them, each once and none left out,   *)
(* until the connection ends.                                              *)
(***************************************************************************)
EXTENDS Naturals

CONSTANT Senders

VARIABLES
  sent,       (* messages a sender has handed over *)
  delivered   (* messages that have arrived        *)

Init == sent = [s \in Senders |-> 0] /\ delivered = [s \in Senders |-> 0]

Send(s) ==
  /\ sent' = [sent EXCEPT ![s] = @ + 1]
  /\ UNCHANGED delivered

Deliver(s) ==
  /\ delivered[s] < sent[s]
  /\ delivered' = [delivered EXCEPT ![s] = @ + 1]
  /\ UNCHANGED sent

Next == \E s \in Senders : Send(s) \/ Deliver(s)

Spec == Init /\ [][Next]_<<sent, delivered>>
=============================================================================
