-------------------------------- MODULE Copy --------------------------------
(***************************************************************************)
(* What a file transfer promises its receiver: bytes arrive in the order   *)
(* of the source file, and "done" is reported for a whole copy only.       *)
(***************************************************************************)
EXTENDS Naturals

CONSTANT Size            (* bytes of the source file *)

VARIABLES
  copied,                (* bytes written by the receiver                    *)
  intact,                (* each of them stands where the source has it      *)
  outcome                (* what the receiver reports                        *)

copyVars == <<copied, intact, outcome>>

Init == copied = 0 /\ intact = TRUE /\ outcome = "receiving"

Grow ==
  /\ outcome = "receiving"
  /\ copied < copied' /\ copied' <= Size
  /\ UNCHANGED <<intact, outcome>>

Complete ==
  /\ outcome = "receiving" /\ copied = Size
  /\ outcome' = "done"
  /\ UNCHANGED <<copied, intact>>

Fail ==
  /\ outcome = "receiving"
  /\ outcome' = "failed"
  /\ UNCHANGED <<copied, intact>>

Next == Grow \/ Complete \/ Fail

Spec == Init /\ [][Next]_copyVars
=============================================================================
