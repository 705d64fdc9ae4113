------------------------------- MODULE Mirror -------------------------------
(***************************************************************************)
(* What a remote picture promises its reader: it shows a state the screen  *)
(* has been in, and never an older one than it showed before.              *)
(***************************************************************************)
EXTENDS Naturals, Sequences

CONSTANT States

VARIABLES
  history,     (* the states of the screen, the last one is its present one  *)
  shown        (* which of them is shown; 0 is none                          *)

Init == history \in {<<s>> : s \in States} /\ shown = 0

Change ==
  /\ \E s \in States : history' = Append(history, s)
  /\ UNCHANGED shown

Show ==
  /\ shown < shown' /\ shown' <= Len(history)
  /\ UNCHANGED history

Next == Change \/ Show

Spec == Init /\ [][Next]_<<history, shown>>
=============================================================================
