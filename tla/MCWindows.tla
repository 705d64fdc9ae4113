----------------------------- MODULE MCWindows -----------------------------
(* The two windows of a client. A process shows one of them at a time, and   *)
(* nothing but the connection goes from one to the other (main.rs, the loop  *)
(* of main): so each is run from its own start while the other is closed.    *)
(*                                                                           *)
(* The dialog: two clients, one entry whose name reads as a comment, two     *)
(* changes. The viewer: windows with room for bars, with too little, and     *)
(* without an area; pictures that fit, that fit but for a bar, and that do   *)
(* not fit.                                                                  *)
EXTENDS HostList, Viewport, TLC

VARIABLE shown   (* "dialog" or "viewer" *)

WindowsInit ==
  /\ shown \in {"dialog", "viewer"} /\ DialogInit /\ Init
  /\ shown = "dialog" => window = [w |-> 0, h |-> 0] /\ picture = [w |-> 3, h |-> 2]

WindowsNext ==
  /\ UNCHANGED shown
  /\ \/ shown = "dialog" /\ DialogNext /\ UNCHANGED vars
     \/ shown = "viewer" /\ Next /\ UNCHANGED DialogVars

WindowsSpec == WindowsInit /\ [][WindowsNext]_<<shown, DialogVars, vars>>

Symmetry == Permutations(Clients)

MCWindowSizes == {[w |-> 6, h |-> 5], [w |-> 4, h |-> 8], [w |-> 7, h |-> 1], [w |-> 5, h |-> 2],
                  [w |-> 0, h |-> 0]}
MCPictures == {[w |-> 3, h |-> 2], [w |-> 6, h |-> 5], [w |-> 4, h |-> 10], [w |-> 11, h |-> 9]}
=============================================================================
