------------------------------ MODULE MCVideo ------------------------------
(* Two contents; two sizes, the wider one scaled down by an odd ratio; and   *)
(* two arrangements of monitors with the same total width. 257 is the least  *)
(* width at which rounding moves a click, the one at column 1.               *)
EXTENDS Video

MCStart == [what |-> "a", w |-> 257, at |-> 0]
MCScreens == {MCStart, [what |-> "b", w |-> 257, at |-> 0],
              [what |-> "a", w |-> 1000, at |-> 0], [what |-> "b", w |-> 257, at |-> -100]}
MCColumns == {1, 256}
=============================================================================
