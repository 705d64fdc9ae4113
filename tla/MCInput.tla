------------------------------ MODULE MCInput ------------------------------
(* One key of each kind, m being Ctrl and Shift at once, and one button.     *)
EXTENDS Input

CONSTANTS m, d, f, e, l

MCTable == <<m, d, f, e>>
MCBtns == <<l>>
=============================================================================
