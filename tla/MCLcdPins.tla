------------------------------ MODULE MCLcdPins -----------------------------
(* The whole bus, with the program's own delays and a command of each kind.*)
EXTENDS LcdPins
=============================================================================
