---------------------------- MODULE MCLcdDriver ----------------------------
(* Lines of three characters, two of them visible, and two patterns of two *)
(* rows; strings that stay in the line, wrap around, and run into          *)
(* themselves.                                                             *)
EXTENDS LcdDriver

CONSTANTS A, B

MCText == {<<A, B>>, <<B, A, A, B>>}

MCPatterns == {<<A, B>>, <<B, A>>}

MCShifts == {-2, 1}

None == {}

NoShifts == {}
=============================================================================
