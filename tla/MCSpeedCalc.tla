---------------------------- MODULE MCSpeedCalc ----------------------------
(* Sixty ticks a minute, a word a fifth larger as the real one is, edges   *)
(* near the ends of the minute and one between.                            *)
EXTENDS SpeedCalc

MCCaptures == {0, 2, 29, 58}
=============================================================================
