------------------------------ MODULE MCTimer1 ------------------------------
(* A minute of six ticks in a word of nine, delays of three ticks.        *)
EXTENDS Timer1

MCDelays == {3}

(* A program that asks for no delay.                                       *)
MCNoDelays == {}
=============================================================================
