---------------------------- MODULE MCTimerDelays ----------------------------
(* A minute of eight ticks, delays of three and five ticks, two ticks of   *)
(* latency.                                                                *)
EXTENDS TimerDelays

MCDelays == {3, 5}
=============================================================================
