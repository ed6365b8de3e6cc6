----------------------------- MODULE MCTimerIrq -----------------------------
(* A minute of eight ticks, delays of three ticks, two ticks of latency.   *)
EXTENDS TimerIrq

MCDelays == {3}
=============================================================================
