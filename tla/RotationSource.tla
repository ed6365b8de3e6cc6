--------------------------- MODULE RotationSource ---------------------------
(***************************************************************************)
(* What timer1.c promises of the rotations it hands to the speed task, and *)
(* what speed.c relies on when it subtracts them.  Timer1 implements this  *)
(* specification; SpeedCalc takes its input by it.                         *)
(***************************************************************************)
EXTENDS Integers

CONSTANTS
  TicksPerMinute,
  TooSmallTickDiff

VARIABLE last  \* the last rotation handed over

(* timeStoreElement_t, and the minute the edge really fell in.  REFE, the  *)
(* level of the input pin, is only printed.                                *)
Rotation == [minuteCount : Nat, captureCount : 0 .. TicksPerMinute - 1,
             minute : Nat]

(* What both sides start from: no rotation, at the beginning of time.      *)
Beginning == [minuteCount |-> 0, captureCount |-> 0, minute |-> 0]

(* The minutes that had been lost when e was stamped.                      *)
Loss(e) == e.minute - e.minuteCount

(* Of two rotations of one minute the later one, e, is further away than   *)
(* the glitch filter asks.                                                 *)
Spaced(p, e) ==
  \/ p.minute < e.minute
  \/ /\ p.minute = e.minute
     /\ e.captureCount > p.captureCount + TooSmallTickDiff

(* Stamps do not go back, and a minute that was lost is never made up.     *)
LossKept(p, e) == p.minuteCount <= e.minuteCount /\ Loss(p) <= Loss(e)

HandOver(e) ==
  /\ e \in Rotation
  /\ Spaced(last, e) /\ LossKept(last, e)
  /\ last' = e

SourceInit == last = Beginning

SourceSpec == SourceInit /\ [][HandOver(last')]_last
=============================================================================
