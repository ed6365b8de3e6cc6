---------------------------- MODULE MCSpeedSystem ----------------------------
(* Queues of two elements, which either task could fill, a display of      *)
(* three columns, and four rotations.                                      *)
EXTENDS SpeedSystem
=============================================================================
