--------------------------- MODULE RotationDisplay ---------------------------
(***************************************************************************)
(* What becomes of the wheel's rotations: each that is taken in is written *)
(* to a line of the display, once and in its turn.  A write may be given   *)
(* up, with some columns from the left written, or none; the last rotation *)
(* may be written again at any time.                                       *)
(***************************************************************************)
EXTENDS Naturals, Sequences

CONSTANTS
  Rotations,  \* their numbers, 0 not among them
  capacity,
  Columns

VARIABLES
  waiting,  \* rotations taken in and not yet written
  last,     \* the rotation written last, 0 before the first
  shown     \* the rotation that each column is of

pathVars == <<waiting, last, shown>>

PathInit ==
  /\ waiting = <<>>
  /\ last = 0
  /\ shown = [c \in Columns |-> 0]

(* A rotation is taken in after all earlier ones, and no rotation twice.   *)
TakeIn(n) ==
  /\ Len(waiting) < capacity
  /\ last < n /\ \A i \in 1 .. Len(waiting) : waiting[i] < n
  /\ waiting' = Append(waiting, n)
  /\ UNCHANGED <<last, shown>>

Write(n) ==
  /\ last' = n
  /\ \E k \in {0} \cup Columns :
       shown' = [c \in Columns |-> IF c <= k THEN n ELSE shown[c]]

WriteNext ==
  /\ waiting # <<>>
  /\ Write(Head(waiting))
  /\ waiting' = Tail(waiting)

WriteAgain == Write(last) /\ UNCHANGED waiting

PathNext == WriteNext \/ WriteAgain \/ \E n \in Rotations : TakeIn(n)

(* No rotation is left out, written twice among others or overtaken ...    *)
PathSafe == PathInit /\ [][PathNext]_pathVars

(* ... and each has its turn in the end.                                   *)
PathSpec == PathSafe /\ WF_pathVars(WriteNext)
=============================================================================
