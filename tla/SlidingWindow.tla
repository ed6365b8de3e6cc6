---------------------------- MODULE SlidingWindow ----------------------------
(***************************************************************************)
(* What prvHistory is for: the last `size' wheel rotations, oldest first.  *)
(***************************************************************************)
EXTENDS Integers, Sequences

CONSTANTS Rotation, size

VARIABLE window

WindowInit == window = <<>>

Slide(e) ==
  window' = Append(IF Len(window) < size THEN window ELSE Tail(window), e)

WindowNext ==
  LET e == window'[Len(window')]
  IN  window' # <<>> /\ e \in Rotation /\ Slide(e)

WindowSpec == WindowInit /\ [][WindowNext]_window
=============================================================================
