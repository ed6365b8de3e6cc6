------------------------------ MODULE MCSerial ------------------------------
(* The driver with three printing tasks and a queue for three characters:  *)
(* tasks overtake each other on the way from the wait to the queue.  With  *)
(* one task, as in the program, it shows that the wait ends.               *)
EXTENDS Serial
=============================================================================
