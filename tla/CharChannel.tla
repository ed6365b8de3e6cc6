---------------------------- MODULE CharChannel ----------------------------
(***************************************************************************)
(* What the transmitting half of serial.c promises to its callers: each    *)
(* character it accepts goes out on the line, once, in the order accepted, *)
(* and no more than capacity of them are on the way.                       *)
(***************************************************************************)
EXTENDS Naturals, Sequences

CONSTANTS
  Chars,
  NoChar,    \* the line before the first character
  capacity

VARIABLES
  pipe,  \* characters accepted and not yet sent
  wire   \* the last character sent

ChannelInit == pipe = <<>> /\ wire = NoChar

Accept(c) ==
  /\ Len(pipe) < capacity
  /\ pipe' = Append(pipe, c)
  /\ wire' = wire

Deliver ==
  /\ pipe # <<>>
  /\ wire' = Head(pipe)
  /\ pipe' = Tail(pipe)

ChannelNext == Deliver \/ \E c \in Chars : Accept(c)

(* No character is lost, doubled or overtaken ...                          *)
ChannelSafe == ChannelInit /\ [][ChannelNext]_<<pipe, wire>>

(* ... and each goes out in the end.                                       *)
ChannelSpec == ChannelSafe /\ WF_<<pipe, wire>>(Deliver)
=============================================================================
