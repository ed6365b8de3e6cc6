------------------------------- MODULE LcdPins ------------------------------
(***************************************************************************)
(* The pins of the display's bus, drv_hd44780_l.c, under LcdBus.           *)
(*                                                                         *)
(* HD44780WrIO and HD44780RdIO move a nibble by a sequence of writes to    *)
(* port registers.  The controller goes by the pins alone: it takes what   *)
(* they say when E falls, and drives the data pins itself while R/W and E  *)
(* are high.  The data pins are a latch of which a write sets some bits    *)
(* and then clears the others, while E is high.                            *)
(***************************************************************************)
EXTENDS LcdBus

VARIABLES
  dirOut,  \* the data pins are outputs
  rw,      \* R/W: a read
  e,       \* the strobe
  out,     \* the bits set in the latch of the data pins, by their weight
  phase    \* of HD44780WrIO or HD44780RdIO

pinVars == <<dirOut, rw, e, out, phase>>
pinsVars == <<vars, pinVars>>

Weights == {1, 2, 4, 8}

Bits(n) == {w \in Weights : (n \div w) % 2 = 1}

Value(S) == LET Bit(w) == IF w \in S THEN w ELSE 0
            IN Bit(1) + Bit(2) + Bit(4) + Bit(8)

PinsTypeOK ==
  /\ TypeOK
  /\ dirOut \in BOOLEAN /\ rw \in BOOLEAN /\ e \in BOOLEAN
  /\ out \subseteq Weights
  /\ phase \in {"idle", "directed", "selected", "high", "set", "done"}

(* Out of reset the port's pins are inputs and its latches clear.          *)
PinsInit ==
  /\ Init
  /\ dirOut = FALSE /\ rw = FALSE /\ e = FALSE /\ out = {} /\ phase = "idle"

PinsReset ==
  /\ Reset
  /\ dirOut' = FALSE /\ rw' = FALSE /\ e' = FALSE /\ out' = {} /\ phase' = "idle"

(* HD44780_IO_Init comes right before the first wait.                      *)
IO_Init ==
  /\ phase = "idle" /\ step = 1 /\ SyncWait
  /\ dirOut' = TRUE /\ rw' = FALSE /\ e' = FALSE
  /\ UNCHANGED <<out, phase>>

Think ==
  /\ phase = "idle" /\ ~(step = 1 /\ ~waited) /\ ThinkNext
  /\ UNCHANGED pinVars

NibbleDue == Transferring \/ (step <= Len(Sync) /\ waited)

(* A faulty HD44780RdIO: the data pins stay outputs.                       *)
SetDirectionOut ==
  /\ phase = "idle" /\ NibbleDue
  /\ dirOut' = TRUE /\ phase' = "directed"
  /\ UNCHANGED <<vars, rw, e, out>>

SetDirection ==
  /\ phase = "idle" /\ NibbleDue
  /\ dirOut' = ~Reading /\ phase' = "directed"
  /\ UNCHANGED <<vars, rw, e, out>>

SetRW ==
  /\ phase = "directed"
  /\ rw' = Reading /\ phase' = "selected"
  /\ UNCHANGED <<vars, dirOut, e, out>>

RaiseE ==
  /\ phase = "selected"
  /\ e' = TRUE /\ phase' = "high"
  /\ UNCHANGED <<vars, dirOut, rw, out>>

(* Reading IO0SET returns the latch, so that |= sets no other bit.         *)
SetBits ==
  /\ phase = "high" /\ ~Reading
  /\ out' = out \cup Bits(NextNibble) /\ phase' = "set"
  /\ UNCHANGED <<vars, dirOut, rw, e>>

(* A faulty HD44780WrIO: the bits of the last nibble stay.                 *)
ClearNoBits ==
  /\ phase = "set"
  /\ phase' = "done"
  /\ UNCHANGED <<vars, dirOut, rw, e, out>>

(* IO0CLR is write-only; the port returns zeros for it, so that |= clears  *)
(* no other bit.                                                           *)
ClearBits ==
  /\ phase = "set"
  /\ out' = out \cap Bits(NextNibble) /\ phase' = "done"
  /\ UNCHANGED <<vars, dirOut, rw, e>>

(* Of what is read only the busy flag, in a high nibble, matters here.     *)
ReadPins ==
  /\ phase = "high" /\ Reading
  /\ IF pc # "fetch" /\ ~lowNext THEN Sample ELSE UNCHANGED vars
  /\ phase' = "done"
  /\ UNCHANGED <<dirOut, rw, e, out>>

(* Data pins that nobody drives read as anything.                          *)
LowerE ==
  /\ phase = "done"
  /\ \E n \in IF dirOut THEN {Value(out)} ELSE Nibble : Strobe(rw, rs, n)
  /\ SyncDriver \/ HighDriver \/ LowDriver
  /\ e' = FALSE /\ phase' = "idle"
  /\ UNCHANGED <<dirOut, rw, out>>

PinsController == (ControllerNext \/ Float) /\ UNCHANGED pinVars

PinsNext == \/ IO_Init \/ Think
            \/ SetDirection \/ SetRW \/ RaiseE
            \/ SetBits \/ ClearBits \/ ReadPins \/ LowerE
            \/ PinsController \/ PinsReset

PinsSpec == PinsInit /\ [][PinsNext]_pinsVars

-----------------------------------------------------------------------------
(* The microcontroller and the controller never drive the data pins at the *)
(* same time, although R/W stays high after a read, and the direction is   *)
(* changed first.                                                          *)
NoContention == ~(dirOut /\ rw /\ e)

(* The pins carry the nibbles that LcdBus exchanges, from driver to        *)
(* controller, with R/W and RS as meant; whatever an earlier nibble left   *)
(* in the latch or in the direction of the pins.                           *)
ImplementsBus == Spec
=============================================================================
