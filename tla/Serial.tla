------------------------------- MODULE Serial -------------------------------
(***************************************************************************)
(* serial.c: the interrupt driven driver of UART0.                         *)
(*                                                                         *)
(* xSerialPutChar is one critical section, except that a task which finds  *)
(* the queue full waits inside it, with its own critical section put       *)
(* aside: other tasks and the handler run meanwhile.  So an operation is   *)
(* one step, or two with the wait between them.  vSerialISR looks at one   *)
(* source of the interrupt per entry and is one step.                      *)
(*                                                                         *)
(* Received characters are counted, not told apart: nothing in the program *)
(* reads them.                                                             *)
(***************************************************************************)
EXTENDS Integers, Sequences, FiniteSets

CONSTANTS
  Chars,
  NoChar,         \* not a character
  Writers,        \* the tasks that print; in the program only Speed
  uxQueueLength   \* argument of xSerialPortInitMinimal, 400

ASSUME SerialAssumption ==
  /\ uxQueueLength \in Nat
  /\ NoChar \notin Chars
  /\ IsFiniteSet(Writers)

VARIABLES
  xCharsForTx,  \* the queue of characters to send
  lTHREEmpty,   \* "the transmitter is idle", as the driver believes
  thr,          \* the UART's transmit FIFO
  threInt,      \* the THRE interrupt is pending
  wire,         \* the last character sent
  writer,       \* per task: "idle", "blocked" on the full queue, or "ready",
                \* woken but not yet running again
  pending,      \* per task: cOutChar, NoChar when idle
  rdr,          \* a received character waits in the UART
  xRxedChars    \* how many received characters are queued

txVars  == <<xCharsForTx, lTHREEmpty, thr, threInt, wire>>
taskVars == <<writer, pending>>
rxVars  == <<rdr, xRxedChars>>
vars    == <<txVars, taskVars, rxVars>>

txLength == uxQueueLength + 1

TypeOK ==
  /\ xCharsForTx \in Seq(Chars) /\ Len(xCharsForTx) <= txLength
  /\ lTHREEmpty \in BOOLEAN
  /\ thr \in Seq(Chars)
  /\ threInt \in BOOLEAN
  /\ wire \in Chars \cup {NoChar}
  /\ writer \in [Writers -> {"idle", "blocked", "ready"}]
  /\ pending \in [Writers -> Chars \cup {NoChar}]
  /\ \A w \in Writers : writer[w] = "idle" <=> pending[w] = NoChar
  /\ rdr \in BOOLEAN
  /\ xRxedChars \in 0 .. uxQueueLength

(* xSerialPortInitMinimal.  Enabling the interrupt with an empty           *)
(* transmitter may or may not raise it at once.                            *)
Init ==
  /\ xCharsForTx = <<>>
  /\ lTHREEmpty = TRUE
  /\ thr = <<>>
  /\ threInt \in BOOLEAN
  /\ wire = NoChar
  /\ writer = [w \in Writers |-> "idle"]
  /\ pending = [w \in Writers |-> NoChar]
  /\ rdr = FALSE
  /\ xRxedChars = 0

(* A faulty queue: created one longer than the driver means.               *)
TxFullOneMore == Len(xCharsForTx) = txLength + 1

TxFull == Len(xCharsForTx) = txLength

In(state) == {w \in Writers : writer[w] = state}

-----------------------------------------------------------------------------
(* Helpers: what a step does to the UART, and to the tasks.                *)

(* U0THR = c: it takes back the THRE interrupt.                            *)
WriteTHR(c) ==
  /\ thr' = Append(thr, c)
  /\ threInt' = FALSE

(* A faulty wait: the queue is emptied without telling who waits.          *)
WakeSenderNobody(wr) == writer' = wr

(* Taking a character from the queue wakes one of the tasks waiting to     *)
(* send, whichever FreeRTOS chooses.  wr is the tasks' state to start from.*)
WakeSender(wr) ==
  LET Waiting == {w \in Writers : wr[w] = "blocked"}
  IN  IF Waiting = {}
      THEN writer' = wr
      ELSE \E w \in Waiting : writer' = [wr EXCEPT ![w] = "ready"]

Returns(w) == pending' = [pending EXCEPT ![w] = NoChar]

-----------------------------------------------------------------------------
(* xSerialPutChar, with the block time portMAX_DELAY of vSerialPutString.  *)

PutDirect(w, c) ==
  /\ writer[w] = "idle" /\ lTHREEmpty
  /\ lTHREEmpty' = FALSE
  /\ WriteTHR(c)
  /\ UNCHANGED <<xCharsForTx, wire, taskVars, rxVars>>

PutQueued(w, c) ==
  /\ writer[w] = "idle" /\ ~lTHREEmpty /\ ~TxFull
  /\ xCharsForTx' = Append(xCharsForTx, c)
  /\ UNCHANGED <<lTHREEmpty, thr, threInt, wire, taskVars, rxVars>>

PutBlock(w, c) ==
  /\ writer[w] = "idle" /\ ~lTHREEmpty /\ TxFull
  /\ writer' = [writer EXCEPT ![w] = "blocked"]
  /\ pending' = [pending EXCEPT ![w] = c]
  /\ UNCHANGED <<txVars, rxVars>>

(* A woken task runs again.  Another has taken the room: it waits on.      *)
ResumeBlock(w) ==
  /\ writer[w] = "ready" /\ TxFull
  /\ writer' = [writer EXCEPT ![w] = "blocked"]
  /\ UNCHANGED <<txVars, pending, rxVars>>

(* There is room and the transmitter still works on the queue.             *)
ResumeQueued(w) ==
  /\ writer[w] = "ready" /\ ~TxFull /\ ~lTHREEmpty
  /\ xCharsForTx' = Append(xCharsForTx, pending[w])
  /\ writer' = [writer EXCEPT ![w] = "idle"]
  /\ Returns(w)
  /\ UNCHANGED <<lTHREEmpty, thr, threInt, wire, rxVars>>

(* Faulty drivers: one that has no second look at lTHREEmpty after the     *)
(* wait, and one that leaves in the queue what it sends directly.          *)
ResumeNoRestart(w) ==
  /\ writer[w] = "ready" /\ ~TxFull /\ lTHREEmpty
  /\ xCharsForTx' = Append(xCharsForTx, pending[w])
  /\ writer' = [writer EXCEPT ![w] = "idle"]
  /\ Returns(w)
  /\ UNCHANGED <<lTHREEmpty, thr, threInt, wire, rxVars>>

ResumeRestartTwice(w) ==
  /\ writer[w] = "ready" /\ ~TxFull /\ lTHREEmpty
  /\ xCharsForTx' = Append(xCharsForTx, pending[w])
  /\ WriteTHR(pending[w])
  /\ lTHREEmpty' = FALSE
  /\ writer' = [writer EXCEPT ![w] = "idle"]
  /\ Returns(w)
  /\ UNCHANGED <<wire, rxVars>>

(* The handler emptied the queue meanwhile: start the transmitter again,   *)
(* with the character at the head of the queue.                            *)
ResumeRestart(w) ==
  /\ writer[w] = "ready" /\ ~TxFull /\ lTHREEmpty
  /\ LET q == Append(xCharsForTx, pending[w])
     IN  xCharsForTx' = Tail(q) /\ WriteTHR(Head(q))
  /\ lTHREEmpty' = FALSE
  /\ WakeSender([writer EXCEPT ![w] = "idle"])
  /\ Returns(w)
  /\ UNCHANGED <<wire, rxVars>>

(* xSerialGetChar, when there is a character.  No task of the program      *)
(* calls it.                                                               *)
GetChar ==
  /\ xRxedChars > 0
  /\ xRxedChars' = xRxedChars - 1
  /\ UNCHANGED <<txVars, taskVars, rdr>>

-----------------------------------------------------------------------------
(* vSerialISR: U0IIR names a received character before THRE, and reading   *)
(* THRE from it takes the interrupt back.                                  *)

ThreISRSend ==
  /\ threInt /\ ~rdr /\ xCharsForTx # <<>>
  /\ xCharsForTx' = Tail(xCharsForTx)
  /\ WriteTHR(Head(xCharsForTx))
  /\ WakeSender(writer)
  /\ UNCHANGED <<lTHREEmpty, wire, pending, rxVars>>

(* A faulty handler: it does not say that there was nothing to send.       *)
ThreISRIdleUnmarked ==
  /\ threInt /\ ~rdr /\ xCharsForTx = <<>>
  /\ threInt' = FALSE
  /\ UNCHANGED <<xCharsForTx, lTHREEmpty, thr, wire, taskVars, rxVars>>

ThreISRIdle ==
  /\ threInt /\ ~rdr /\ xCharsForTx = <<>>
  /\ threInt' = FALSE
  /\ lTHREEmpty' = TRUE
  /\ UNCHANGED <<xCharsForTx, thr, wire, taskVars, rxVars>>

(* A faulty handler: it reads a character only if there is room for it.    *)
RxISRIfRoom ==
  /\ rdr /\ xRxedChars < uxQueueLength
  /\ rdr' = FALSE
  /\ xRxedChars' = xRxedChars + 1
  /\ UNCHANGED <<txVars, taskVars>>

(* A character that finds the queue full is read and dropped.              *)
RxISR ==
  /\ rdr
  /\ rdr' = FALSE
  /\ xRxedChars' = IF xRxedChars < uxQueueLength THEN xRxedChars + 1
                                                 ELSE xRxedChars
  /\ UNCHANGED <<txVars, taskVars>>

-----------------------------------------------------------------------------
(* The UART's own steps. *)

Transmit ==
  /\ thr # <<>>
  /\ wire' = Head(thr)
  /\ thr' = Tail(thr)
  /\ threInt' = (Tail(thr) = <<>>)
  /\ UNCHANGED <<xCharsForTx, lTHREEmpty, taskVars, rxVars>>

(* A character takes 87 us on the line at 115200 baud, many times what the *)
(* handler takes to read the one before.                                   *)
Receive ==
  /\ ~rdr
  /\ rdr' = TRUE
  /\ UNCHANGED <<txVars, taskVars, xRxedChars>>

-----------------------------------------------------------------------------
PutChar(w, c) == PutDirect(w, c) \/ PutQueued(w, c) \/ PutBlock(w, c)

Resume(w) == ResumeBlock(w) \/ ResumeQueued(w) \/ ResumeRestart(w)

ThreISR == ThreISRSend \/ ThreISRIdle

Next ==
  \/ \E w \in Writers, c \in Chars : PutChar(w, c)
  \/ \E w \in Writers : Resume(w)
  \/ GetChar
  \/ ThreISR
  \/ RxISR
  \/ Transmit
  \/ Receive

(* The UART sends, the handler runs, a woken task comes to run: nothing    *)
(* above the speed task in priority runs for ever.  Strong for THRE, which *)
(* each received character puts off.  Nobody need print or read.           *)
Fairness ==
  /\ WF_vars(Transmit)
  /\ SF_vars(ThreISR)
  /\ WF_vars(RxISR)
  /\ \A w \in Writers : WF_vars(Resume(w))

Spec == Init /\ [][Next]_vars /\ Fairness

-----------------------------------------------------------------------------
(* While the driver believes the transmitter busy, it is, or its interrupt *)
(* is on the way: no interleaving of a task and the handler leaves queued  *)
(* characters with nothing to send them.                                   *)
BusyIsTrue == ~lTHREEmpty => thr # <<>> \/ threInt

(* While it believes it idle, nothing is queued and nothing in the UART:   *)
(* a character written directly overtakes no other.                        *)
IdleIsTrue == lTHREEmpty => xCharsForTx = <<>> /\ thr = <<>>

(* Room in the queue is never left to nobody while tasks wait for it: for  *)
(* each free place a woken task is on its way.                             *)
NoWriterForgotten ==
  In("blocked") # {} =>
    txLength - Len(xCharsForTx) <= Cardinality(In("ready"))

(* The driver is a lossless channel: all it has accepted is in the FIFO,   *)
(* then in the queue.                                                      *)
Channel == INSTANCE CharChannel
             WITH pipe <- thr \o xCharsForTx, capacity <- txLength + 1

ImplementsChannel == Channel!ChannelSpec

(* A task that waits for room returns in the end, though characters keep   *)
(* arriving, once the other tasks have stopped printing.  In the program   *)
(* there are no others.                                                    *)
OthersStop(w) ==
  <>[][\A v \in Writers \ {w}, c \in Chars : ~PutChar(v, c)]_vars

WriterReturns ==
  \A w \in Writers :
    OthersStop(w) => (writer[w] = "blocked" ~> writer[w] = "idle")
=============================================================================
