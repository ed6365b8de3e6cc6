------------------------------- MODULE LcdBus -------------------------------
(***************************************************************************)
(* The four-bit bus between drv_hd44780.c and the HD44780 controller: the  *)
(* power-up sequence, bytes as two nibbles, the busy check, and restarts   *)
(* of the microcontroller.                                                 *)
(*                                                                         *)
(* The controller comes up with an eight-bit interface, but keeps the one  *)
(* it had when only the microcontroller is reset, even with half a byte    *)
(* received.  HD44780_PowerUpInit has to bring the two into step from      *)
(* wherever the controller is.  Time is counted in the driver's delays, of *)
(* 100 us each, and only where a command or a wait is long enough.         *)
(***************************************************************************)
EXTENDS Integers, Sequences

CONSTANTS
  Commands,  \* the commands that operations send once the display is set up
  Data,      \* the characters and pattern rows they write
  SlowTime   \* how many delays clear and home may take

POWER_UP_DLY == 400
FIRST_COMM_DLY == 41
SECOND_COMM_DLY == 2
MAX_COMM_DLY == 30

(* The commands of the driver after power-up: clear and home, the mode,    *)
(* the shift of the display, and addresses.                                *)
LcdAssumption ==
  /\ Commands \subseteq {1, 2} \cup 8 .. 15 \cup {24, 28} \cup 64 .. 255
  /\ Data \subseteq 0 .. 255
  /\ SlowTime \in 1 .. MAX_COMM_DLY - 1

ASSUME LcdAssumed == LcdAssumption

Nibble == 0 .. 15
NoHalf == -1
OtherHalf == 16

VARIABLES
  (* The controller. *)
  eightBit,  \* its interface
  half,      \* the high nibble of a command half received, OtherHalf after
             \* half of data or of a read, or NoHalf
  twoLines,
  on,        \* display on
  home,      \* the display is not shifted
  increment, \* the address counter counts upwards
  busy,      \* how many delays it may still be busy
  settled,   \* the address counter has moved after the last data
  (* The driver. *)
  step,      \* the next step of HD44780_PowerUpInit, Running after it
  waited,    \* the wait before that step is over
  pc,        \* "next", "send", "fetch", "poll", "delay", "settle", "address"
  rs,        \* the pin RS: data, not a command or the status
  byte,      \* the byte to send
  lowNext,   \* the low nibble of a transfer is next
  flag,      \* the busy flag as polled: "none", "busy", "ready"
  polls,     \* MaxDly: the polls left in a busy check
  cut,       \* a delay of this check was cut short
  failed     \* HD44780_PowerUpInit gave up

lcdVars == <<eightBit, half, twoLines, on, home, increment, busy, settled>>
transferVars == <<pc, rs, byte, lowNext, flag, polls, cut>>
driverVars == <<step, waited, transferVars, failed>>
vars == <<lcdVars, driverVars>>

(* Faulty sequences: one function set less, and a second wait that is too  *)
(* short.                                                                  *)
SyncOneLess == << [wait |-> POWER_UP_DLY, nibble |-> 3],
                  [wait |-> FIRST_COMM_DLY, nibble |-> 3],
                  [wait |-> SECOND_COMM_DLY, nibble |-> 2],
                  [wait |-> SECOND_COMM_DLY, nibble |-> 2] >>

SyncShort == << [wait |-> POWER_UP_DLY, nibble |-> 3],
                [wait |-> SECOND_COMM_DLY, nibble |-> 3],
                [wait |-> SECOND_COMM_DLY, nibble |-> 3],
                [wait |-> SECOND_COMM_DLY, nibble |-> 2] >>

(* The single nibbles of the power-up sequence and the wait before each.   *)
Sync == << [wait |-> POWER_UP_DLY, nibble |-> 3],
           [wait |-> FIRST_COMM_DLY, nibble |-> 3],
           [wait |-> SECOND_COMM_DLY, nibble |-> 3],
           [wait |-> SECOND_COMM_DLY, nibble |-> 2] >>

(* A faulty set-up: the display is not cleared.                            *)
SetUpNoClear == << [byte |-> 40, polls |-> SECOND_COMM_DLY],
                   [byte |-> 8, polls |-> MAX_COMM_DLY],
                   [byte |-> 8, polls |-> MAX_COMM_DLY],
                   [byte |-> 12, polls |-> FIRST_COMM_DLY] >>

(* The bytes after it with the polls of their busy checks: function set    *)
(* with four bits and two lines, display off, clear, and HD44780_SetMode's *)
(* display on without cursor.                                              *)
SetUp == << [byte |-> 40, polls |-> SECOND_COMM_DLY],
            [byte |-> 8, polls |-> MAX_COMM_DLY],
            [byte |-> 1, polls |-> MAX_COMM_DLY],
            [byte |-> 12, polls |-> FIRST_COMM_DLY] >>

Running == Len(Sync) + Len(SetUp) + 1

(* A faulty busy check of clear and home: as short as any other's.         *)
PollsOfShort(c) == SECOND_COMM_DLY

(* A faulty one: the limit is the wait after power-up.                     *)
PollsOfPowerUp(c) == POWER_UP_DLY

PollsOf(c) == IF c \in {1, 2} THEN MAX_COMM_DLY
              ELSE IF c \in 8 .. 15 THEN FIRST_COMM_DLY ELSE SECOND_COMM_DLY

TypeOK ==
  /\ eightBit \in BOOLEAN /\ twoLines \in BOOLEAN /\ on \in BOOLEAN
  /\ home \in BOOLEAN /\ increment \in BOOLEAN /\ settled \in BOOLEAN
  /\ half \in Nibble \cup {NoHalf, OtherHalf}
  /\ busy \in 0 .. POWER_UP_DLY
  /\ step \in 1 .. Running /\ waited \in BOOLEAN /\ failed \in BOOLEAN
  /\ pc \in {"next", "send", "fetch", "poll", "delay", "settle", "address"}
  /\ rs \in BOOLEAN /\ byte \in 0 .. 255 /\ lowNext \in BOOLEAN
  /\ flag \in {"none", "busy", "ready"}
  /\ polls \in 0 .. FIRST_COMM_DLY /\ cut \in BOOLEAN

-----------------------------------------------------------------------------
(* The controller. *)

(* Which command a byte is shows in its highest one.                       *)
Execute(hi, lo) ==
  /\ eightBit' = IF hi \in {2, 3} THEN hi = 3 ELSE eightBit
  /\ twoLines' = IF hi \in {2, 3} THEN lo >= 8 ELSE twoLines
  /\ on' = IF hi = 0 /\ lo >= 8 THEN lo >= 12 ELSE on
  /\ home' = IF hi = 0 /\ lo \in {1, 2, 3} THEN TRUE
             ELSE IF hi = 1 /\ lo >= 8 THEN FALSE ELSE home
  /\ increment' = IF hi = 0 /\ lo = 1 THEN TRUE
                  ELSE IF hi = 0 /\ lo \in 4 .. 7 THEN lo >= 6 ELSE increment
  /\ busy' = IF hi = 0 /\ lo \in {1, 2, 3} THEN SlowTime ELSE 1
  /\ UNCHANGED settled

(* Data written or read: the address counter follows a little after the    *)
(* busy flag.                                                              *)
MoveAddress ==
  /\ busy' = 1
  /\ settled' = FALSE
  /\ UNCHANGED <<eightBit, twoLines, on, home, increment>>

Unaffected ==
  UNCHANGED <<eightBit, twoLines, on, home, increment, busy, settled>>

(* E falls.  With eight bits the low half of the bus, which is not         *)
(* connected, reads as anything.  A half left over may have been of data:  *)
(* the first nibble of the power-up sequence then completes data.          *)
Strobe(read, data, n) ==
  IF ~eightBit /\ half = NoHalf
  THEN half' = (IF data \/ read THEN OtherHalf ELSE n) /\ Unaffected
  ELSE /\ half' = NoHalf
       /\ IF read /\ ~data THEN Unaffected
          ELSE IF data \/ half = OtherHalf THEN MoveAddress
          ELSE IF eightBit THEN \E lo \in Nibble : Execute(n, lo)
          ELSE Execute(half, n)

Elapse(n) ==
  /\ busy' = IF busy > n THEN busy - n ELSE 0
  /\ settled' = (settled \/ busy < n)
  /\ UNCHANGED <<eightBit, half, twoLines, on, home, increment>>

BusyEnds ==
  /\ busy > 0
  /\ busy' = 0
  /\ UNCHANGED <<eightBit, half, twoLines, on, home, increment, settled>>

AddressMoves ==
  /\ busy = 0 /\ ~settled
  /\ settled' = TRUE
  /\ UNCHANGED <<eightBit, half, twoLines, on, home, increment, busy>>

-----------------------------------------------------------------------------
(* The microcontroller starts: nothing is known of the controller.         *)
Init ==
  /\ eightBit \in BOOLEAN /\ twoLines \in BOOLEAN /\ on \in BOOLEAN
  /\ home \in BOOLEAN /\ increment \in BOOLEAN /\ settled \in BOOLEAN
  /\ half \in IF eightBit THEN {NoHalf} ELSE Nibble \cup {NoHalf, OtherHalf}
  /\ busy \in {0, SlowTime, POWER_UP_DLY}
  /\ step = 1 /\ waited = FALSE /\ failed = FALSE
  /\ pc = "next" /\ rs = FALSE /\ byte = 0 /\ lowNext = FALSE
  /\ flag = "none" /\ polls = 0 /\ cut = FALSE

(* It restarts, in the middle of whatever it was at; the display may lose  *)
(* its power as well.                                                      *)
Reset ==
  /\ step' = 1 /\ waited' = FALSE /\ failed' = FALSE
  /\ pc' = "next" /\ rs' = FALSE /\ byte' = 0 /\ lowNext' = FALSE
  /\ flag' = "none" /\ polls' = 0 /\ cut' = FALSE
  /\ \/ UNCHANGED lcdVars
     \/ /\ eightBit' = TRUE /\ half' = NoHalf /\ twoLines' = FALSE
        /\ on' = FALSE /\ home' = TRUE /\ increment' = TRUE
        /\ busy' = POWER_UP_DLY /\ settled' = TRUE

(* The pins float until HD44780_IO_Init drives them.                       *)
Float ==
  /\ step = 1 /\ ~waited
  /\ \E read, data \in BOOLEAN, n \in Nibble : Strobe(read, data, n)
  /\ UNCHANGED driverVars

-----------------------------------------------------------------------------
(* The driver.  An action that strobes is the driver's part of it and the  *)
(* controller's Strobe.                                                    *)

SyncWait ==
  /\ step <= Len(Sync) + 1 /\ ~waited
  /\ waited' = TRUE
  /\ Elapse(IF step <= Len(Sync) THEN Sync[step].wait ELSE SECOND_COMM_DLY)
  /\ UNCHANGED <<step, transferVars, failed>>

SyncDriver ==
  /\ step <= Len(Sync) /\ waited
  /\ step' = step + 1
  /\ waited' = FALSE
  /\ UNCHANGED <<transferVars, failed>>

(* A transfer and its busy check begin: HD44780WrComm, HD44780WrData,      *)
(* HD44780RdData or HD44780RdStatus set RS.                                *)
Begin(kind, data, b, n) ==
  /\ pc = "next"
  /\ pc' = kind /\ rs' = data /\ byte' = b /\ polls' = n
  /\ UNCHANGED <<lcdVars, step, waited, lowNext, flag, cut, failed>>

BeginSetUp ==
  /\ step \in Len(Sync) + 1 .. Running - 1 /\ waited
  /\ LET s == SetUp[step - Len(Sync)] IN Begin("send", FALSE, s.byte, s.polls)

(* HD44780_WrCGRAM and HD44780_RdCGRAM begin with a check and no byte.     *)
BeginOperation ==
  /\ step = Running
  /\ \/ \E c \in Commands : Begin("send", FALSE, c, PollsOf(c))
     \/ \E d \in Data : Begin("send", TRUE, d, SECOND_COMM_DLY)
     \/ Begin("fetch", TRUE, 0, SECOND_COMM_DLY)
     \/ Begin("poll", FALSE, 0, SECOND_COMM_DLY)

Reading == pc \in {"fetch", "poll", "address"}

Transferring == pc \in {"send", "fetch", "address"} \/ (pc = "poll" /\ polls > 0)

High(b) == b \div 16

Low(b) == b % 16

(* A faulty transfer: the low nibble of a byte first.                      *)
NextNibbleLowFirst == IF step <= Len(Sync) THEN Sync[step].nibble
                      ELSE IF lowNext THEN High(byte) ELSE Low(byte)

NextNibble == IF step <= Len(Sync) THEN Sync[step].nibble
              ELSE IF lowNext THEN Low(byte) ELSE High(byte)

(* RdStatus reads the high nibble of the status, with the busy flag, while *)
(* E is high.                                                              *)
Sample ==
  /\ Transferring /\ pc \in {"poll", "address"} /\ ~lowNext /\ flag = "none"
  /\ flag' = IF busy > 0 THEN "busy" ELSE "ready"
  /\ UNCHANGED <<lcdVars, step, waited, pc, rs, byte, lowNext, polls, cut, failed>>

HighDriver ==
  /\ Transferring /\ ~lowNext
  /\ pc \in {"poll", "address"} => flag # "none"
  /\ lowNext' = TRUE
  /\ UNCHANGED <<step, waited, pc, rs, byte, flag, polls, cut, failed>>

AfterPass == IF step < Running THEN step + 1 ELSE step

(* The low nibble: the busy check follows a byte, a delay or the second    *)
(* reading a poll; the check is over after the second reading.             *)
LowDriver ==
  /\ Transferring /\ lowNext
  /\ lowNext' = FALSE /\ flag' = "none" /\ rs' = FALSE /\ byte' = 0
  /\ pc' = CASE pc \in {"send", "fetch"} -> "poll"
             [] pc = "poll" -> IF flag = "busy" THEN "delay" ELSE "settle"
             [] pc = "address" -> "next"
  /\ IF pc = "address" THEN step' = AfterPass /\ polls' = 0 /\ cut' = FALSE
                       ELSE UNCHANGED <<step, polls, cut>>
  /\ UNCHANGED <<waited, failed>>

SyncNibble == SyncDriver /\ Strobe(FALSE, rs, NextNibble)
HighNibble == HighDriver /\ Strobe(Reading, rs, NextNibble)
LowNibble == LowDriver /\ Strobe(Reading, rs, NextNibble)

(* A faulty busy check: the second reading follows at once.                *)
SettleAtOnce ==
  /\ pc = "settle"
  /\ pc' = "address"
  /\ UNCHANGED <<lcdVars, step, waited, rs, byte, lowNext, flag, polls, cut, failed>>

(* Two HD44780_BUS_DLY, of about 2 us each.                                *)
Settle ==
  /\ pc = "settle"
  /\ pc' = "address"
  /\ settled' = (settled \/ busy = 0)
  /\ UNCHANGED <<eightBit, half, twoLines, on, home, increment, busy>>
  /\ UNCHANGED <<step, waited, rs, byte, lowNext, flag, polls, cut, failed>>

(* One delay in a check may be cut short by the match of an old delay, and *)
(* no more than one: a match comes again only after a minute, so that none *)
(* is within a minute of the first delay of all.                           *)
Delay ==
  /\ pc = "delay"
  /\ pc' = "poll"
  /\ polls' = polls - 1
  /\ \/ Elapse(1) /\ UNCHANGED cut
     \/ step = Running /\ ~cut /\ cut' = TRUE /\ UNCHANGED lcdVars
  /\ UNCHANGED <<step, waited, rs, byte, lowNext, flag, failed>>

(* The last delay was not followed by a poll: HD44780_BUSY_TO_ERROR.  The  *)
(* operation is abandoned; the LCD task ignores that even of the power-up. *)
Fail ==
  /\ pc = "poll" /\ polls = 0
  /\ pc' = "next" /\ step' = Running /\ cut' = FALSE
  /\ failed' = (failed \/ step < Running)
  /\ UNCHANGED <<lcdVars, waited, rs, byte, lowNext, flag, polls>>

ControllerNext == (BusyEnds \/ AddressMoves) /\ UNCHANGED driverVars

(* What the driver does besides moving nibbles.                            *)
ThinkNext ==
  SyncWait \/ BeginSetUp \/ BeginOperation \/ Settle \/ Delay \/ Fail

Next == \/ ControllerNext \/ ThinkNext \/ Sample
        \/ SyncNibble \/ HighNibble \/ LowNibble
        \/ Reset \/ Float

Spec == Init /\ [][Next]_vars

-----------------------------------------------------------------------------
(* Wherever the controller was, even in the middle of a byte: when the     *)
(* four single nibbles are out, the driver and the controller agree on the *)
(* interface and on where a byte begins, whoever sends it, and they never  *)
(* disagree again until the next restart.                                  *)
InStep ==
  step > Len(Sync) => ~eightBit /\ (half = NoHalf <=> ~lowNext)

(* From then on the controller executes the commands that the driver       *)
(* sends, each in full and just once, and takes nothing else for one: no   *)
(* data, no half of a byte, nothing of a read.  Operations can thus be     *)
(* thought of as whole bytes, as in module LcdDriver.                      *)
CommandsArrive ==
  [][step > Len(Sync) /\ step' > Len(Sync) =>
       IF LowNibble /\ pc = "send" /\ ~rs
       THEN Execute(High(byte), Low(byte))
       ELSE UNCHANGED <<eightBit, twoLines, on, home, increment>>]_vars

(* A display whose initialisation was not given up has two lines, is on,   *)
(* is at its home position, and counts addresses upwards, as HD4478_Ctrl   *)
(* says, whatever was left of an earlier life: although the entry mode     *)
(* that HD44780_PowerUpInit puts together is never sent.  The entry mode's *)
(* other half, whether the display shifts with each character, is not      *)
(* modelled: a clear does not reset it, but no command the driver sends    *)
(* once in step sets it either.                                            *)
SetUpComplete ==
  [][step # Running /\ step' = Running /\ ~failed'
       => twoLines' /\ on' /\ home' /\ increment']_vars

(* No nibble is written, and no data read, while the controller is busy:   *)
(* not after a busy check that gave up, and not with a slow command that a *)
(* half byte from before the restart and the first nibble of the power-up  *)
(* sequence make by accident.                                              *)
NotWrittenWhileBusy ==
  [][SyncNibble \/ (pc \in {"send", "fetch"} /\ (HighNibble \/ LowNibble))
       => busy = 0]_vars

(* HD44780_BusyCheck gives up only when one of its delays was cut short:   *)
(* MaxDly is enough for each command.  HD44780_PowerUpInit never gives up. *)
FailsOnlyIfCut == [][Fail => cut /\ step = Running]_vars

(* The address that HD44780_BusyCheck returns, which HD44780_StrShow and   *)
(* HD44780_WrCGRAM go by, is read when the address counter has moved.      *)
AddressSettled == [][Sample /\ pc = "address" => busy = 0 /\ settled]_vars
=============================================================================
