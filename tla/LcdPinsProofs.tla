---------------------------- MODULE LcdPinsProofs ---------------------------
(***************************************************************************)
(* Theorems about LcdBus and LcdPins: the pins carry the nibbles, driver   *)
(* and controller come into step from wherever the controller was, nothing *)
(* is written to a busy controller, and a busy check gives up only when a  *)
(* delay was cut short.                                                    *)
(***************************************************************************)
EXTENDS LcdPins, TLAPS

(* The power-up sequence in figures.                                       *)
LEMMA Figures ==
  /\ Len(Sync) = 4 /\ Len(SetUp) = 4 /\ Running = 9
  /\ \A s \in 1 .. 4 : Sync[s].nibble = IF s = 4 THEN 2 ELSE 3
  /\ Sync[1].wait = 400 /\ Sync[2].wait = 41
  /\ Sync[3].wait = 2 /\ Sync[4].wait = 2
  /\ \A s \in 1 .. 4 : /\ SetUp[s].byte \in 0 .. 255
                       /\ SetUp[s].polls \in 2 .. 41
                       /\ SetUp[s].byte \notin {2, 3}
                       /\ SetUp[s].byte = 1 => SetUp[s].polls = 30
  /\ SetUp[1].byte = 40 /\ SetUp[2].byte = 8
  /\ SetUp[3].byte = 1 /\ SetUp[4].byte = 12
<1>1. Len(Sync) = 4 /\ Len(SetUp) = 4
  BY DEF Sync, SetUp
<1>2. /\ Sync[1] = [wait |-> 400, nibble |-> 3]
      /\ Sync[2] = [wait |-> 41, nibble |-> 3]
      /\ Sync[3] = [wait |-> 2, nibble |-> 3]
      /\ Sync[4] = [wait |-> 2, nibble |-> 2]
  BY DEF Sync, POWER_UP_DLY, FIRST_COMM_DLY, SECOND_COMM_DLY
<1>3. /\ SetUp[1] = [byte |-> 40, polls |-> 2]
      /\ SetUp[2] = [byte |-> 8, polls |-> 30]
      /\ SetUp[3] = [byte |-> 1, polls |-> 30]
      /\ SetUp[4] = [byte |-> 12, polls |-> 41]
  BY DEF SetUp, FIRST_COMM_DLY, SECOND_COMM_DLY, MAX_COMM_DLY
<1>4. Running = 9
  BY <1>1 DEF Running
<1>5. \A s \in 1 .. 4 : s = 1 \/ s = 2 \/ s = 3 \/ s = 4
  OBVIOUS
<1>6. \A s \in 1 .. 4 : Sync[s].nibble = IF s = 4 THEN 2 ELSE 3
  BY <1>2, <1>5
<1>7. \A s \in 1 .. 4 : /\ SetUp[s].byte \in 0 .. 255
                        /\ SetUp[s].polls \in 2 .. 41
                        /\ SetUp[s].byte \notin {2, 3}
                        /\ SetUp[s].byte = 1 => SetUp[s].polls = 30
  BY <1>3, <1>5
<1> QED
  BY <1>1, <1>2, <1>3, <1>4, <1>6, <1>7

-----------------------------------------------------------------------------
(* The pins. *)

(* A nibble is the sum of its bits.                                        *)
LEMMA ValueOfBits ==
  ASSUME NEW n \in Nibble
  PROVE  Value(Bits(n)) = n
  BY DEF Value, Bits, Weights, Nibble

(* What is on the data pins does not matter to a controller that is read.  *)
LEMMA ReadIgnoresPins ==
  ASSUME NEW data, NEW n, NEW m, Strobe(TRUE, data, n)
  PROVE  Strobe(TRUE, data, m)
  BY DEF Strobe

-----------------------------------------------------------------------------
(* The bus. *)

(* Where the driver is, and what the controller has of a transfer.         *)
TransferInv ==
  /\ step <= 4 => pc = "next"
  /\ step > 5 => waited
  /\ pc # "next" => waited
  /\ pc = "fetch" => rs /\ step = 9
  /\ pc \notin {"send", "fetch"} => ~rs
  /\ pc = "send" /\ step < 9 => ~rs /\ byte = SetUp[step - 4].byte
  /\ pc = "send" /\ step = 9 /\ ~rs => byte \in Commands
  /\ lowNext => Transferring
  /\ lowNext /\ pc = "send" /\ ~rs => half = High(byte)
  /\ flag # "none" => pc \in {"poll", "address"} /\ Transferring
  /\ lowNext /\ pc = "poll" => flag # "none"

(* Before each nibble of the power-up sequence.  A third of its function   *)
(* sets finds an eight-bit controller at last, or one whose byte it ends.  *)
SyncInv ==
  /\ eightBit => half = NoHalf
  /\ step = 2 => eightBit \/ half \in {3, NoHalf}
  /\ step = 3 => eightBit \/ half = 3
  /\ step = 4 => eightBit
  /\ InStep

(* What is left of busy time, and of polls.                                *)
BusyInv ==
  /\ step = 2 => busy <= SlowTime
  /\ step \in 3 .. 5 /\ pc = "next" => busy <= 1
  /\ waited /\ pc \notin {"poll", "delay"} => busy = 0
  /\ flag = "ready" => busy = 0
  /\ pc = "address" => settled
  /\ cut => step = 9 /\ pc # "next"
  /\ pc \in {"send", "fetch"} => ~cut /\ polls >= 2
  /\ pc = "send" /\ ~rs /\ byte \in {1, 2} => polls = 30
  /\ pc = "poll" => IF cut THEN busy <= polls
                           ELSE polls > busy /\ (flag = "busy" => polls > 1)
  /\ pc = "delay" => IF cut THEN polls > 0 /\ busy <= polls
                            ELSE polls > 1 /\ busy < polls

(* The command of step k of the set-up has been executed.                  *)
Executed(k) == step > k \/ (step = k /\ pc \notin {"next", "send"})

SetUpInv ==
  step < 9 => /\ Executed(5) => twoLines
              /\ Executed(7) => home /\ increment
              /\ Executed(8) => on

BusInv == TypeOK /\ TransferInv /\ SyncInv /\ BusyInv /\ SetUpInv

(* The constants as numbers.                                               *)
LEMMA Numbers ==
  /\ SlowTime \in 1 .. 29
  /\ POWER_UP_DLY = 400 /\ FIRST_COMM_DLY = 41
  /\ SECOND_COMM_DLY = 2 /\ MAX_COMM_DLY = 30
  /\ NoHalf = -1 /\ OtherHalf = 16 /\ Nibble = 0 .. 15
  BY LcdAssumed DEF LcdAssumption, POWER_UP_DLY, FIRST_COMM_DLY,
     SECOND_COMM_DLY, MAX_COMM_DLY, NoHalf, OtherHalf, Nibble

LEMMA BusInvInit == Init => BusInv
<1> SUFFICES ASSUME Init PROVE BusInv
  OBVIOUS
<1> USE Figures, Numbers
<1>1. TypeOK
  <2>1. half \in Nibble \cup {NoHalf, OtherHalf} /\ busy \in 0 .. POWER_UP_DLY
    BY DEF Init
  <2>2. /\ step \in 1 .. Running /\ byte \in 0 .. 255
        /\ polls \in 0 .. FIRST_COMM_DLY
    BY DEF Init
  <2> QED
    BY <2>1, <2>2, Zenon DEF Init, TypeOK
<1>2. TransferInv
  BY DEF Init, TransferInv
<1>3. SyncInv
  BY DEF Init, SyncInv, InStep
<1>4. BusyInv
  BY DEF Init, BusyInv
<1>5. SetUpInv
  BY DEF Init, SetUpInv, Executed
<1> QED
  BY <1>1, <1>2, <1>3, <1>4, <1>5 DEF BusInv

(* A step of the controller on its own, which disturbs only busy, settled. *)
LEMMA BusInvController == BusInv /\ ControllerNext => BusInv'
<1> SUFFICES ASSUME BusInv, ControllerNext PROVE BusInv'
  OBVIOUS
<1>0. /\ UNCHANGED <<eightBit, half, twoLines, on, home, increment>>
      /\ UNCHANGED <<step, waited, pc, rs, byte, lowNext, flag, polls, cut, failed>>
  BY DEF ControllerNext, BusyEnds, AddressMoves, driverVars, transferVars
<1>1. TypeOK'
  <2>1. busy' = 0 \/ busy' = busy
    BY DEF ControllerNext, BusyEnds, AddressMoves
  <2>2. settled' \in BOOLEAN
    BY Zenon DEF BusInv, TypeOK, ControllerNext, BusyEnds, AddressMoves
  <2>3. busy' \in 0 .. POWER_UP_DLY
    BY <2>1, Numbers DEF BusInv, TypeOK
  <2> QED
    BY <1>0, <2>2, <2>3 DEF BusInv, TypeOK
<1>2. TransferInv'
  BY <1>0 DEF BusInv, TransferInv, Transferring
<1>3. SyncInv'
  BY <1>0 DEF BusInv, SyncInv, InStep
<1>4. BusyInv'
  BY <1>0, Numbers
  DEF BusInv, BusyInv, TypeOK, ControllerNext, BusyEnds, AddressMoves
<1>5. SetUpInv'
  BY <1>0 DEF BusInv, SetUpInv, Executed
<1> QED
  BY <1>1, <1>2, <1>3, <1>4, <1>5 DEF BusInv

(* Of the driver's own steps, those that only wait or begin a transfer.    *)
LEMMA BusInvThink == BusInv /\ ThinkNext => BusInv'
<1> SUFFICES ASSUME BusInv, ThinkNext PROVE BusInv'
  OBVIOUS
<1> USE Figures, Numbers
<1> DEFINE Same == UNCHANGED <<eightBit, half, twoLines, on, home, increment>>
<1>1. CASE SyncWait
  <2>1. /\ Same /\ UNCHANGED <<step, pc, rs, byte, lowNext, flag, polls, cut, failed>>
        /\ step \in 1 .. 5 /\ ~waited /\ waited'
    BY <1>1 DEF SyncWait, Elapse, transferVars, BusInv, TypeOK
  <2>2. pc = "next"
    BY <2>1 DEF BusInv, TransferInv
  <2>3. busy' = 0 /\ settled' \in BOOLEAN
    BY <1>1, <2>1, <2>2 DEF SyncWait, Elapse, BusInv, TypeOK, BusyInv
  <2>4. TypeOK'
    BY <2>1, <2>3, <1>1 DEF BusInv, TypeOK, SyncWait
  <2>5. TransferInv'
    BY <2>1, <2>2 DEF BusInv, TransferInv, Transferring
  <2>6. SyncInv'
    BY <2>1 DEF BusInv, SyncInv, InStep
  <2>7. BusyInv'
    BY <2>1, <2>2, <2>3 DEF BusInv, BusyInv, TypeOK
  <2>8. SetUpInv'
    BY <2>1 DEF BusInv, SetUpInv, Executed
  <2> QED
    BY <2>4, <2>5, <2>6, <2>7, <2>8 DEF BusInv
<1>2. CASE BeginSetUp \/ BeginOperation
  <2>1. /\ UNCHANGED lcdVars /\ UNCHANGED <<step, waited, lowNext, flag, cut, failed>>
        /\ pc = "next" /\ step \in 5 .. 9 /\ waited
        /\ pc' \in {"send", "fetch", "poll"}
        /\ byte' \in 0 .. 255 /\ polls' \in 2 .. 41
        /\ rs' \in BOOLEAN
    <3>1. CASE BeginSetUp
      <4>1. /\ UNCHANGED lcdVars /\ UNCHANGED <<step, waited, lowNext, flag, cut, failed>>
            /\ pc = "next" /\ step \in 5 .. 8 /\ waited /\ pc' = "send" /\ rs' = FALSE
            /\ byte' = SetUp[step - 4].byte /\ polls' = SetUp[step - 4].polls
        BY <3>1 DEF BeginSetUp, Begin
      <4>2. PICK s \in 1 .. 4 : byte' = SetUp[s].byte /\ polls' = SetUp[s].polls
        BY <4>1
      <4>3. byte' \in 0 .. 255 /\ polls' \in 2 .. 41
        BY <4>2
      <4>4. step \in 5 .. 9
        BY <4>1
      <4> QED
        BY <4>1, <4>3, <4>4, Zenon
    <3>2. CASE BeginOperation
      <4>1. /\ UNCHANGED lcdVars /\ UNCHANGED <<step, waited, lowNext, flag, cut, failed>>
            /\ pc = "next" /\ step = 9
            /\ pc' \in {"send", "fetch", "poll"} /\ rs' \in BOOLEAN
        BY <3>2 DEF BeginOperation, Begin
      <4>2. byte' \in 0 .. 255 /\ polls' \in 2 .. 41
        BY <3>2, LcdAssumed DEF BeginOperation, Begin, PollsOf, LcdAssumption
      <4> QED
        BY <4>1, <4>2 DEF BusInv, TransferInv
    <3> QED
      BY <1>2, <3>1, <3>2
  <2>2. /\ pc' = "fetch" => rs'
        /\ pc' = "poll" => ~rs'
        /\ pc' # "send" => step = 9
        /\ pc' = "send" /\ step < 9 => ~rs' /\ byte' = SetUp[step - 4].byte
        /\ pc' = "send" /\ step = 9 /\ ~rs' => byte' \in Commands
        /\ pc' = "send" /\ ~rs' /\ byte' \in {1, 2} => polls' = 30
    <3>1. CASE BeginSetUp
      <4>1. /\ step \in 5 .. 8 /\ pc' = "send" /\ ~rs'
            /\ byte' = SetUp[step - 4].byte /\ polls' = SetUp[step - 4].polls
        BY <3>1 DEF BeginSetUp, Begin
      <4> QED
        BY <4>1
    <3>2. CASE BeginOperation
      BY <3>2 DEF BeginOperation, Begin, PollsOf
    <3> QED
      BY <1>2, <3>1, <3>2
  <2>3. busy = 0 /\ ~cut /\ ~lowNext /\ flag = "none"
    BY <2>1 DEF BusInv, BusyInv, TypeOK, TransferInv, Transferring
  <2>4. TypeOK'
    BY <2>1 DEF BusInv, TypeOK, lcdVars
  <2>5. TransferInv'
    BY <2>1, <2>2, <2>3 DEF BusInv, TransferInv, Transferring
  <2>6. SyncInv'
    BY <2>1 DEF BusInv, SyncInv, InStep, lcdVars
  <2>7. BusyInv'
    BY <2>1, <2>2, <2>3 DEF BusInv, BusyInv, lcdVars
  <2>8. SetUpInv'
    BY <2>1, <2>2 DEF BusInv, SetUpInv, Executed, lcdVars
  <2> QED
    BY <2>4, <2>5, <2>6, <2>7, <2>8 DEF BusInv
<1>3. CASE Settle
  <2>1. /\ Same /\ UNCHANGED <<busy, step, waited, rs, byte, lowNext, flag, polls, cut, failed>>
        /\ pc = "settle" /\ pc' = "address"
    BY <1>3 DEF Settle
  <2>2. waited /\ busy = 0 /\ ~lowNext
    BY <2>1 DEF BusInv, TransferInv, BusyInv, Transferring
  <2>3. settled'
    BY <1>3, <2>2 DEF Settle
  <2>4. TypeOK'
    BY <2>1, <2>3 DEF BusInv, TypeOK
  <2>5. TransferInv'
    BY <2>1, <2>2 DEF BusInv, TransferInv, Transferring
  <2>6. SyncInv'
    BY <2>1 DEF BusInv, SyncInv, InStep
  <2>7. BusyInv'
    BY <2>1, <2>2, <2>3 DEF BusInv, BusyInv
  <2>8. SetUpInv'
    BY <2>1 DEF BusInv, SetUpInv, Executed
  <2> QED
    BY <2>4, <2>5, <2>6, <2>7, <2>8 DEF BusInv
<1>4. CASE Delay
  <2>1. /\ Same /\ UNCHANGED <<step, waited, rs, byte, lowNext, flag, failed>>
        /\ pc = "delay" /\ pc' = "poll" /\ polls' = polls - 1
    BY <1>4 DEF Delay, Elapse, lcdVars
  <2>2. waited /\ ~lowNext /\ flag = "none"
    BY <2>1 DEF BusInv, TransferInv, Transferring, TypeOK
  <2>3. ASSUME Elapse(1), UNCHANGED cut PROVE TypeOK' /\ BusyInv'
    <3>1. settled' \in BOOLEAN /\ busy' \in 0 .. 400 /\ busy' <= busy
          /\ (busy > 0 => busy' = busy - 1) /\ cut' = cut
      BY <2>3 DEF Elapse, BusInv, TypeOK
    <3>2. polls \in 1 .. 41 /\ (IF cut THEN busy <= polls ELSE polls > 1 /\ busy < polls)
      BY <2>1 DEF BusInv, TypeOK, BusyInv
    <3>3. TypeOK'
      BY <2>1, <3>1, <3>2 DEF BusInv, TypeOK
    <3>4. BusyInv'
      BY <2>1, <2>2, <3>1, <3>2 DEF BusInv, BusyInv, TypeOK
    <3> QED
      BY <3>3, <3>4
  <2>4. ASSUME step = Running, ~cut, cut' = TRUE, UNCHANGED lcdVars
        PROVE  TypeOK' /\ BusyInv'
    <3>1. polls \in 2 .. 41 /\ busy < polls /\ busy' = busy /\ settled' = settled
      BY <2>1, <2>4 DEF BusInv, TypeOK, BusyInv, lcdVars
    <3>2. TypeOK'
      BY <2>1, <2>4, <3>1 DEF BusInv, TypeOK
    <3>3. BusyInv'
      BY <2>1, <2>2, <2>4, <3>1 DEF BusInv, BusyInv, TypeOK
    <3> QED
      BY <3>2, <3>3
  <2>5. TypeOK' /\ BusyInv'
    BY <1>4, <2>3, <2>4 DEF Delay
  <2>6. TransferInv'
    BY <2>1, <2>2 DEF BusInv, TransferInv, Transferring
  <2>7. SyncInv'
    BY <2>1 DEF BusInv, SyncInv, InStep
  <2>8. SetUpInv'
    BY <2>1 DEF BusInv, SetUpInv, Executed
  <2> QED
    BY <2>5, <2>6, <2>7, <2>8 DEF BusInv
<1>5. CASE Fail
  <2>1. /\ UNCHANGED lcdVars /\ UNCHANGED <<waited, rs, byte, lowNext, flag, polls>>
        /\ pc = "poll" /\ polls = 0 /\ pc' = "next" /\ step' = 9 /\ ~cut'
        /\ cut' \in BOOLEAN /\ failed' \in BOOLEAN
    BY <1>5 DEF Fail
  <2>2. cut /\ busy = 0 /\ waited /\ ~lowNext /\ ~rs
    BY <2>1 DEF BusInv, TransferInv, BusyInv, TypeOK, Transferring
  <2>3. flag # "ready" => flag = "none" \/ flag = "busy"
    BY DEF BusInv, TypeOK
  <2>4. TypeOK'
    BY <2>1 DEF BusInv, TypeOK, lcdVars
  <2>5. TransferInv'
    BY <2>1, <2>2 DEF BusInv, TransferInv, Transferring
  <2>6. SyncInv'
    BY <2>1, <2>2 DEF BusInv, SyncInv, BusyInv, InStep, lcdVars
  <2>7. BusyInv'
    BY <2>1, <2>2 DEF BusInv, BusyInv, lcdVars
  <2>8. SetUpInv'
    BY <2>1 DEF SetUpInv
  <2> QED
    BY <2>4, <2>5, <2>6, <2>7, <2>8 DEF BusInv
<1> QED
  BY <1>1, <1>2, <1>3, <1>4, <1>5 DEF ThinkNext

-----------------------------------------------------------------------------
(* The strobes. *)

LEMMA CommandNibbles ==
  ASSUME NEW c \in Commands
  PROVE  /\ High(c) \in Nibble \ {2, 3} /\ Low(c) \in Nibble
         /\ High(c) = 0 /\ Low(c) \in {1, 2, 3} => c \in {1, 2}
<1>1. c \in {1, 2} \cup 8 .. 15 \cup {24, 28} \cup 64 .. 255
  BY LcdAssumed DEF LcdAssumption
<1> QED
  BY <1>1 DEF High, Low, Nibble

LEMMA ExecuteTypes ==
  ASSUME TypeOK, NEW hi, NEW lo, Execute(hi, lo)
  PROVE  /\ eightBit' \in BOOLEAN /\ twoLines' \in BOOLEAN /\ on' \in BOOLEAN
         /\ home' \in BOOLEAN /\ increment' \in BOOLEAN /\ settled' \in BOOLEAN
         /\ busy' = 1 \/ busy' = SlowTime
<1>1. eightBit' \in BOOLEAN /\ home' \in BOOLEAN /\ settled' \in BOOLEAN
  BY Zenon DEF Execute, TypeOK
<1>3. twoLines' \in BOOLEAN
  <2>1. twoLines' = (lo >= 8) \/ twoLines' = twoLines
    BY Zenon DEF Execute
  <2>2. (lo >= 8) \in BOOLEAN
    OBVIOUS
  <2> QED
    BY <2>1, <2>2, Zenon DEF TypeOK
<1>4. on' \in BOOLEAN
  <2>1. on' = (lo >= 12) \/ on' = on
    BY Zenon DEF Execute
  <2>2. (lo >= 12) \in BOOLEAN
    OBVIOUS
  <2> QED
    BY <2>1, <2>2, Zenon DEF TypeOK
<1>5. increment' \in BOOLEAN
  <2>1. increment' = (lo >= 6) \/ increment' = increment \/ increment' = TRUE
    BY Zenon DEF Execute
  <2>2. (lo >= 6) \in BOOLEAN
    OBVIOUS
  <2> QED
    BY <2>1, <2>2, Zenon DEF TypeOK
<1>2. busy' = 1 \/ busy' = SlowTime
  BY Zenon DEF Execute
<1> QED
  BY <1>1, <1>2, <1>3, <1>4, <1>5

(* What any strobe does to the controller.                                 *)
LEMMA StrobeAny ==
  ASSUME TypeOK, eightBit => half = NoHalf,
         NEW read \in BOOLEAN, NEW data \in BOOLEAN, NEW n \in Nibble,
         Strobe(read, data, n)
  PROVE  /\ eightBit' \in BOOLEAN /\ twoLines' \in BOOLEAN /\ on' \in BOOLEAN
         /\ home' \in BOOLEAN /\ increment' \in BOOLEAN /\ settled' \in BOOLEAN
         /\ half' \in Nibble \cup {NoHalf, OtherHalf}
         /\ eightBit' => half' = NoHalf
         /\ busy' = busy \/ busy' = 1 \/ busy' = SlowTime
<1> DEFINE Types ==
      /\ eightBit' \in BOOLEAN /\ twoLines' \in BOOLEAN /\ on' \in BOOLEAN
      /\ home' \in BOOLEAN /\ increment' \in BOOLEAN /\ settled' \in BOOLEAN
      /\ busy' = busy \/ busy' = 1 \/ busy' = SlowTime
<1>1. Unaffected => Types /\ eightBit' = eightBit
  BY DEF Unaffected, TypeOK
<1>2. MoveAddress => Types
  BY DEF MoveAddress, TypeOK
<1>3. ASSUME NEW hi, NEW lo, Execute(hi, lo) PROVE Types
  BY <1>3, ExecuteTypes
<1>4. CASE ~eightBit /\ half = NoHalf
  <2>1. half' = (IF data \/ read THEN OtherHalf ELSE n) /\ Unaffected
    BY <1>4 DEF Strobe
  <2>2. half' \in Nibble \cup {NoHalf, OtherHalf}
    BY <2>1
  <2> QED
    BY <1>1, <1>4, <2>1, <2>2
<1>5. CASE ~(~eightBit /\ half = NoHalf)
  <2>1. half' = NoHalf
    BY <1>5 DEF Strobe
  <2>2. Unaffected \/ MoveAddress \/ (\E hi, lo : Execute(hi, lo))
    BY <1>5 DEF Strobe
  <2> QED
    BY <1>1, <1>2, <1>3, <2>1, <2>2
<1> QED
  BY <1>4, <1>5

(* The four single nibbles of the power-up sequence.                       *)
LEMMA StrobeSync ==
  ASSUME eightBit \in BOOLEAN, eightBit => half = NoHalf,
         NEW n \in {2, 3}, Strobe(FALSE, FALSE, n)
  PROVE  /\ ~eightBit /\ half = NoHalf => half' = n /\ busy' = busy
         /\ eightBit => (eightBit' <=> n = 3) /\ half' = NoHalf /\ busy' = 1
         /\ ~eightBit /\ half = 3 => eightBit' /\ half' = NoHalf /\ busy' = 1
         /\ ~eightBit /\ half # NoHalf => half' = NoHalf
<1>1. ASSUME NEW hi \in {2, 3}, NEW lo, Execute(hi, lo)
      PROVE  (eightBit' <=> hi = 3) /\ busy' = 1
  <2>1. eightBit' = (hi = 3)
    BY <1>1, Zenon DEF Execute
  <2>2. busy' = 1
    BY <1>1 DEF Execute
  <2> QED
    BY <2>1, <2>2, Zenon
<1>2. ~eightBit /\ half = NoHalf => half' = n /\ busy' = busy
  BY DEF Strobe, Unaffected
<1>3. ~eightBit /\ half # NoHalf => half' = NoHalf
  BY DEF Strobe
<1>4. CASE eightBit
  <2>1. half' = NoHalf
    BY <1>4 DEF Strobe
  <2>2. PICK lo \in Nibble : Execute(n, lo)
    BY <1>4 DEF Strobe, NoHalf, OtherHalf
  <2> QED
    BY <1>1, <1>2, <1>3, <1>4, <2>1, <2>2, Zenon
<1>5. CASE ~eightBit
  <2>1. half = 3 => Execute(3, n)
    BY <1>5 DEF Strobe, NoHalf, OtherHalf
  <2>2. half = 3 => half # NoHalf
    BY DEF NoHalf
  <2>3. half = 3 => (eightBit' <=> 3 = 3) /\ busy' = 1
    BY <1>1, <2>1
  <2> QED
    BY <1>2, <1>3, <1>5, <2>2, <2>3, Zenon
<1> QED
  BY <1>4, <1>5

LEMMA BusInvSync == BusInv /\ SyncNibble => BusInv'
<1> SUFFICES ASSUME BusInv, SyncNibble PROVE BusInv'
  OBVIOUS
<1> USE Figures, Numbers
<1>1. /\ step \in 1 .. 4 /\ waited /\ step' = step + 1 /\ ~waited'
      /\ UNCHANGED <<pc, rs, byte, lowNext, flag, polls, cut, failed>>
  BY DEF SyncNibble, SyncDriver, transferVars, BusInv, TypeOK
<1>2. waited' = FALSE
  BY DEF SyncNibble, SyncDriver
<1>3. pc = "next" /\ rs = FALSE /\ ~lowNext /\ flag = "none" /\ ~cut /\ busy = 0
  BY <1>1 DEF BusInv, TransferInv, Transferring, BusyInv, TypeOK
<1>4. NextNibble \in {2, 3} /\ (NextNibble = 3 <=> step # 4)
  BY <1>1 DEF NextNibble
<1>5. Strobe(FALSE, FALSE, NextNibble)
  BY <1>3 DEF SyncNibble
<1>6. /\ eightBit \in BOOLEAN
      /\ eightBit => half = NoHalf
      /\ step = 2 => eightBit \/ half \in {3, NoHalf}
      /\ step = 3 => eightBit \/ half = 3
      /\ step = 4 => eightBit
  BY DEF BusInv, TypeOK, SyncInv
<1>7. /\ eightBit' \in BOOLEAN /\ twoLines' \in BOOLEAN /\ on' \in BOOLEAN
      /\ home' \in BOOLEAN /\ increment' \in BOOLEAN /\ settled' \in BOOLEAN
      /\ half' \in Nibble \cup {NoHalf, OtherHalf}
      /\ eightBit' => half' = NoHalf
      /\ busy' = busy \/ busy' = 1 \/ busy' = SlowTime
  <2>1. NextNibble \in Nibble
    BY <1>4
  <2>2. TypeOK
    BY DEF BusInv
  <2> QED
    BY <1>5, <1>6, <2>1, <2>2, StrobeAny, Zenon
<1>8. /\ ~eightBit /\ half = NoHalf => half' = NextNibble /\ busy' = busy
      /\ eightBit => (eightBit' <=> NextNibble = 3) /\ half' = NoHalf /\ busy' = 1
      /\ ~eightBit /\ half = 3 => eightBit' /\ half' = NoHalf /\ busy' = 1
      /\ ~eightBit /\ half # NoHalf => half' = NoHalf
  BY <1>4, <1>5, <1>6, StrobeSync
<1>9. TypeOK'
  <2>1. step' \in 1 .. Running /\ busy' \in 0 .. POWER_UP_DLY
    BY <1>1, <1>3, <1>7
  <2> QED
    BY <1>1, <1>2, <1>7, <2>1, Zenon DEF BusInv, TypeOK
<1>10. TransferInv'
  BY <1>1, <1>2, <1>3 DEF BusInv, TransferInv, Transferring
<1>11. SyncInv'
  BY <1>1, <1>3, <1>4, <1>6, <1>7, <1>8 DEF SyncInv, InStep
<1>12. BusyInv'
  BY <1>1, <1>2, <1>3, <1>4, <1>6, <1>7, <1>8 DEF BusInv, BusyInv, TypeOK
<1>13. SetUpInv'
  BY <1>1, <1>3 DEF SetUpInv, Executed
<1> QED
  BY <1>9, <1>10, <1>11, <1>12, <1>13 DEF BusInv

(* Pins that float, before the first wait.                                 *)
LEMMA BusInvFloat == BusInv /\ Float => BusInv'
<1> SUFFICES ASSUME BusInv, Float PROVE BusInv'
  OBVIOUS
<1> USE Figures, Numbers
<1>1. /\ step = 1 /\ ~waited
      /\ UNCHANGED <<step, waited, pc, rs, byte, lowNext, flag, polls, cut, failed>>
  BY DEF Float, driverVars, transferVars
<1>2. pc = "next" /\ flag = "none" /\ ~cut
  BY <1>1 DEF BusInv, TransferInv, BusyInv, TypeOK
<1>3. /\ eightBit' \in BOOLEAN /\ twoLines' \in BOOLEAN /\ on' \in BOOLEAN
      /\ home' \in BOOLEAN /\ increment' \in BOOLEAN /\ settled' \in BOOLEAN
      /\ half' \in Nibble \cup {NoHalf, OtherHalf}
      /\ eightBit' => half' = NoHalf
      /\ busy' = busy \/ busy' = 1 \/ busy' = SlowTime
  <2>1. PICK read, data \in BOOLEAN, n \in Nibble : Strobe(read, data, n)
    BY DEF Float
  <2>2. TypeOK
    BY DEF BusInv
  <2>3. eightBit => half = NoHalf
    BY DEF BusInv, SyncInv
  <2> QED
    BY <2>1, <2>2, <2>3, StrobeAny
<1>4. TypeOK'
  <2>1. busy' \in 0 .. POWER_UP_DLY
    BY <1>3 DEF BusInv, TypeOK
  <2> QED
    BY <1>1, <1>3, <2>1, Zenon DEF BusInv, TypeOK
<1>5. TransferInv'
  BY <1>1, <1>2 DEF BusInv, TransferInv, Transferring
<1>6. SyncInv'
  BY <1>1, <1>3 DEF SyncInv, InStep
<1>7. BusyInv'
  BY <1>1, <1>2 DEF BusyInv
<1>8. SetUpInv'
  BY <1>1 DEF SetUpInv, Executed
<1> QED
  BY <1>4, <1>5, <1>6, <1>7, <1>8 DEF BusInv

LEMMA BusInvReset == BusInv /\ Reset => BusInv'
<1> SUFFICES ASSUME BusInv, Reset PROVE BusInv'
  OBVIOUS
<1> USE Figures, Numbers
<1>1. /\ step' = 1 /\ waited' = FALSE /\ failed' = FALSE
      /\ pc' = "next" /\ rs' = FALSE /\ byte' = 0 /\ lowNext' = FALSE
      /\ flag' = "none" /\ polls' = 0 /\ cut' = FALSE
  BY DEF Reset
<1>2. /\ eightBit' \in BOOLEAN /\ twoLines' \in BOOLEAN /\ on' \in BOOLEAN
      /\ home' \in BOOLEAN /\ increment' \in BOOLEAN /\ settled' \in BOOLEAN
      /\ half' \in Nibble \cup {NoHalf, OtherHalf}
      /\ eightBit' => half' = NoHalf
      /\ busy' = busy \/ busy' = POWER_UP_DLY
  <2>1. CASE UNCHANGED lcdVars
    BY <2>1, Zenon DEF lcdVars, BusInv, TypeOK, SyncInv
  <2>2. CASE /\ eightBit' = TRUE /\ half' = NoHalf /\ twoLines' = FALSE
             /\ on' = FALSE /\ home' = TRUE /\ increment' = TRUE
             /\ busy' = POWER_UP_DLY /\ settled' = TRUE
    BY <2>2
  <2> QED
    BY <2>1, <2>2 DEF Reset
<1>3. TypeOK'
  <2>1. busy' \in 0 .. POWER_UP_DLY
    BY <1>2 DEF BusInv, TypeOK
  <2>2. /\ step' \in 1 .. Running /\ byte' \in 0 .. 255
        /\ polls' \in 0 .. FIRST_COMM_DLY
    BY <1>1
  <2> QED
    BY <1>1, <1>2, <2>1, <2>2, Zenon DEF TypeOK
<1>4. TransferInv'
  BY <1>1 DEF TransferInv, Transferring
<1>5. SyncInv'
  BY <1>1, <1>2 DEF SyncInv, InStep
<1>6. BusyInv'
  BY <1>1 DEF BusyInv
<1>7. SetUpInv'
  BY <1>1 DEF SetUpInv, Executed
<1> QED
  BY <1>3, <1>4, <1>5, <1>6, <1>7 DEF BusInv

LEMMA BusInvSample == BusInv /\ Sample => BusInv'
<1> SUFFICES ASSUME BusInv, Sample PROVE BusInv'
  OBVIOUS
<1> USE Figures, Numbers
<1>1. /\ UNCHANGED lcdVars /\ UNCHANGED <<step, waited, pc, rs, byte, lowNext, polls, cut, failed>>
      /\ pc \in {"poll", "address"} /\ ~lowNext /\ Transferring
      /\ flag' \in {"busy", "ready"}
      /\ flag' = "ready" => busy <= 0
      /\ flag' = "busy" => busy > 0
  BY DEF Sample, BusInv, TypeOK
<1>2. busy \in 0 .. 400 /\ polls \in 0 .. 41
  BY DEF BusInv, TypeOK
<1>3. TypeOK'
  BY <1>1 DEF BusInv, TypeOK, lcdVars
<1>4. TransferInv'
  BY <1>1 DEF BusInv, TransferInv, Transferring
<1>5. SyncInv'
  BY <1>1 DEF BusInv, SyncInv, InStep, lcdVars
<1>6. BusyInv'
  BY <1>1, <1>2 DEF BusInv, BusyInv, lcdVars
<1>7. SetUpInv'
  BY <1>1 DEF BusInv, SetUpInv, Executed, lcdVars
<1> QED
  BY <1>3, <1>4, <1>5, <1>6, <1>7 DEF BusInv

(* The high nibble of a byte finds the controller between two bytes.       *)
LEMMA BusInvHigh == BusInv /\ HighNibble => BusInv'
<1> SUFFICES ASSUME BusInv, HighNibble PROVE BusInv'
  OBVIOUS
<1> USE Figures, Numbers
<1>1. /\ UNCHANGED <<step, waited, pc, rs, byte, flag, polls, cut, failed>>
      /\ Transferring /\ ~lowNext /\ lowNext' = TRUE
      /\ pc = "poll" => flag # "none"
  BY DEF HighNibble, HighDriver
<1>2. pc # "next" /\ step > 4 /\ waited
  BY <1>1 DEF BusInv, TransferInv, TypeOK, Transferring
<1>3. ~eightBit /\ half = NoHalf
  BY <1>1, <1>2 DEF BusInv, SyncInv, InStep
<1>4. /\ half' = (IF rs \/ Reading THEN OtherHalf ELSE High(byte))
      /\ UNCHANGED <<eightBit, twoLines, on, home, increment, busy, settled>>
  <2>1. NextNibble = High(byte)
    BY <1>1, <1>2 DEF NextNibble, BusInv, TypeOK
  <2> QED
    BY <1>3, <2>1 DEF HighNibble, Strobe, Unaffected
<1>5. High(byte) \in Nibble
  BY DEF High, BusInv, TypeOK
<1>6. half' \in Nibble \cup {NoHalf, OtherHalf} /\ half' # NoHalf
  BY <1>4, <1>5
<1>7. TypeOK'
  BY <1>1, <1>4, <1>6 DEF BusInv, TypeOK
<1>8. TransferInv'
  <2>1. pc' = "send" /\ ~rs' => half' = High(byte')
    BY <1>1, <1>4 DEF Reading
  <2> QED
    BY <1>1, <2>1 DEF BusInv, TransferInv, Transferring
<1>9. SyncInv'
  BY <1>1, <1>2, <1>3, <1>4, <1>6 DEF SyncInv, InStep
<1>10. BusyInv'
  BY <1>1, <1>4 DEF BusInv, BusyInv
<1>11. SetUpInv'
  BY <1>1, <1>4 DEF BusInv, SetUpInv, Executed
<1> QED
  BY <1>7, <1>8, <1>9, <1>10, <1>11 DEF BusInv

(* What the low nibble of a command does, in the set-up and after it.      *)
LEMMA CommandExecuted ==
  ASSUME BusInv, Strobe(FALSE, FALSE, Low(byte)),
         pc = "send", lowNext, rs = FALSE, ~eightBit
  PROVE  /\ Execute(High(byte), Low(byte)) /\ half' = NoHalf
         /\ eightBit' = FALSE /\ settled' = settled
         /\ step = 5 => twoLines' = TRUE
         /\ step \in 6 .. 8 => twoLines' = twoLines
         /\ step = 7 => home' = TRUE /\ increment' = TRUE
         /\ step = 8 => home' = home /\ increment' = increment /\ on' = TRUE
         /\ busy' = 1 \/ (busy' = SlowTime /\ polls = 30)
<1> USE Figures, Numbers
<1>1. half = High(byte) /\ step \in 5 .. 9
  BY DEF BusInv, TransferInv, TypeOK
<1>2. /\ step = 5 => High(byte) = 2 /\ Low(byte) = 8
      /\ step = 6 => High(byte) = 0 /\ Low(byte) = 8
      /\ step = 7 => High(byte) = 0 /\ Low(byte) = 1
      /\ step = 8 => High(byte) = 0 /\ Low(byte) = 12
      /\ step = 9 => byte \in Commands
  BY <1>1 DEF BusInv, TransferInv, High, Low
<1>3. /\ step = 9 => High(byte) \in Nibble \ {2, 3} /\ Low(byte) \in Nibble
      /\ step = 9 /\ High(byte) = 0 /\ Low(byte) \in {1, 2, 3} => byte \in {1, 2}
  BY <1>2, CommandNibbles
<1>4. High(byte) \in Nibble /\ Low(byte) \in Nibble
  BY <1>1, <1>2, <1>3
<1>5. Execute(High(byte), Low(byte)) /\ half' = NoHalf
  BY <1>1, <1>4 DEF Strobe
<1>6. eightBit' = FALSE
  <2>1. High(byte) # 3
    BY <1>1, <1>2, <1>3
  <2>2. (High(byte) = 3) = FALSE
    BY <2>1, Zenon
  <2> QED
    BY <1>5, <2>2, Zenon DEF Execute, BusInv, TypeOK
<1>7. settled' = settled
  BY <1>5 DEF Execute
<1>8. step = 5 => twoLines' = TRUE
  <2>1. step = 5 => twoLines' = (Low(byte) >= 8)
    BY <1>2, <1>5 DEF Execute
  <2>2. (8 >= 8) = TRUE
    OBVIOUS
  <2>3. step = 5 => Low(byte) = 8
    BY <1>2
  <2> QED
    BY <2>1, <2>2, <2>3, Zenon
<1>9. step \in 6 .. 8 => twoLines' = twoLines
  BY <1>2, <1>5 DEF Execute
<1>10. step = 7 => home' = TRUE /\ increment' = TRUE
  BY <1>2, <1>5 DEF Execute
<1>11. step = 8 => home' = home /\ increment' = increment
  BY <1>2, <1>5 DEF Execute
<1>12. step = 8 => on' = TRUE
  <2>1. step = 8 => on' = (Low(byte) >= 12)
    BY <1>2, <1>5 DEF Execute
  <2>2. (12 >= 12) = TRUE
    OBVIOUS
  <2>3. step = 8 => Low(byte) = 12
    BY <1>2
  <2> QED
    BY <2>1, <2>2, <2>3, Zenon
<1>13. busy' = 1 \/ (busy' = SlowTime /\ polls = 30)
  <2>1. CASE High(byte) = 0 /\ Low(byte) \in {1, 2, 3}
    <3>1. step \in {7, 9}
      BY <1>1, <1>2, <2>1
    <3>2. byte \in {1, 2}
      BY <3>1, <1>3, <2>1 DEF BusInv, TransferInv
    <3>3. polls = 30
      BY <3>2 DEF BusInv, BusyInv
    <3> QED
      BY <1>5, <2>1, <3>3 DEF Execute
  <2>2. CASE ~(High(byte) = 0 /\ Low(byte) \in {1, 2, 3})
    BY <1>5, <2>2 DEF Execute
  <2> QED
    BY <2>1, <2>2
<1> QED
  BY <1>5, <1>6, <1>7, <1>8, <1>9, <1>10, <1>11, <1>12, <1>13, Zenon

LEMMA BusInvLow == BusInv /\ LowNibble => BusInv'
<1> SUFFICES ASSUME BusInv, LowNibble PROVE BusInv'
  OBVIOUS
<1> USE Figures, Numbers
<1>1. /\ Transferring /\ lowNext /\ lowNext' = FALSE /\ flag' = "none"
      /\ rs' = FALSE /\ byte' = 0 /\ waited' = waited /\ failed' = failed
  BY DEF LowNibble, LowDriver
<1>2. /\ pc \in {"send", "fetch", "poll", "address"} /\ step \in 5 .. 9
      /\ waited /\ waited \in BOOLEAN /\ failed \in BOOLEAN
      /\ busy \in 0 .. 400 /\ polls \in 0 .. 41 /\ cut \in BOOLEAN
      /\ rs \in BOOLEAN
  BY <1>1 DEF BusInv, TransferInv, TypeOK, Transferring
<1>3. ~eightBit /\ half # NoHalf /\ eightBit = FALSE
  BY <1>1, <1>2 DEF BusInv, SyncInv, InStep, TypeOK
<1>4. Strobe(Reading, rs, Low(byte))
  BY <1>1, <1>2 DEF LowNibble, NextNibble
<1>5. half' = NoHalf
  BY <1>3, <1>4 DEF Strobe
<1>6. /\ step' \in 5 .. 9 /\ polls' \in 0 .. 41 /\ cut' \in BOOLEAN
      /\ pc' \in {"poll", "delay", "settle", "next"}
      /\ pc \in {"send", "fetch"} => pc' = "poll"
      /\ pc = "poll" => pc' = IF flag = "busy" THEN "delay" ELSE "settle"
      /\ pc = "address" => /\ pc' = "next" /\ polls' = 0 /\ cut' = FALSE
                           /\ step' = IF step < 9 THEN step + 1 ELSE step
      /\ pc # "address" => UNCHANGED <<step, polls, cut>>
  <2>1. /\ pc \in {"send", "fetch"} => pc' = "poll"
        /\ pc = "poll" => pc' = IF flag = "busy" THEN "delay" ELSE "settle"
        /\ pc = "address" => pc' = "next"
    BY <1>2 DEF LowNibble, LowDriver
  <2>2. pc # "address" => UNCHANGED <<step, polls, cut>>
    BY DEF LowNibble, LowDriver
  <2>3. pc = "address" => /\ polls' = 0 /\ cut' = FALSE
                         /\ step' = IF step < 9 THEN step + 1 ELSE step
    BY DEF LowNibble, LowDriver, AfterPass
  <2>4. pc' \in {"poll", "delay", "settle", "next"}
    BY <1>2, <2>1
  <2>5. step' \in 5 .. 9 /\ polls' \in 0 .. 41
    BY <1>2, <2>2, <2>3
  <2>6. cut' \in BOOLEAN
    BY <1>2, <2>2, <2>3
  <2> QED
    BY <2>1, <2>2, <2>3, <2>4, <2>5, <2>6
<1>7. TransferInv'
  BY <1>1, <1>2, <1>6 DEF TransferInv, Transferring
<1>8. ASSUME eightBit' = FALSE, twoLines' \in BOOLEAN, on' \in BOOLEAN,
             home' \in BOOLEAN, increment' \in BOOLEAN, settled' \in BOOLEAN,
             busy' \in 0 .. POWER_UP_DLY
      PROVE  TypeOK' /\ SyncInv'
  <2>1. TypeOK'
    <3>1. /\ step' \in 1 .. Running /\ byte' \in 0 .. 255
          /\ polls' \in 0 .. FIRST_COMM_DLY
      BY <1>1, <1>6
    <3>2. pc' \in {"next", "send", "fetch", "poll", "delay", "settle", "address"}
      BY <1>6
    <3> QED
      BY <1>1, <1>2, <1>5, <1>6, <1>8, <3>1, <3>2, Zenon DEF TypeOK
  <2>2. SyncInv'
    BY <1>1, <1>5, <1>6, <1>8 DEF SyncInv, InStep
  <2> QED
    BY <2>1, <2>2
<1>9. CASE pc \in {"poll", "address"}
  <2>1. ~rs /\ Reading
    BY <1>9 DEF BusInv, TransferInv, Reading
  <2>2. UNCHANGED <<eightBit, twoLines, on, home, increment, busy, settled>>
    BY <1>3, <1>4, <2>1 DEF Strobe, Unaffected
  <2>3. TypeOK' /\ SyncInv'
    <3>1. /\ eightBit' = FALSE /\ twoLines' \in BOOLEAN /\ on' \in BOOLEAN
          /\ home' \in BOOLEAN /\ increment' \in BOOLEAN /\ settled' \in BOOLEAN
          /\ busy' \in 0 .. POWER_UP_DLY
      BY <1>3, <2>2, Zenon DEF BusInv, TypeOK
    <3> QED
      BY <1>8, <3>1, Zenon
  <2>4. BusyInv'
    <3>1. CASE pc = "poll"
      <4>1. flag \in {"busy", "ready"}
        BY <1>1, <3>1 DEF BusInv, TypeOK, TransferInv
      <4> QED
        BY <1>1, <1>2, <1>6, <2>2, <3>1, <4>1
        DEF BusInv, BusyInv, Transferring
    <3>2. CASE pc = "address"
      BY <1>1, <1>2, <1>6, <2>2, <3>2 DEF BusInv, BusyInv
    <3> QED
      BY <1>9, <3>1, <3>2
  <2>5. SetUpInv'
    BY <1>2, <1>6, <1>9, <2>2 DEF BusInv, SetUpInv, Executed
  <2> QED
    BY <1>7, <2>3, <2>4, <2>5 DEF BusInv
<1>10. CASE pc \in {"send", "fetch"}
  <2>1. /\ pc' = "poll" /\ polls >= 2 /\ cut = FALSE
        /\ UNCHANGED <<step, polls, cut>>
    BY <1>2, <1>6, <1>10 DEF BusInv, BusyInv
  <2>2. CASE rs
    <3>1. step = 9
      BY <1>2, <1>10, <2>2 DEF BusInv, TransferInv
    <3>2. MoveAddress
      BY <1>3, <1>4, <2>2 DEF Strobe
    <3>3. eightBit' = eightBit /\ twoLines' = twoLines /\ on' = on /\ home' = home
          /\ increment' = increment /\ settled' = FALSE /\ busy' = 1
      BY <3>2 DEF MoveAddress
    <3>4. TypeOK' /\ SyncInv'
      <4>1. /\ eightBit' = FALSE /\ twoLines' \in BOOLEAN /\ on' \in BOOLEAN
            /\ home' \in BOOLEAN /\ increment' \in BOOLEAN /\ settled' \in BOOLEAN
        BY <1>3, <3>3, Zenon DEF BusInv, TypeOK
      <4>2. busy' \in 0 .. POWER_UP_DLY
        BY <3>3
      <4> QED
        BY <1>8, <4>1, <4>2, Zenon
    <3>5. BusyInv'
      BY <1>1, <1>2, <2>1, <3>1, <3>3 DEF BusyInv
    <3>6. SetUpInv'
      BY <2>1, <3>1 DEF SetUpInv
    <3> QED
      BY <1>7, <3>4, <3>5, <3>6 DEF BusInv
  <2>3. CASE ~rs
    <3>1. pc = "send" /\ rs = FALSE /\ Reading = FALSE
      BY <1>2, <1>10, <2>3 DEF BusInv, TransferInv, Reading
    <3>2. Strobe(FALSE, FALSE, Low(byte))
      BY <1>4, <3>1, Zenon
    <3>3. /\ Execute(High(byte), Low(byte))
          /\ eightBit' = FALSE /\ settled' = settled
          /\ step = 5 => twoLines' = TRUE
          /\ step \in 6 .. 8 => twoLines' = twoLines
          /\ step = 7 => home' = TRUE /\ increment' = TRUE
          /\ step = 8 => home' = home /\ increment' = increment /\ on' = TRUE
          /\ busy' = 1 \/ (busy' = SlowTime /\ polls = 30)
      BY <1>1, <1>3, <3>1, <3>2, CommandExecuted
    <3>4. TypeOK' /\ SyncInv'
      <4>1. busy' \in 0 .. POWER_UP_DLY
        BY <3>3
      <4>2. /\ twoLines' \in BOOLEAN /\ on' \in BOOLEAN /\ home' \in BOOLEAN
            /\ increment' \in BOOLEAN /\ settled' \in BOOLEAN
        BY <3>3, ExecuteTypes DEF BusInv
      <4> QED
        BY <1>8, <3>3, <4>1, <4>2, Zenon
    <3>5. BusyInv'
      BY <1>1, <1>2, <2>1, <3>3 DEF BusyInv
    <3>6. SetUpInv'
      BY <1>2, <2>1, <3>1, <3>3 DEF BusInv, SetUpInv, Executed
    <3> QED
      BY <1>7, <3>4, <3>5, <3>6 DEF BusInv
  <2> QED
    BY <1>2, <2>2, <2>3
<1> QED
  BY <1>2, <1>9, <1>10

LEMMA BusInvStep == BusInv /\ [Next]_vars => BusInv'
<1>1. BusInv /\ UNCHANGED vars => BusInv'
  <2> SUFFICES ASSUME BusInv, UNCHANGED vars PROVE BusInv'
    OBVIOUS
  <2>1. /\ UNCHANGED <<eightBit, half, twoLines, on, home, increment, busy, settled>>
        /\ UNCHANGED <<step, waited, pc, rs, byte, lowNext, flag, polls, cut, failed>>
    BY DEF vars, lcdVars, driverVars, transferVars
  <2>2. TypeOK' /\ TransferInv'
    BY <2>1 DEF BusInv, TypeOK, TransferInv, Transferring
  <2>3. SyncInv' /\ BusyInv' /\ SetUpInv'
    BY <2>1 DEF BusInv, SyncInv, BusyInv, SetUpInv, InStep, Executed
  <2> QED
    BY <2>2, <2>3 DEF BusInv
<1> QED
  BY <1>1, BusInvController, BusInvThink, BusInvSync, BusInvFloat, BusInvReset,
     BusInvSample, BusInvHigh, BusInvLow, Zenon DEF Next

(* The steps of which SetUpComplete and the other action properties speak. *)
LEMMA BusSteps ==
  ASSUME BusInv, [Next]_vars
  PROVE  /\ step # Running /\ step' = Running /\ ~failed'
              => twoLines' /\ on' /\ home' /\ increment'
         /\ SyncNibble \/ (pc \in {"send", "fetch"} /\ (HighNibble \/ LowNibble))
              => busy = 0
         /\ Fail => cut /\ step = Running
         /\ Sample /\ pc = "address" => busy = 0 /\ settled
         /\ step > Len(Sync) /\ step' > Len(Sync) =>
              IF LowNibble /\ pc = "send" /\ ~rs
              THEN Execute(High(byte), Low(byte))
              ELSE UNCHANGED <<eightBit, twoLines, on, home, increment>>
<1> USE Figures, Numbers
<1>1. ASSUME step # Running, step' = Running, ~failed'
      PROVE  twoLines' /\ on' /\ home' /\ increment'
  <2>1. step \in 1 .. 8 /\ step' = 9
    BY <1>1 DEF BusInv, TypeOK
  <2>2. ~UNCHANGED step
    BY <2>1
  <2>3. LowNibble /\ pc = "address"
    <3>1. ~UNCHANGED vars /\ ~ControllerNext /\ ~Sample /\ ~HighNibble /\ ~Float
      BY <2>2, Zenon DEF vars, driverVars, ControllerNext, Sample, HighNibble, HighDriver, Float
    <3>2. ~SyncNibble /\ ~Reset
      <4>1. SyncNibble => step <= 4 /\ step' = step + 1
        BY DEF SyncNibble, SyncDriver
      <4>2. Reset => step' = 1
        BY Zenon DEF Reset
      <4> QED
        BY <2>1, <4>1, <4>2
    <3>3. ~SyncWait /\ ~BeginSetUp /\ ~BeginOperation /\ ~Settle /\ ~Delay
      BY <2>2, Zenon DEF SyncWait, BeginSetUp, BeginOperation, Begin, Settle, Delay
    <3>4. ~Fail
      <4>1. step < Running
        BY <2>1
      <4> QED
        BY <1>1, <4>1, Zenon DEF Fail
    <3>5. LowNibble => pc = "address"
      BY <2>2, Zenon DEF LowNibble, LowDriver
    <3> QED
      BY <3>1, <3>2, <3>3, <3>4, <3>5, Zenon DEF Next, ThinkNext
  <2>4. step = 8
    BY <2>1, <2>3 DEF LowNibble, LowDriver, AfterPass
  <2>5. twoLines /\ on /\ home /\ increment
    BY <2>3, <2>4 DEF BusInv, SetUpInv, Executed
  <2>6. UNCHANGED <<twoLines, on, home, increment>>
    <3>1. ~eightBit /\ half # NoHalf
      BY <2>3, <2>4 DEF BusInv, SyncInv, InStep, LowNibble, LowDriver
    <3>2. ~rs /\ Reading
      BY <2>3 DEF BusInv, TransferInv, Reading
    <3> QED
      BY <2>3, <3>1, <3>2 DEF LowNibble, Strobe, Unaffected
  <2> QED
    BY <2>5, <2>6
<1>2. ASSUME SyncNibble \/ (pc \in {"send", "fetch"} /\ (HighNibble \/ LowNibble))
      PROVE  busy = 0
  <2>1. CASE SyncNibble
    BY <2>1 DEF SyncNibble, SyncDriver, BusInv, TransferInv, BusyInv
  <2>2. CASE pc \in {"send", "fetch"}
    BY <2>2 DEF BusInv, TransferInv, BusyInv
  <2> QED
    BY <1>2, <2>1, <2>2
<1>3. Fail => cut /\ step = Running
  BY DEF Fail, BusInv, BusyInv, TypeOK
<1>4. Sample /\ pc = "address" => busy = 0 /\ settled
  BY DEF Sample, BusInv, TransferInv, BusyInv
<1>5. ASSUME step > 4, step' > 4
      PROVE  IF LowNibble /\ pc = "send" /\ ~rs
             THEN Execute(High(byte), Low(byte))
             ELSE UNCHANGED <<eightBit, twoLines, on, home, increment>>
  <2> DEFINE Kept == UNCHANGED <<eightBit, twoLines, on, home, increment>>
  <2>a. ~eightBit /\ (half = NoHalf <=> ~lowNext)
    BY <1>5 DEF BusInv, SyncInv, InStep
  <2>1. CASE LowNibble
    <3>1. Strobe(Reading, rs, NextNibble) /\ lowNext /\ half # NoHalf
      BY <2>1, <2>a DEF LowNibble, LowDriver
    <3>2. CASE pc = "send" /\ ~rs
      <4>1. ~Reading /\ NextNibble = Low(byte) /\ half = High(byte)
        BY <1>5, <3>1, <3>2 DEF Reading, NextNibble, BusInv, TransferInv
      <4>2. High(byte) # OtherHalf
        <5>1. byte \in 0 .. 255
          BY DEF BusInv, TypeOK
        <5> QED
          BY <5>1 DEF High
      <4>3. Execute(half, NextNibble)
        BY <2>a, <3>1, <3>2, <4>1, <4>2 DEF Strobe
      <4> QED
        BY <2>1, <3>2, <4>1, <4>3
    <3>3. CASE ~(pc = "send" /\ ~rs)
      <4>1. rs \/ (Reading /\ ~rs)
        BY <3>1, <3>3, <2>1
        DEF LowNibble, LowDriver, Transferring, Reading, BusInv, TransferInv
      <4>2. Unaffected \/ MoveAddress
        BY <2>a, <3>1, <4>1 DEF Strobe
      <4> QED
        BY <3>3, <4>2 DEF Unaffected, MoveAddress
    <3> QED
      BY <3>2, <3>3
  <2>2. CASE HighNibble
    <3>1. Strobe(Reading, rs, NextNibble) /\ half = NoHalf /\ ~lowNext
      BY <2>2, <2>a DEF HighNibble, HighDriver
    <3>2. Unaffected /\ ~LowNibble
      BY <2>a, <3>1 DEF Strobe, LowNibble, LowDriver
    <3> QED
      BY <3>2 DEF Unaffected
  <2>3. ~SyncNibble /\ ~Float /\ ~Reset
    <3>1. SyncNibble => step <= 4
      BY DEF SyncNibble, SyncDriver
    <3>2. Float => step = 1
      BY Zenon DEF Float
    <3>3. Reset => step' = 1
      BY Zenon DEF Reset
    <3>4. step \in 1 .. 9
      BY DEF BusInv, TypeOK
    <3> QED
      BY <1>5, <3>1, <3>2, <3>3, <3>4
  <2>4. ControllerNext \/ ThinkNext \/ Sample \/ UNCHANGED vars => Kept
    <3>1. ControllerNext => Kept
      BY DEF ControllerNext, BusyEnds, AddressMoves
    <3>2. ThinkNext => Kept
      BY DEF ThinkNext, SyncWait, Elapse, BeginSetUp, BeginOperation, Begin,
             Settle, Delay, Fail, lcdVars
    <3>3. Sample \/ UNCHANGED vars => Kept
      BY DEF Sample, vars, lcdVars
    <3> QED
      BY <3>1, <3>2, <3>3
  <2>5. CASE Kept /\ ~LowNibble
    BY <2>5
  <2> QED
    BY <2>1, <2>2, <2>3, <2>4, <2>5 DEF Next
<1> QED
  BY <1>1, <1>2, <1>3, <1>4, <1>5

-----------------------------------------------------------------------------
(* The pins follow the phases of HD44780WrIO and HD44780RdIO.              *)
PinInv ==
  /\ dirOut \in BOOLEAN /\ rw \in BOOLEAN /\ e \in BOOLEAN
  /\ out \subseteq Weights
  /\ phase \in {"idle", "directed", "selected", "high", "set", "done"}
  /\ e => phase \in {"high", "set", "done"}
  /\ phase # "idle" => NibbleDue /\ dirOut = ~Reading
  /\ phase \in {"selected", "high", "set", "done"} => rw = Reading
  /\ phase = "set" => ~Reading /\ Bits(NextNibble) \subseteq out
  /\ phase = "done" /\ ~Reading => out = Bits(NextNibble)
  /\ phase = "done" /\ pc \in {"poll", "address"} /\ ~lowNext => flag # "none"

LEMMA PinInvInit == PinsInit => PinInv
  BY DEF PinsInit, PinInv

(* Every step of the pins is a step of the bus, or none.                   *)
LEMMA PinStepIsBusStep ==
  ASSUME BusInv, PinInv, [PinsNext]_pinsVars
  PROVE  [Next]_vars
<1>1. CASE LowerE
  <2>1. /\ NibbleDue /\ dirOut = ~Reading /\ rw = Reading
        /\ ~Reading => out = Bits(NextNibble)
        /\ pc \in {"poll", "address"} /\ ~lowNext => flag # "none"
    BY <1>1 DEF LowerE, PinInv
  <2>2. PICK n \in IF dirOut THEN {Value(out)} ELSE Nibble : Strobe(rw, rs, n)
    BY <1>1 DEF LowerE
  <2>3. NextNibble \in Nibble
    <3>1. byte \in 0 .. 255 /\ step \in 1 .. 9
      BY Figures DEF BusInv, TypeOK
    <3>2. step <= 4 => Sync[step].nibble \in {2, 3}
      BY <3>1, Figures
    <3>3. High(byte) \in Nibble /\ Low(byte) \in Nibble
      BY <3>1 DEF High, Low, Nibble
    <3>4. step <= 4 => NextNibble = Sync[step].nibble
      BY Figures DEF NextNibble
    <3>5. ~(step <= 4) => NextNibble = High(byte) \/ NextNibble = Low(byte)
      BY Figures DEF NextNibble
    <3> QED
      BY <3>2, <3>3, <3>4, <3>5 DEF Nibble
  <2>4. Strobe(Reading, rs, NextNibble)
    <3>1. CASE Reading
      BY <2>1, <2>2, <3>1, ReadIgnoresPins
    <3>2. CASE ~Reading
      <4>1. n = Value(Bits(NextNibble))
        BY <2>1, <2>2, <3>2
      <4>2. n = NextNibble
        BY <2>3, <4>1, ValueOfBits
      <4> QED
        BY <2>1, <2>2, <4>2
    <3> QED
      BY <3>1, <3>2
  <2>5. SyncDriver => Reading = FALSE
    BY Figures DEF SyncDriver, BusInv, TransferInv, TypeOK, Reading
  <2>6. CASE SyncDriver
    BY <2>4, <2>5, <2>6, Zenon DEF Next, SyncNibble
  <2>7. CASE HighDriver \/ LowDriver
    BY <2>4, <2>7 DEF Next, HighNibble, LowNibble
  <2> QED
    BY <1>1, <2>6, <2>7 DEF LowerE
<1>2. CASE SetDirection \/ SetRW \/ RaiseE \/ SetBits \/ ClearBits
  BY <1>2 DEF SetDirection, SetRW, RaiseE, SetBits, ClearBits
<1>3. CASE ReadPins
  BY <1>3 DEF ReadPins, Next
<1>4. CASE IO_Init \/ Think
  BY <1>4 DEF IO_Init, Think, ThinkNext, Next
<1>5. CASE PinsController \/ PinsReset
  BY <1>5 DEF PinsController, PinsReset, Next
<1>6. CASE UNCHANGED pinsVars
  BY <1>6 DEF pinsVars
<1> QED
  BY <1>1, <1>2, <1>3, <1>4, <1>5, <1>6 DEF PinsNext

LEMMA PinInvStep ==
  ASSUME BusInv, PinInv, [PinsNext]_pinsVars
  PROVE  PinInv'
<1>1. ASSUME UNCHANGED driverVars
      PROVE  Reading' = Reading /\ NibbleDue' = NibbleDue /\ NextNibble' = NextNibble
             /\ UNCHANGED <<pc, lowNext, flag>>
  BY <1>1 DEF driverVars, transferVars, Reading, NibbleDue, Transferring, NextNibble
<1>2. vars' = vars => UNCHANGED driverVars
  BY DEF vars
<1>3. CASE LowerE \/ IO_Init \/ PinsReset
  <2>1. e' = FALSE /\ phase' = "idle"
    BY <1>3 DEF LowerE, IO_Init, PinsReset
  <2>2. dirOut' \in BOOLEAN /\ rw' \in BOOLEAN /\ out' \subseteq Weights
    BY <1>3 DEF LowerE, IO_Init, PinsReset, PinInv
  <2> QED
    BY <2>1, <2>2 DEF PinInv
<1>4. CASE Think
  BY <1>4 DEF Think, pinVars, PinInv
<1>5. CASE SetDirection
  BY <1>1, <1>2, <1>5 DEF SetDirection, PinInv, Reading
<1>6. CASE SetRW
  BY <1>1, <1>2, <1>6 DEF SetRW, PinInv, Reading
<1>7. CASE RaiseE
  BY <1>1, <1>2, <1>7 DEF RaiseE, PinInv
<1>8. CASE SetBits
  BY <1>1, <1>2, <1>8 DEF SetBits, PinInv, Bits
<1>9. CASE ClearBits
  <2>1. /\ UNCHANGED vars /\ UNCHANGED <<dirOut, rw, e>> /\ phase = "set" /\ phase' = "done"
        /\ out' = out \cap Bits(NextNibble)
    BY <1>9 DEF ClearBits
  <2>2. ~Reading /\ Bits(NextNibble) \subseteq out
    BY <2>1 DEF PinInv
  <2>3. Reading' = Reading /\ NibbleDue' = NibbleDue /\ NextNibble' = NextNibble
        /\ pc' = pc
    BY <1>1, <1>2, <2>1
  <2>4. out' = Bits(NextNibble)
    BY <2>1, <2>2
  <2>5. out' = Bits(NextNibble')
    BY <2>3, <2>4, Zenon
  <2>6. pc \notin {"poll", "address"}
    BY <2>2 DEF Reading
  <2> QED
    BY <2>1, <2>2, <2>3, <2>4, <2>5, <2>6 DEF PinInv
<1>10. CASE ReadPins
  <2>1. /\ UNCHANGED <<dirOut, rw, e, out>> /\ phase = "high" /\ phase' = "done"
        /\ Reading /\ UNCHANGED <<step, waited, pc, rs, byte, lowNext, polls>>
    BY <1>10 DEF ReadPins, Sample, vars, driverVars, transferVars
  <2>2. Reading' = Reading /\ NibbleDue' = NibbleDue
    BY <2>1 DEF Reading, NibbleDue, Transferring
  <2>3. pc \in {"poll", "address"} /\ ~lowNext => flag' # "none"
    BY <1>10 DEF ReadPins, Sample
  <2> QED
    BY <2>1, <2>2, <2>3 DEF PinInv
<1>11. CASE PinsController
  <2>1. UNCHANGED driverVars /\ UNCHANGED <<dirOut, rw, e, out, phase>>
    BY <1>11 DEF PinsController, ControllerNext, Float, pinVars
  <2> QED
    BY <1>1, <2>1 DEF PinInv
<1>12. CASE UNCHANGED pinsVars
  <2>1. UNCHANGED driverVars /\ UNCHANGED <<dirOut, rw, e, out, phase>>
    BY <1>12 DEF pinsVars, vars, pinVars
  <2> QED
    BY <1>1, <2>1 DEF PinInv
<1> QED
  BY <1>3, <1>4, <1>5, <1>6, <1>7, <1>8, <1>9, <1>10, <1>11, <1>12 DEF PinsNext

LEMMA PinsInvariant == PinsSpec => [](BusInv /\ PinInv)
<1>1. PinsInit => BusInv /\ PinInv
  BY BusInvInit, PinInvInit DEF PinsInit
<1>2. BusInv /\ PinInv /\ [PinsNext]_pinsVars => (BusInv /\ PinInv)'
  BY PinStepIsBusStep, BusInvStep, PinInvStep
<1> QED
  BY <1>1, <1>2, PTL DEF PinsSpec

-----------------------------------------------------------------------------
(* Type correctness of the bus and its pins, for every set of commands and *)
(* data of the driver's and every speed of the controller's within the     *)
(* driver's patience.                                                      *)
THEOREM TypeCorrect == PinsSpec => []PinsTypeOK
<1>1. BusInv /\ PinInv => PinsTypeOK
  BY DEF BusInv, PinInv, PinsTypeOK
<1> QED
  BY <1>1, PinsInvariant, PTL

(* The microcontroller and the controller never both drive the data pins.  *)
THEOREM ContentionFree == PinsSpec => []NoContention
<1>1. PinInv => NoContention
  BY DEF PinInv, NoContention
<1> QED
  BY <1>1, PinsInvariant, PTL

(* The pins implement the bus: each fall of E is the nibble the driver     *)
(* means, and nothing else that the pins do is seen by the controller.     *)
THEOREM BusImplemented == PinsSpec => ImplementsBus
<1>1. PinsInit => Init
  BY DEF PinsInit
<1>2. BusInv /\ PinInv /\ [PinsNext]_pinsVars => [Next]_vars
  BY PinStepIsBusStep
<1> QED
  BY <1>1, <1>2, PinsInvariant, PTL DEF PinsSpec, ImplementsBus, Spec

(* Driver and controller come into step with the fourth nibble and stay    *)
(* so, from every state the controller can be left in.                     *)
THEOREM ComesIntoStep == PinsSpec => []InStep
<1>1. BusInv => InStep
  BY DEF BusInv, SyncInv
<1> QED
  BY <1>1, PinsInvariant, PTL

(* From then on what the controller executes are the driver's commands,    *)
(* and those in full, whatever is between them and however they are sent.  *)
THEOREM CommandsExecuted == PinsSpec => CommandsArrive
<1>1. BusInv /\ [Next]_vars =>
        [step > Len(Sync) /\ step' > Len(Sync) =>
           IF LowNibble /\ pc = "send" /\ ~rs
           THEN Execute(High(byte), Low(byte))
           ELSE UNCHANGED <<eightBit, twoLines, on, home, increment>>]_vars
  BY BusSteps
<1>2. BusInv /\ PinInv /\ [PinsNext]_pinsVars => [Next]_vars
  BY PinStepIsBusStep
<1> QED
  BY <1>1, <1>2, PinsInvariant, PTL DEF PinsSpec, CommandsArrive

(* A display that was set up is set up as HD4478_Ctrl says.                *)
THEOREM SetUpCorrect == PinsSpec => SetUpComplete
<1>1. BusInv /\ [Next]_vars =>
        [step # Running /\ step' = Running /\ ~failed'
           => twoLines' /\ on' /\ home' /\ increment']_vars
  BY BusSteps, Zenon
<1>2. BusInv /\ PinInv /\ [PinsNext]_pinsVars => [Next]_vars
  BY PinStepIsBusStep
<1> QED
  BY <1>1, <1>2, PinsInvariant, PTL DEF PinsSpec, SetUpComplete

(* Nothing is written to, and no data read from, a busy controller.        *)
THEOREM WritesWait == PinsSpec => NotWrittenWhileBusy
<1>1. BusInv /\ [Next]_vars =>
        [SyncNibble \/ (pc \in {"send", "fetch"} /\ (HighNibble \/ LowNibble))
           => busy = 0]_vars
  BY BusSteps, Zenon
<1>2. BusInv /\ PinInv /\ [PinsNext]_pinsVars => [Next]_vars
  BY PinStepIsBusStep
<1> QED
  BY <1>1, <1>2, PinsInvariant, PTL DEF PinsSpec, NotWrittenWhileBusy

(* A busy check whose delays are all of full length passes.                *)
THEOREM ChecksPass == PinsSpec => FailsOnlyIfCut
<1>1. BusInv /\ [Next]_vars => [Fail => cut /\ step = Running]_vars
  BY BusSteps, Zenon
<1>2. BusInv /\ PinInv /\ [PinsNext]_pinsVars => [Next]_vars
  BY PinStepIsBusStep
<1> QED
  BY <1>1, <1>2, PinsInvariant, PTL DEF PinsSpec, FailsOnlyIfCut

(* The address a busy check returns is that after the last data.           *)
THEOREM AddressesSettle == PinsSpec => AddressSettled
<1>1. BusInv /\ [Next]_vars =>
        [Sample /\ pc = "address" => busy = 0 /\ settled]_vars
  BY BusSteps, Zenon
<1>2. BusInv /\ PinInv /\ [PinsNext]_pinsVars => [Next]_vars
  BY PinStepIsBusStep
<1> QED
  BY <1>1, <1>2, PinsInvariant, PTL DEF PinsSpec, AddressSettled
=============================================================================
