----------------------------- MODULE SpeedSystem -----------------------------
(***************************************************************************)
(* The two tasks and the queues between them: vSpeedTask (speed.c,         *)
(* priority 1) and vLCDTask (lcd.c, priority 3), timeStore and LCDQ.       *)
(*                                                                         *)
(* Of the components modelled elsewhere this module keeps what the tasks   *)
(* see: a rotation arrives or is dropped (Timer1), printing and            *)
(* calculating end with both lines set (Serial, SpeedCalc), the display    *)
(* driver's calls return (TimerIrq, LcdDriver), and may have given up      *)
(* before (LcdDriver).  A rotation is its number, a text says which        *)
(* rotation it is of.                                                      *)
(*                                                                         *)
(* Three variables are not in the code, and no guard reads them: asked,    *)
(* missed and lastFull say what the display would show if no call of the   *)
(* driver were given up, and where it does not.                            *)
(***************************************************************************)
EXTENDS Integers, Sequences

CONSTANTS
  timeStoreLength,  \* 128
  LCDQLength,       \* 10
  HORIZONTAL_SIZE,  \* HD44780_HORIZONTAL_SIZE, 16
  MaxRotations      \* bound: the rotations of a behaviour

ASSUME SystemAssumption ==
  /\ timeStoreLength \in Nat \ {0}
  /\ LCDQLength \in Nat \ {0}
  /\ HORIZONTAL_SIZE \in Nat \ {0, 1}
  /\ MaxRotations \in Nat

VARIABLES
  rotations,  \* so far
  timeStore,
  speed,      \* where vSpeedTask is: "receive", "update", "line1", "line2"
  tse_buf,    \* the last rotation it received, 0 before the first
  line1,      \* prvSpeedToShowLine1.DataStr
  line2,      \* prvSpeedToShowLine2.DataStr
  LCDQ,
  lcd,        \* where vLCDTask is: "power up", "greet", "receive", "show"
  toShow,     \* prvlcdToShow
  display,    \* for each line and column the text its character is of
  asked,      \* the text each line was last asked to show
  missed,     \* the columns where a line does not, its call given up
  lastFull    \* the last text set for line 1 that has all columns

speedVars == <<speed, tse_buf, line1, line2, lastFull>>
displayVars == <<display, asked, missed>>
lcdVars == <<lcd, toShow, displayVars>>
vars == <<rotations, timeStore, speedVars, LCDQ, lcdVars>>

Lines == {1, 2}

Columns == 1 .. HORIZONTAL_SIZE

Numbers == 0 .. MaxRotations

(* A result is either units in line 1 and numbers in line 2 or one of the  *)
(* messages of prvSpeedCalc.                                               *)
Results == {"units", "result"}

Kinds ==
  {"blank", "earlier", "greeting", "---", "===", "timeout"} \cup Results

Texts == [text : Kinds, of : Numbers]

Text(t, n) == [text |-> t, of |-> n]

Blank == Text("blank", 0)

Cleared == [y \in Lines |-> [c \in Columns |-> Blank]]

(* The display keeps its text while the microcontroller restarts.          *)
Leftover == {Blank, Text("earlier", 0)}

Messages == [y : Lines, text : Texts]

(* The units have fifteen columns, all other texts sixteen.                *)
Length(t) == IF t.text = "units" THEN HORIZONTAL_SIZE - 1 ELSE HORIZONTAL_SIZE

Fills(t) == Length(t) = HORIZONTAL_SIZE

Message(y, t) == [y |-> y, text |-> t]

Greeting == Message(1, Text("greeting", 0))

TypeOK ==
  /\ rotations \in Numbers
  /\ timeStore \in Seq(Numbers) /\ Len(timeStore) <= timeStoreLength
  /\ speed \in {"receive", "update", "line1", "line2"}
  /\ tse_buf \in Numbers
  /\ line1 \in Texts /\ line2 \in Texts
  /\ LCDQ \in Seq(Messages) /\ Len(LCDQ) <= LCDQLength
  /\ lcd \in {"power up", "greet", "receive", "show"}
  /\ toShow \in Messages
  /\ display \in [Lines -> [Columns -> Texts]]
  /\ asked \in [Lines -> Texts]
  /\ missed \in [Lines -> SUBSET Columns]
  /\ lastFull \in Texts

(* A behaviour is the program's life from one restart to the next.         *)
Init ==
  /\ rotations = 0
  /\ timeStore = <<>>
  /\ speed = "receive"
  /\ tse_buf = 0
  /\ line1 = Text("---", 0)
  /\ line2 = Text("===", 0)
  /\ LCDQ = <<>>
  /\ lcd = "power up"
  /\ toShow = Greeting
  /\ display \in [Lines -> [Columns -> Leftover]]
  /\ asked = [y \in Lines |-> Blank]
  /\ missed = [y \in Lines |-> {}]
  /\ lastFull = Greeting.text

-----------------------------------------------------------------------------
(* The kernel. *)

LcdBlocked ==
  \/ lcd = "receive" /\ LCDQ = <<>>
  \/ lcd = "greet" /\ Len(LCDQ) = LCDQLength

(* A faulty configuration: both tasks have the same priority.              *)
SpeedRunsAnyway == TRUE

(* Preemption: the speed task executes only while the LCD task, which has  *)
(* the higher priority, is blocked.                                        *)
SpeedRuns == LcdBlocked

(* xQueueSend to LCDQ, with portMAX_DELAY: it is possible once there is    *)
(* room.                                                                   *)
SendLCDQ(m) == Len(LCDQ) < LCDQLength /\ LCDQ' = Append(LCDQ, m)

-----------------------------------------------------------------------------
(* A faulty queue: no test for room.                                       *)
RotationUnbounded ==
  /\ rotations < MaxRotations
  /\ rotations' = rotations + 1
  /\ timeStore' = Append(timeStore, rotations')
  /\ UNCHANGED <<speedVars, LCDQ, lcdVars>>

(* vTimer1ISR sends a rotation; a full queue drops it.                     *)
Rotation ==
  /\ rotations < MaxRotations
  /\ rotations' = rotations + 1
  /\ timeStore' = IF Len(timeStore) < timeStoreLength
                  THEN Append(timeStore, rotations') ELSE timeStore
  /\ UNCHANGED <<speedVars, LCDQ, lcdVars>>

-----------------------------------------------------------------------------
(* vSpeedTask. *)

(* A faulty task: it leaves in the queue what it receives.                 *)
ReceivePeek ==
  /\ SpeedRuns
  /\ speed = "receive" /\ timeStore # <<>>
  /\ tse_buf' = Head(timeStore)
  /\ speed' = "update"
  /\ UNCHANGED <<rotations, timeStore, line1, line2, lastFull, LCDQ, lcdVars>>

Receive ==
  /\ SpeedRuns
  /\ speed = "receive" /\ timeStore # <<>>
  /\ tse_buf' = Head(timeStore)
  /\ timeStore' = Tail(timeStore)
  /\ speed' = "update"
  /\ UNCHANGED <<rotations, line1, line2, lastFull, LCDQ, lcdVars>>

(* What prvSpeedToShowLine1 is to show.                                    *)
SetLine1(t) ==
  /\ line1' = Text(t, tse_buf)
  /\ lastFull' = IF Fills(line1') THEN line1' ELSE lastFull

(* A faulty task: it does not call prvShowSpeed after a timeout.           *)
TimeoutNotShown ==
  /\ SpeedRuns
  /\ speed = "receive" /\ timeStore = <<>>
  /\ SetLine1("timeout")
  /\ UNCHANGED <<rotations, timeStore, speed, tse_buf, line2, LCDQ, lcdVars>>

(* No rotation for a second: the kernel looks at the queue once more and   *)
(* reports errQUEUE_EMPTY if it is still empty.                            *)
Timeout ==
  /\ SpeedRuns
  /\ speed = "receive" /\ timeStore = <<>>
  /\ SetLine1("timeout")
  /\ speed' = "line1"
  /\ UNCHANGED <<rotations, timeStore, tse_buf, line2, LCDQ, lcdVars>>

(* prvSpeedLog and prvSpeedCalc: whatever the calculation comes to, both   *)
(* lines are set.                                                          *)
Update ==
  /\ SpeedRuns
  /\ speed = "update"
  /\ \E t \in Results : SetLine1(t)
  /\ line2' = Text("result", tse_buf)
  /\ speed' = "line1"
  /\ UNCHANGED <<rotations, timeStore, tse_buf, LCDQ, lcdVars>>

(* prvShowSpeed. *)

SendLine1 ==
  /\ SpeedRuns
  /\ speed = "line1"
  /\ SendLCDQ(Message(1, line1))
  /\ speed' = "line2"
  /\ UNCHANGED <<rotations, timeStore, tse_buf, line1, line2, lastFull>>
  /\ UNCHANGED lcdVars

SendLine2 ==
  /\ SpeedRuns
  /\ speed = "line2"
  /\ SendLCDQ(Message(2, line2))
  /\ speed' = "receive"
  /\ UNCHANGED <<rotations, timeStore, tse_buf, line1, line2, lastFull>>
  /\ UNCHANGED lcdVars

-----------------------------------------------------------------------------
(* vLCDTask. *)

(* A faulty power-up: the display is not cleared.                          *)
PowerUpUncleared ==
  /\ lcd = "power up"
  /\ lcd' = "greet"
  /\ UNCHANGED <<rotations, timeStore, speedVars, LCDQ, toShow, displayVars>>

(* HD44780_PowerUpInit, which clears the display, prvLightInit and         *)
(* CGRAM_INIT.  They wait by spinning, so that no other task runs          *)
(* meanwhile.  The power-up sequence is never given up (FailsOnlyIfCut of  *)
(* LcdBus), and CGRAM_INIT changes no text (Screen).                       *)
PowerUp ==
  /\ lcd = "power up"
  /\ lcd' = "greet"
  /\ display' = Cleared
  /\ UNCHANGED <<rotations, timeStore, speedVars, LCDQ, toShow, asked, missed>>

(* The task's message to itself, with portMAX_DELAY as well.               *)
Greet ==
  /\ lcd = "greet"
  /\ SendLCDQ(toShow)
  /\ lcd' = "receive"
  /\ UNCHANGED <<rotations, timeStore, speedVars, toShow, displayVars>>

LcdReceive ==
  /\ lcd = "receive" /\ LCDQ # <<>>
  /\ toShow' = Head(LCDQ)
  /\ LCDQ' = Tail(LCDQ)
  /\ lcd' = "show"
  /\ UNCHANGED <<rotations, timeStore, speedVars, displayVars>>

(* HD44780_StrShow writes the characters of the text, and no blanks.  It   *)
(* gives up when a busy check fails, with the first n of them written, and *)
(* the task ignores that it did.                                           *)
Show ==
  /\ lcd = "show"
  /\ LET y == toShow.y
         t == toShow.text
     IN /\ \E n \in 0 .. Length(t) :
             /\ display' = [display EXCEPT ![y] =
                             [c \in Columns |-> IF c <= n THEN t ELSE @[c]]]
             /\ missed' = [missed EXCEPT ![y] =
                            (@ \ (1 .. n)) \cup (n + 1 .. Length(t))]
        /\ asked' = [asked EXCEPT ![y] = t]
  /\ lcd' = "receive"
  /\ UNCHANGED <<rotations, timeStore, speedVars, LCDQ, toShow>>

-----------------------------------------------------------------------------
SpeedTask == Receive \/ Timeout \/ Update \/ SendLine1 \/ SendLine2

LcdTask == PowerUp \/ Greet \/ LcdReceive \/ Show

Next == Rotation \/ SpeedTask \/ LcdTask

(* The LCD task runs on whenever it is not blocked, if its delays return;  *)
(* the speed task runs on while the LCD task is blocked, since its wait    *)
(* for room in the serial driver ends.  Nothing obliges the wheel to turn. *)
Spec == Init /\ [][Next]_vars /\ WF_vars(SpeedTask) /\ WF_vars(LcdTask)

-----------------------------------------------------------------------------
(* LCDQ never holds more than one message, and none when one is sent: the  *)
(* LCD task is blocked, and the speed task runs, only while LCDQ is empty. *)
(* So neither task ever waits for room in it, however short it is: not the *)
(* speed task, which sends two lines, nor the LCD task, which would wait   *)
(* for itself.  It is so because a message wakes the LCD task at once, and *)
(* because that task sends its own before the speed task has run at all.   *)
LCDQHoldsOne ==
  /\ Len(LCDQ) <= 1
  /\ LcdBlocked \/ lcd = "greet" => LCDQ = <<>>

(* The text whose character belongs into a column: the one set last, or    *)
(* right of the units the last that has a character there.                 *)
Belongs(y, c) ==
  IF y = 2 THEN line2 ELSE IF c <= Length(line1) THEN line1 ELSE lastFull

Greeted(y) == IF y = 1 THEN Greeting.text ELSE Blank

(* Whenever the speed task waits for a rotation and the LCD task for a     *)
(* line, the display shows the two lines as they were set last, never one  *)
(* of them with an older one; before the first, the greeting and a blank   *)
(* line.  Two things are excepted.  The column right of the units keeps    *)
(* the character of the last text that was longer: after a timeout or an   *)
(* invalid difference, its full stop.  And where the last call for a       *)
(* column was given up, which lcd.c ignores, an older text stays: not one  *)
(* from before the restart, and none newer than what is left of it.        *)
LinesTogether ==
  speed = "receive" /\ lcd = "receive" /\ LCDQ = <<>> =>
    /\ \/ \A y \in Lines, c \in Columns :
            c \in missed[y] \/ display[y][c] = Belongs(y, c)
       \/ /\ tse_buf = 0 /\ line1.text = "---"
          /\ \A y \in Lines, c \in Columns :
               c \in missed[y] \/ display[y][c] = Greeted(y)
    /\ \A y \in Lines, c \in Columns :
         /\ display[y][c].text # "earlier"
         /\ \A b \in 1 .. c : display[y][c].of <= display[y][b].of

(* The path from timeStore to the display leaves nothing out: each         *)
(* rotation that finds room in timeStore is written to line 2, once, in    *)
(* order, and in the end; the columns that a call of the driver does not   *)
(* come to when it is given up keep an earlier rotation, and no one else   *)
(* writes them.                                                            *)
OnTheWay == (IF tse_buf = asked[2].of THEN <<>> ELSE <<tse_buf>>) \o timeStore

Path == INSTANCE RotationDisplay
          WITH Rotations <- 1 .. MaxRotations,
               capacity <- timeStoreLength + 1,
               waiting <- OnTheWay, last <- asked[2].of,
               shown <- [c \in Columns |-> display[2][c].of]

WritesEveryRotation == Path!PathSpec
=============================================================================
