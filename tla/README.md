# Speed: specifications of a wheel speedometer on FreeRTOS

`src/Speed` is a speedometer for an LPC2138 microcontroller (ARM7): a sensor
gives one falling edge for each rotation of a wheel, the program times the
edges with Timer 1, prints each of them on a serial line, computes the speed
from the last four and shows it on a two-line character display with an HD44780
controller. It is about 2500 lines of C, two tasks, two interrupt handlers and
two drivers that share one hardware timer. The rest of the repository is the
vendored demo code of FreeRTOS; the kernel itself is a submodule whose content
is not in the tree.

This directory holds TLA+ modules for the program, TLC configurations that
check them on small instances, and proofs that TLAPS checks for every value of
the constants.

## 1. Inventory

### Components, their state and their operations

| component | source | state | operations |
|---|---|---|---|
| Timer 1 | `boe/timer1.c` | `T1TC`, `T1IR`, `T1MR1`, `T1CR2`, `timer1MinuteCount`, `prvPreviousCapture`, `DelayResolution100usActive`, the queue `timeStore` (128) | `setupTimer1`, `vTimer1ISR`, `DelayResolution100us` |
| serial driver | `serial/serial.c` | `xCharsForTx` (401), `xRxedChars` (400), `lTHREEmpty`, the UART | `xSerialPortInitMinimal`, `xSerialPutChar`, `vSerialPutString`, `xSerialGetChar`, `vSerialISR` |
| speed calculation | `boe/speed.c` | the ring `prvHistory` (4), `start`, `missing`, two lines of text | `prvSpeedCalc`, the timeout of `vSpeedTask` |
| display driver | `boe/drv_hd44780.c` | `HD4478_Ctrl` (position, cursor mode, ...); the controller's memory, address counter, position | power-up, `StrShow`, `WrCGRAM`, `RdCGRAM`, `DisplayShift`, `ClearDisplay`, `ReturnToHome`, `CursorPosSet`, busy check |
| display pins | `boe/drv_hd44780_l.c` | direction, R/W, E, RS and the latch of the data pins | `HD44780_IO_Init`, `HD44780WrIO`, `HD44780RdIO` |
| speed task | `boe/speed.c` | `tse_buf` | receive a rotation or time out after 1 s, log, calculate, send two lines |
| LCD task | `boe/lcd.c` | `prvlcdToShow`, the queue `LCDQ` (10) | power the display up, define four patterns, send itself a greeting, show what arrives |
| light control | `boe/lcd.c` | `prvLightState`, the DAC | `prvLightInit`; `prvLightCntr` is never called |
| start-up | `main.c`, `SrcIAR` | clock, pins, stacks | creates tasks and queues, starts the scheduler |
| interrupt entries | `*.s79` | the saved context | save, call the C handler, restore |

### Interactions

    wheel edge --> T1CR2 --> vTimer1ISR --timeStore--> speed task --LCDQ--> LCD task --> display
                                 ^                        |                    |
    one minute (MR0) ------------+                        v                    |
    delay over (MR1) ------------+                   serial driver             |
                                 +---- DelayResolution100us <------------------+

* The timer's handler and the speed task share `timeStore`; a full queue drops
  the rotation, silently.
* The display driver waits by `DelayResolution100us`, which spins on a flag that
  the same handler clears: minute counter, wheel capture and delay share one
  flag register, `T1IR`, whose flags are cleared by writing ones to it.
* The LCD task has priority 3, the speed task 1. While the LCD task spins
  nothing but interrupts runs; the speed task stands still, and `timeStore`
  fills up.
* The speed task waits, without limit, for room in `LCDQ` and in the transmit
  queue of the serial driver; it waits for rotations for one second.
* The serial driver's handler and the printing task share `lTHREEmpty`, the
  transmit queue and the UART's transmit register, under critical sections; the
  wait for room in the queue is inside a critical section.
* The display keeps its power and its state when the microcontroller restarts; while
  it does, the pins of the bus float.

### What is hard, and what makes each component correct

* **Timer 1.** A read-modify-write of a write-one-to-clear register wipes out
  flags that were raised since it was tested. Correct: a minute is counted once,
  a rotation carries the minute of its edge, rotations are in order and no
  closer than the glitch filter allows, a delay lasts what was asked and ends.
* **Serial driver.** A task blocks inside a critical section; when it runs again
  the handler may have emptied the queue and found nothing to send. (A driver with
  several printing tasks must also cope with one taking the room another was woken
  for; in this program only the speed task prints.) Correct: no character is lost, doubled or
  overtaken, the transmitter never stops with characters queued, and no task is
  left waiting for room that is there.
* **Speed calculation.** Indices and differences modulo powers of two, a ring
  that is filled differently from how it is overwritten, a switch that falls
  through, a 32-bit difference in a 64-bit sum, a division by what may be zero.
  Correct: the ring holds the last four rotations in order, the sum is the time
  between them.
* **Display driver.** The interface is four bits wide, so that both sides have to
  agree where a byte begins, after a restart in the middle of one too; each
  command is followed by a busy check that may give up and leaves the operation
  half done. Correct: after power-up both are in step; a string stands where it
  was asked for and nowhere else, around the end of a line; the driver's idea of
  the display position is the controller's; nothing is written to a busy controller.
* **Display pins.** The data pins are an output to the driver and, during a read, an
  output of the controller; direction, R/W and E change one by one, and the latch
  of the data pins keeps the last nibble. Correct: nobody drives against the other,
  and the pins carry the nibbles that were meant.
* **The tasks together.** Lines sent one by one through `LCDQ`, each task's wait
  for the other, calls of the display driver that give up unnoticed. Correct: no
  deadlock, the two lines shown belong together, each rotation is written in its turn.

`PROJECT.json` lists each of these hazards at the line where it bites.

## 2. Plan

In order of importance. All parts exist, each part relies on what another is shown to promise
(`RotationSource`, `CharChannel`, `RotationDisplay`, `Screen`, `CommandsArrive`, `CutOnlyByOldMatch`), and each invariant and action property that
a run finds to hold is proved; liveness stays with TLC.

1. `TimerIrq`: the flags of Timer 1, its handler, the delay; `TimerDelays`, the
   delays one after the other; `TimerDelaysProofs`. *Done.*
2. `Timer1`, on top of it: minute counter, capture, filter, queue; the abstract
   `RotationSource` it implements, which 5 relies on. *Done.*
3. `Timer1Proofs`. *Done.*
4. `Serial` and the abstract `CharChannel` it implements; `SerialProofs`. *Done.*
5. `SpeedCalc` and the abstract `SlidingWindow` its ring implements;
   `SpeedCalcProofs`. *Done.*
6. `LcdBus`: the bus, power-up, busy check, restarts; `LcdPins`, the port under it,
   which implements it; `LcdPinsProofs`. *Done.*
7. `LcdDriver`: the operations; `LcdDriverProofs`. *Done.*
8. `SpeedSystem`: the two tasks with `timeStore`, `LCDQ`, the timeout and the
   priorities, over the interfaces of 2, 4, 5 and 7; the abstract `RotationDisplay`
   it implements; `SpeedSystemProofs`. *Done.*
9. `Screen`: what the display promises its callers, text at a place on a screen, which
   `LcdDriver` implements; `LcdScreenProofs`. *Done.*

## 3. The modules

| module | models |
|---|---|
| `Unsigned` | `uint32_t`: the number of its values is the constant `Word` |
| `TimerIrq` | control of `timer1.c`: counter, flags, match register, handler, delay |
| `TimerDelays` | `TimerIrq` with a record of how its delays follow each other |
| `TimerDelaysProofs` | theorems about `TimerDelays` |
| `RotationSource` | abstract: the rotations that `timer1.c` hands to `speed.c` |
| `Timer1` | `TimerIrq` and its data |
| `Timer1Proofs` | theorems about `Timer1` |
| `Serial` | `serial.c` and the UART |
| `CharChannel` | abstract: a lossless, ordered, bounded channel |
| `SerialProofs` | theorems about `Serial` |
| `SpeedCalc` | `prvSpeedCalc`, `prvInitHistory`, the timeout |
| `SlidingWindow` | abstract: the last N elements |
| `SpeedCalcProofs` | theorems about `SpeedCalc` |
| `LcdBus` | `HD44780_PowerUpInit`, bytes as nibbles, the busy check, restarts, the controller's interface |
| `LcdPins` | `drv_hd44780_l.c`: the nibbles of `LcdBus` as writes to port registers |
| `LcdPinsProofs` | theorems about `LcdPins` and `LcdBus` |
| `LcdDriver` | the operations of `drv_hd44780.c` and the controller's memory |
| `Screen` | abstract: two lines of text, character patterns, a display position and a cursor |
| `LcdDriverProofs` | theorems about `LcdDriver` |
| `LcdScreenProofs` | `LcdDriver` implements `Screen` |
| `SpeedSystem` | `vSpeedTask` and `vLCDTask`, `timeStore`, `LCDQ`, the priorities |
| `RotationDisplay` | abstract: what becomes of rotations on their way to a line of the display |
| `SpeedSystemProofs` | theorems about `SpeedSystem` |
| `MC...` | the instance that TLC checks |

A definition whose comment begins "A faulty ..." is not part of a model. It is a
mutation of the definition that follows it, kept beside it to show that the
property it is meant for notices the difference.

### Timer1 and TimerIrq

Each block of the handler is an action, because the hardware moves between them:
`ServiceMR0` and `ServiceMR1` are the two match blocks, `ReadCapture` and
`StoreCapture` the two ends of the capture's block, `NoCapture` a handler without
one. `Tick` is one count of `T1TC` with its matches, `Edge` the sensor.
`DelayBegin` and `DelayArm` are the first reading of the counter and the arming
inside the critical section, `DelayReturn` the end of the spin loop. `TakeElement`
is the receive of the speed task.

`T1IR_bit.X = 1` loads the register, sets one bit and stores the result. Because
the register is write-one-to-clear the store clears *every* flag that was pending
at the load; `ClearFlags` is that. `T1IR` reads as the set `ir`.

`lag` counts the ticks since the handler became due, or its interrupt was masked;
`MaxLag` bounds it. It is what keeps the model from letting whole minutes pass
between two instructions, and it is the only timing assumption besides the order
of magnitudes: a latency is shorter than a delay, a delay and a latency shorter
than a minute (`TimingAssumption`; in the program about 10^3, 10^4 and 10^9
ticks).

Three variables record what ought to be or has been: `minutes` (the matches so far),
`cr2Minute` (the minute of the last edge) and `last` (the rotation that the speed task
received last).

`RotationSource` is the contract between `timer1.c` and `speed.c`: each rotation handed over is
later than the one before, further from it than the filter asks if both are of one minute, and
short of its true minute by as many minutes or more. `Timer1` implements it
(`HandsOverInOrder`), and `SpeedCalc` takes its input by it. The invariants of the queue,
`StoredInOrderAndSpaced` and `LossOnlyGrows` (proved, and for TLC part of the contract), compare
only rotations that are queued at the same time; `HandsOverInOrder` goes from each to the next that the speed task gets, over an empty queue and over
rotations dropped by a full one.

`TimerDelays` is about the lengths of delays. It adds to `TimerIrq` how long ago the last
delay was armed (`age`, up to a minute), what it and the one before it still have to
last (`left`, `old`), whether it was armed while an old match was pending (`stale`), and
whether it ended too early (`cut`). `DelayShortOnlyIfStale` says that an old match is the only
cause of a delay that is too short. How often that can happen matters because the busy check of the display
counts delays. The code never disables the match, so that it
comes again after a minute; `CutOnlyByOldMatch` says that this, or a delay cut short
itself, is the only way to arm over a pending match. `MatchLostOnlyToCapture` is
about delays that are too long: a match that lies within its minute, and not in the last ticks of it,
is never wiped out by the minute's block or by that of an older match, only by a capture that is served
at the same time.

### Serial and CharChannel

`xSerialPutChar` is one critical section, except that a task that finds the queue
full waits in it. `PutDirect`, `PutQueued` and `PutBlock` are its three ways
through, `ResumeQueued`, `ResumeRestart` and `ResumeBlock` what follows the wait:
there is room; there is room and the transmitter has stopped meanwhile, so that
it is started again with the oldest character; another task was faster. The
handler serves one source in each entry, received characters first. Any number
of tasks prints in the model; in the program it is one.

Refinement: `pipe <- thr \o xCharsForTx`, what is in the UART and then what is
queued. A step of the task is `Accept`, `Transmit` is `Deliver`, the rest
stutters. The character a blocked task holds is not yet accepted.

### SpeedCalc and SlidingWindow

`Fill`, `FillLast` and `Replace` are the three ways through `prvSpeedCalc`, each
with the whole calculation it ends in; `Timeout` replaces the first line only, as
the code does. The rotations are an input, and `Update` takes one only as a `HandOver` of
`RotationSource`, which is what `Timer1` is shown to implement: in order, spaced within a
minute, and stamped with their minute less the minutes the counter has lost, which
never become fewer. Which text a line shows, and with
which numbers, is kept; its layout is not.

`SumErrorExact` says what the sum behind a shown speed is: the time of the two pairs
of rotations, 2^32 ticks more for each pair whose capture goes back, and less by the minutes
lost within each (`Error`). There is no precondition; without those two causes the error is zero.

Refinement: `window <- Window`, the ring read from its oldest entry.

### LcdBus and LcdPins

In `LcdBus` a nibble is one step of both sides: the driver's part (`SyncDriver`,
`HighDriver`, `LowDriver`) and `Strobe`, what the controller makes of it. An
eight-bit interface takes a nibble as a command whose low half is noise, a four-bit
one pairs nibbles, of data and of reads too (`OtherHalf`). `Reset` restarts the
microcontroller, in the middle of a byte if it likes, with or without the display's
power. `CommandsArrive` says what being in step is for: the low nibble of a command is the step
at which the controller executes it, in full, and no other step executes anything. Until `HD44780_IO_Init` drives the pins they float, and the controller may see
any number of strobes (`Float`).

Time is counted in the driver's delays of 100 us. `busy` is how many of them the
controller may still be busy, at the most (`BusyEnds`: it may be ready earlier). `settled`
is false for the 4 us after the busy flag in which the address counter of the
controller has not yet moved. A busy check (`HD44780_BusyCheck`) is a read of the
status (`Sample`, in the high nibble of pc `"poll"`), a `Delay` after each that was
busy, and after one that was not `Settle`, its two `HD44780_BUS_DLY` of about 2 us, and a
second read for the address. It gives up (`Fail`) when the last delay was not followed
by a poll. During the power-up the LCD task ignores that and goes on, so the model does.
In `Delay` the delay may be cut short, once in a busy check and not in the power-up: that
is what `CutOnlyByOldMatch` allows, since a busy check is far shorter than a minute and a
power-up begins with the first delay of all.

`LcdPins` has the pins: `dirOut` (the direction of the data pins), `rw`, `e`, and `out`,
the latch. `SetDirection`, `SetRW`, `RaiseE`, `SetBits`, `ClearBits`, `ReadPins` and `LowerE`
are the writes and the read of `HD44780WrIO` and `HD44780RdIO` in their order. The
controller goes by the pins: at `LowerE` it takes the value of the latch, or anything when
nobody drives the pins, and `rw` decides whether it was a read. `IO0CLR |= x`
reads a write-only register; the model assumes that it reads as zeros, as it does on this
part, so that no other bit is cleared. RS is the `rs` of `LcdBus`.

Refinement: the variables of `LcdBus` are mapped to themselves. `LowerE` is the nibble,
`ReadPins` the sampling of the busy flag, `IO_Init` the first wait; what only moves pins
stutters. It holds exactly if the pins always carry what `LcdBus` says.

### LcdDriver and Screen

One step is one command to the controller with its busy check; that a command is a
whole byte, executed once, is `CommandsArrive` of `LcdBus`. The check
is that of `LcdBus`, which shows that it fails only with a delay cut short; that may
happen after any command, so in this model it may fail at any, and
the operation ends as the code ends it, the address counter or the display where
they are. `call` is the operation under way with its local variables. The address
counter runs from line 1 into line 2 and back; `Crossed` and `StrShowWrap` are how
`HD44780_StrShow` notices and brings it back.

`Screen` has none of that: no address counter, no addresses, no CGRAM behind the same
counter, no busy checks. Its text is a character at each place (`<<line, column>>`), its
patterns are rows, and a request is a task that is carried out part by part (`PutChar`,
`PutRow`, `SlideOnce`, `MoveCursor`, `ShowCursor`). A task may be given up with an error
after any part; it ends with "ok" only when all parts are done. Each action names what it
changes; what it does not name stays as it is. That is what a caller may rely on, and
what a wrong wrap, a wrong address of a pattern, an address counter left in CGRAM or an "ok" after a failed
busy check would break. It does not promise where the cursor is after something was
written, drawn or read (`CursorStrays`), what `HD44780_RdCGRAM` returns (see the findings), nor which columns and
shifts are refused. Nor does it know the driver's own position, which is `PositionTracked`.

Refinement: `text <- Text(ddram)` and `pattern <- Pattern(cgram)`, the two memories read
through their addresses; `left <- shift`; `task <- Task(call)`, the operation without the
variables that serve the address counter; `at <- CursorPlace(...)`, the place of the address counter, and
nowhere while it addresses CGRAM or a string is being written. `StrShowWrap` and
`RdCGRAMRow` stutter, `CloseCGRAM` is the end of the task, a failed busy check is
`GiveUp` or the step's own error.

### SpeedSystem

Both tasks with the queues between them. `Receive`, `Timeout`, `Update`,
`SendLine1` and `SendLine2` are the speed task: the two results of
`xQueueReceive`, `prvSpeedLog` with `prvSpeedCalc`, and the two sends of
`prvShowSpeed`. `PowerUp`, `Greet`, `LcdReceive` and `Show` are the LCD task.
`Rotation` is the handler, which drops a rotation that finds `timeStore` full.
What the other modules model in detail is kept at their interface: which
rotations pass the filter, what a line says and at which of its steps a call of
`HD44780_StrShow` gives up are not decided here; a rotation is its number, and a text says which
rotation it is of. One thing about the wording matters: the units are fifteen
characters, all other texts sixteen, and `HD44780_StrShow` writes no blanks behind a
string. So the display is kept by columns: `display[y][c]` is the text that the
character in column `c` of line `y` belongs to.

A call of `HD44780_StrShow` may fail: a busy check gives up after a delay cut short
(`LcdBus`), the call ends there (`drv_hd44780.c:707`, `:740`, and `LcdDriver`), and
`lcd.c:69` ignores it. `Show` therefore writes the first `n` characters, for any `n`
from none to all; nobody repeats the rest. A check that fails after the last character gives an error too, but all
is written. What the line ought to say is kept beside it, in three
variables that no guard reads: `asked`, the text each line was last asked to show; `missed`, the columns
where it does not because that call was given up; `lastFull`, the last text for line 1
that has all columns. `LinesTogether` exempts the columns in `missed` from belonging to
the lines as set, and only those, and it still says of them that what they keep is from this life of the
microcontroller and that a column is never newer than one left of it. That
`PowerUp` does not give up is `FailsOnlyIfCut`; its patterns (`CGRAM_INIT`) may be
given up but touch no text, which is `ImplementsScreen` of `LcdDriver`.

A behaviour is one life of the microcontroller. The display may have text left from the
one before (`Leftover`) until `PowerUp` clears it, so that what the module says
holds after a restart too; rotations not written by then are lost with the memory.

The kernel is external. With the priorities of `main.c` (1 and 3) and
preemption (`configUSE_PREEMPTION`), the speed task executes only while the LCD
task is blocked: `SpeedRuns == LcdBlocked`. The LCD task blocks on `LCDQ` and on
nothing else, since the driver's delays spin.

Refinement: `waiting <- OnTheWay`, the rotation in the speed task's hands, until its
second line is written, and then `timeStore`; `last <- asked[2].of`, the rotation
whose second line was written last; `shown`, the rotation of each column of that
line. `Rotation` is `TakeIn` or, with `timeStore` full, a stutter; the `Show` of a
second line is `WriteNext`, or `WriteAgain` after a timeout. `RotationDisplay` says of the
columns that a write covers those left of some column and no other step changes
any: no promise can be made that a rotation is ever *seen*, because its call may be
given up at once, only that it has its turn.

## 4. The runs

All runs check for deadlock.

| run | instance | states | shows |
|---|---|---|---|
| `timer_irq` | minute of 8 ticks, delays 3 and 5, latency 2; no horizon | 52 519 | `DelaysTypeOK`; `DelayReturnsOnceWheelStops`: a delay that ends within the minute ends once the wheel stops; `CutOnlyByOldMatch`, `DelayShortOnlyIfStale`, `MatchLostOnlyToCapture` |
| `timer_delay_hangs` | minute of 8, delay 3, latency 2 | | `DelayAlwaysReturns` is violated, by a match beyond the minute |
| `timer1` | minute of 6, word of 9, delay 3, latency 2, queue of 2, 2 minutes | 15.6 million | `TypeOK`, `MinuteCountNeverAhead`, `StampNeverLate`, `StoredInOrderAndSpaced`, `HandsOverInOrder` |
| `timer1_minute_lost` | same, but no delays | | `NoMinuteLost` is violated, by a capture |
| `timer1_glitch` | as `timer1` | | `GlitchesIgnored` is violated |
| `serial` | 3 tasks, transmit queue of 3, receive queue of 2, 2 characters | 55 608 | `TypeOK`, `BusyIsTrue`, `IdleIsTrue`, `NoWriterForgotten`, `ImplementsChannel` with its liveness, `WriterReturns` |
| `speed_calc` | `tick_Hz` 1, word of 73, `start` wraps at 8, captures 0, 2, 29, 58, 4 minutes | 331 560 | `TypeOK`, `SumErrorExact`, `DividesByZeroOnlyIfLost`, `KeepsLastRotations` |
| `speed_sum` | same | | `SumIsTime` is violated |
| `lcd_bus` | the program's waits, polls and commands; five commands, one byte of data; slow commands take up to 29 delays | 30 651 | `PinsTypeOK`, `InStep`, `CommandsArrive`, `NoContention`, `SetUpComplete`, `NotWrittenWhileBusy`, `FailsOnlyIfCut`, `AddressSettled`, `ImplementsBus` |
| `lcd_text` | lines of 3 characters, 2 visible; strings of 2 and 4 | 332 724 | `ShownAsAsked`, `ImplementsScreen` (strings, clearing, home, cursor), `CallReturns` |
| `lcd_driver` | lines of 3, 2 patterns of 2 rows, shifts by -2 and 1 | 1.0 million | `TypeOK`, `PositionTracked`, `VisualOffByOne`, `ImplementsScreen` (patterns, shifts, clearing, home, cursor) |
| `speed_system` | queues of 2, 4 rotations, 3 columns, any text left on the display, calls that give up anywhere | 2.5 million | `TypeOK`, `LCDQHoldsOne`, `LinesTogether`, `WritesEveryRotation` with its liveness |

### Why the bounds are enough

* *Timer 1.* What the handler does depends on the order of matches, edges and
  reads, and on whether a difference of captures is large. A minute of 6 or 8
  ticks lets every order of the three flags and of the handler's blocks happen at
  each place of the minute; a word half as large again as the minute keeps the
  gap between them, as the real word does (a fifth larger). Two minutes see a
  minute lost and stamps on both sides of its end; a queue of two fills, drops,
  and holds a pair to compare.
* *Delays.* Two lengths let a delay follow a longer and a shorter one, and together
  they fill the minute, so that an old match finds each place of a later delay.
* *Serial.* Three tasks are the fewest of which one overtakes another while a third
  waits; a queue of three holds room for one and for two of them.
* *Speed calculation.* The ring has its real length. `start` wraps after two turns
  of the ring. Four minutes let a pair be two and three minutes apart, and the
  captures give differences of both signs, the smallest and the largest.
* *Display's bus.* No number is scaled down. The commands are one for each limit of
  the busy check and each of the controller's times; what a command does to the
  display matters during the power-up only, whose bytes are the program's. A slow
  command takes about 16 delays; 29 is the most that `HD44780_MAX_COMM_DLY` allows.
* *Display.* A line of three with a string of four wraps around once and overwrites
  itself; two patterns of two rows tell an index from an address; shifts go around
  both ends. The two `LcdDriver` runs split the operations because text and patterns
  meet only in the address counter, which `StrShow` sets first in any case.
* *The tasks.* Two messages would fill the `LCDQ` of the run, and the speed task
  sends two at a time: without the priorities it would fill. `timeStore` fills
  while the LCD task is busy and drops rotations; four of them let it fill, drop one
  and go on. Of three columns the first is written by any call that begins, the
  last only by a text of full length, and the one between by all but the calls given up
  before it.

Bounds in guards are `MaxMinutes` (in `Timer1` and `SpeedCalc`), `MaxRotations`
(in `SpeedSystem`) and `MaxLag`;
`HORIZONTAL_SIZE` is smaller in `SpeedSystem`'s run than in the program; bounds on inputs are `Delays`, `Commands`, `Data`, `Captures`, `Chars`, `Strings`, `Patterns` and
`Shifts`. All are constants of the modules.

### Fairness

* `TimerIrq`: the counter counts (`WF` of `IrqTick`); a handler that is due runs on
  (`WF` of `IrqHandler`); the LCD task, the highest in priority, runs on through
  its critical section (`WF` of `IrqDelayArm`) and out of its loop
  (`SF` of `IrqDelayReturn`: a handler may come between any two instructions of the
  loop, but not between all of them). Nothing obliges the wheel to turn. The
  liveness properties are stated for a wheel that has stopped, since an edge may
  otherwise hit the same place of each minute for ever.
* `Serial`: the UART transmits, its interrupts are served, a woken task comes to
  run. The THRE interrupt has `SF`: every received character puts it off, but
  characters have 87 us between them and the handler takes a few. Nobody is
  obliged to print or to read. `WriterReturns` is stated for the case that the
  other tasks stop printing, since FreeRTOS promises nothing to a woken task
  while others take the room.
* `LcdDriver`: an operation whose busy checks pass goes on and returns. The fairness
  does not assume that a check fails in the end: `WF` is on steps that do not
  abandon the operation, or `CallReturns` would hold for the wrong reason.
* `SpeedSystem`: `WF` of each task. The LCD task is the highest in priority, so it
  runs on whenever it is not blocked, *provided that its delays return*, which
  `timer_delay_hangs` shows they may not: the liveness here is that of a program
  whose delays do. The speed task is the only other one, and its wait for room in
  the serial driver ends (`WriterReturns`).

## 5. The proofs

`Timer1Proofs`, from `TimingAssumption`, `Timer1Assumption` and `WordAssumption`:

* `TypeCorrect`. `TypeOK` is inductive; what needs an argument is the queue
  (`SendFromISRProperties`).
* `MinuteCountCorrect`. Inductive with the types: the flag and the counter are
  taken together, so that the store that clears and the increment that counts
  cancel, and a wiped flag only makes the sum smaller.
* `StampsCorrect`. Strengthening `CapturesInTime`: while a capture is pending, the
  minute of its edge has not been counted past, and the element in the handler's
  hands has the property of the queued ones. It is the minute's block, which
  clears the capture's flag together with its own, that keeps it true.
* `LossCorrect`. Strengthening `LossSoFar`: what a queued stamp is short of, the edge that
  is pending and the one in the handler's hands will be short of too, and a minute whose
  flag is up is not part of it. That the capture's block wipes out the minute's
  flag, which loses the minute, is what keeps this true: were it counted after all, the
  rotation just stored would be the only one that lacks it. It speaks of `last` as of the
  queued ones, which takes it over an empty queue.
* `OrderCorrect`. Strengthening `FilterReference`: the filter's reference belongs to
  some minute between the queued elements and the edge that may come next. The
  code keeps no such minute, so it is an existential in the invariant, and each
  action has to name its witness. `last` is no later than the reference either, and
  apart from what is queued (`FilterSpaces`).
* `SourceImplemented`: `HandsOverInOrder`. `FilterReference` and `LossSoFar` compare `last`
  with the head of the queue, so that `TakeElement` is a `HandOver` and all other steps stutter.

`SerialProofs`, from `SerialAssumption`:

* `DriverInv`, and from it `BusyCorrect` and `IdleCorrect`. The invariant adds what
  the UART contributes: a pending THRE means an empty FIFO, and the FIFO holds at
  most one character. Without the second the handler could send behind a
  character that a task wrote directly. `TypeCorrect` is part of it.
* `ChannelImplemented`. Each action is mapped to a step or a stutter of
  `CharChannel`; the lemmas are about a concatenation whose second part is
  appended to, or gives its head to the first.
* `NobodyForgotten`. The number of free places is bounded by the number of woken
  tasks (`ReadyCount`): taking a character wakes a waiting task, and a task that
  resumes takes the place it was woken for.

`SpeedCalcProofs`, from `SpeedCalcAssumption` and `WordAssumption`:

* `RingIsSlidingWindow`, on the inductive `RingInv` (while entries are missing,
  `start` is 0 and the filled slots are the first ones). The argument is that
  masking commutes with the wrap of `start`, because the ring's length divides
  2^32: that is the assumption `StartWord % prvHMAX = 0`.
* `TypeCorrect`, `SumErrorCorrect` and `ZeroOnlyIfLost`. `OrderInv` says that any two rotations
  of the window relate as `RotationSource` promises of one and the next, which is
  transitive (`EarlierTransitive`); `SumInv` that a sum which is shown belongs to the ring as it
  is. `PairTime` is the arithmetic of a pair: minutes apart and a 32-bit difference of captures
  give its time and its error, exactly, and at least two ticks if no minute was lost; the sum has
  two such pairs.

`TimerDelaysProofs`, from `TimingAssumption`:

* `TypeCorrect`, of `DelaysTypeOK`, and with it of `IrqTypeOK`.
* `CutsAreRare`: `CutOnlyByOldMatch`. The invariant `MatchInv` says where the match of the
  last delay is: as many ticks ahead as the delay has left, perhaps beyond the end of the minute, or,
  once it has run out, as many behind as it is old;
  `CutInv` that a match which is pending with no delay waiting for it is at least a minute
  old, or of a delay that was cut short and has run out by now.
* `DelayCorrect`: `DelayShortOnlyIfStale`, with `ShortInv`: once the match of a delay that was
  not armed stale is raised, `MatchInv` leaves it no ticks.
* `OnlyCapturesPostpone`: `MatchLostOnlyToCapture`. `AwaitInv` follows a delay whose match lies
  within its minute. Before the match, a flag of the minute can only be one from
  before the delay was armed, and is served before the match comes; once the match is raised, it is
  served before the minute is over; and if a capture's block has wiped it out, the next
  minute's flag is served before it comes again (`Swept` is a run of the handler
  that has nothing left to do but that flag).

`LcdPinsProofs`, from `LcdAssumption`, for every set of commands and data and every time
a slow command may take that the busy check's limit allows:

* `BusInv` is the inductive invariant of `LcdBus`, the conjunction of `TypeOK`,
  `TransferInv` (what `pc`, `rs`, `lowNext`, `flag` and `polls` say together), `SyncInv` (where the
  controller can be after each of the four nibbles), `BusyInv` (the delays left in a
  check are enough for what the controller may still take, but for a cut one) and
  `SetUpInv` (what the bytes of the set-up have done so far).
* From it `ComesIntoStep`, `CommandsExecuted`, `SetUpCorrect`, `WritesWait`, `ChecksPass` and
  `AddressesSettle`: `InStep` and the five action properties of `LcdBus`. `CommandsExecuted` needs
  besides `InStep` that the half the controller holds is that of the byte under way (`TransferInv`).
* `PinInv` relates the pins to `phase`; with it `BusImplemented`: each write to the port is
  a step or a stutter of `LcdBus`, so that what is proved of the bus holds of the pins.
  `ContentionFree` and `TypeCorrect` come from the same invariant.

`LcdDriverProofs`, from `LcdAssumption`, for every size of the display and of its patterns:

* `TypeCorrect`, `PositionCorrect` and `VisualCorrect`. `Inv` adds to the types what the local
  variables of an operation can be, and that the controller addresses text while a string is
  shown and the rows of one pattern while it is written. The driver's position and
  the controller's are both kept modulo the length of the line, by different expressions.
* `TextCorrect`. `TextInv` says that the cells of the characters so far hold them, and that the address
  counter is at the next one, or, if that is the first of its line, where the controller runs to from
  the last: on the other line. A character then overwrites no earlier one, since
  any `LineLength` consecutive characters have different cells.
* `OtherTextCorrect` and `GlyphsCorrect`: from `Inv` and `TextInv`, step by step. Both also follow from
  `ImplementsScreen`, so no run checks them by themselves.

`LcdScreenProofs`, from the invariants of `LcdDriverProofs`:

* `ScreenImplemented`: `ImplementsScreen`, one lemma for each operation and each step of one. A
  written byte is one character of the text, or one row of one pattern, because places and
  addresses correspond one to one (`PlaceAddress`, `RowAddress`), and it is the one
  `Screen` says because of `TextInv`, and of `GlyphInv`, which has the address counter at the row to be written.
  `ModeInv`, that the driver's cursor mode is the controller's, is what lets the cursor be hidden without
  changing whether it blinks. The theorem holds for lines, patterns and
  strings of any size, where each `LcdDriver` run has either strings or patterns.

`SpeedSystemProofs`, from `SystemAssumption`:

* `TypeCorrect`, and `QueueNeverFills`, for a `LCDQ` of one place too. The latter's strengthening `QueueInv` says
  when there can be a message in `LCDQ` at all: never while the LCD task shows one,
  while the speed task has a line 1 still to send, or before the greeting, when
  the speed task has not run.
* `LinesCorrect`. The display at rest is no invariant to start from; `LinesInv`
  speaks instead of `Arriving(y)`, what line `y` will have been asked to show once
  everything on its way to it has got there, and relates that to the lines as set. Three
  invariants then say what the columns make of it: `ShownInv`, that a column which
  is not missed has the text asked for; `FullInv`, that the last column of line 1 has
  `lastFull` unless that is still on its way; and `AgeInv`, that what comes to
  the display is of the rotation in hand, so that no write leaves a newer column
  right of an older one.
* `PathImplemented`. `RotationsInv` adds that line 2 is of the rotation in hand, and on
  its way to the display once it is sent and not before, and that the queued
  rotations are later ones and in order: the rotation in hand has its turn exactly
  when its second line is written, be it given up or not, and a timeout, which
  writes line 2 again, takes nobody's turn.

Only model-checked: liveness, which rests on fairness. It is `DelayReturnsOnceWheelStops`,
`WriterReturns`, `CallReturns`, the liveness of `CharChannel` in `ImplementsChannel` and
that of `RotationDisplay` in `WritesEveryRotation`. The runs that refute a comment prove nothing but that.

## 6. Findings

Each is a run that TLC refutes, quoting the comment that the code does not keep.

* `timer_delay_hangs`: the match of a delay is the counter plus the delay, but the
  counter is reset at the end of a minute. A delay begun in the last ticks of a
  minute waits for a value that is never reached, in the task of the highest
  priority: the program stands still. The other way to lose a match, a minute whose
  end comes between a match and its service and whose block wipes it out, is excluded in
  this run (`MatchTakenAlone`).
* `timer1_minute_lost`: a minute that ends while a capture is served loses its
  flag to the store that clears the capture's. The delay's block can do the same
  (`timer1.c:58`); the run has no delays, so that it is the capture's that is seen.
* `timer1_glitch`: the glitch filter does not look at minutes, and across the end
  of one every glitch passes.
* `speed_sum`: when the capture of a rotation is smaller than that of the one two
  before it, 2^32 ticks are added to the sum besides the minute. Once in a minute
  the speed shown is wrong.

Other places where a property had to be weaker than one would like, and says so:
a delay armed while an old match is pending ends at once (`DelayShortOnlyIfStale`), and each
rotation served at its match makes a delay a minute longer (`MatchLostOnlyToCapture`);
a shift whose busy check fails leaves the driver's position behind
(`PositionTracked`); `HD44780_CheckVisual` takes the character right of the visible
ones for visible, and refuses the second part of a visible area that runs around
the end of the line (`VisualOffByOne`); a failed `HD44780_WrCGRAM` or
`HD44780_RdCGRAM` leaves the address counter in CGRAM for the next one to save
(`TypeOK` of `LcdDriver` allows the address); `HD44780_RdCGRAM`, which the
program does not call, takes the number of a pattern for its address
(`drv_hd44780.c:611`), where `HD44780_WrCGRAM` multiplies it by the rows (`:661`), and
so reads other rows than were written (`RdCGRAM` models it as it is); the note of `vSerialPutString`
(`serial.c:171`) that it does not wait for room is out of date; the entry mode that
`HD44780_PowerUpInit` puts together (`drv_hd44780.c:372-381`) is never sent, so that the
addresses count upwards only because the clear command makes them (`SetUpComplete` holds
for that reason), and a shift mode asked for there has no effect (that half of the entry mode is not modelled:
the controller comes up without it, and no command of the driver sets it); the units are a
character shorter than other texts (`speed.c:189`), so that the full stop of a timeout stays right
of them, and a call of `HD44780_StrShow` that gives up leaves an older text, or the end of one, until the
next message for that line, since `lcd.c:69` does not look at its result (`LinesTogether`
says both).

## 7. What is not modelled

* Start-up: `main` sets clock and pins and creates queues and tasks, one statement
  after the other. It is safe against the interrupts it enables because the kernel's
  port keeps them masked until the scheduler starts; that is the kernel's doing, whose
  source is not in the tree. The state it leaves is `Init` of the modules.
* Interrupt entries: they save and restore registers by macros of the kernel's port.
* The kernel: queues and critical sections are modelled by what the program
  relies on. Which of several waiting tasks is woken is left open.
* Light control: `prvLightInit` is one write, `prvLightCntr` is not called.
* Formatting and layout of texts, but for the length of the units; `REFE`, the level of
  the sensor's pin, which is only printed; the counter of events, which nothing reads.
* `HD44780_GetSetting`, which hands out a pointer nobody uses.
* The tasks in full detail at once: `SpeedSystem` composes the interfaces of the
  other modules, not the modules. What a hanging delay does to the tasks is
  said by `DelayAlwaysReturns` and the fairness of `SpeedSystem`, not by a run.
* The FreeRTOS demo code, which is nearly all of the repository's 700 files: vendored
  sources for other boards and protocols, of which the program uses two headers. The
  modules cover the program; measured by the lines of the repository that is well
  below one per cent.
