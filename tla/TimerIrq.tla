------------------------------ MODULE TimerIrq ------------------------------
(***************************************************************************)
(* The control skeleton of timer1.c: the free-running counter T1TC, its    *)
(* interrupt flags T1IR, the interrupt handler vTimer1ISR and the busy     *)
(* wait DelayResolution100us, which the LCD task uses.  Module Timer1 adds *)
(* the data: the minute counter, the captured times and the queue.         *)
(*                                                                         *)
(* T1IR is a write-one-to-clear register.  "T1IR_bit.XXX = 1" compiles to  *)
(* load, set one bit, store: the store writes back a one for every flag    *)
(* that was pending at the load, so each of the three such statements of   *)
(* the handler clears ALL pending flags, not the one it names.  The load   *)
(* and the store are one step here: a flag raised between them survives,   *)
(* as does one raised just after the step.                                 *)
(*                                                                         *)
(* The handler is cut where the hardware can be seen to move under it:     *)
(* one step for each "if" of the handler that ends in a store to T1IR, and *)
(* two for the capture, whose time is read well before its flag is         *)
(* cleared.                                                                *)
(***************************************************************************)
EXTENDS Integers

CONSTANTS
  TicksPerMinute,  \* timer1_TICKS_PER_MINUTE, 0xD2F00000
  Delays,          \* the arguments of DelayResolution100us, in timer ticks
  MaxLag           \* ticks from a timer interrupt being pending, or masked
                   \* by a critical section, to the end of its handler

(* A delay is longer than the interrupt latency (the shortest is 5898      *)
(* ticks), and a minute longer than a delay and a latency.                 *)
ASSUME TimingAssumption ==
  /\ TicksPerMinute \in Nat \ {0}
  /\ MaxLag \in Nat \ {0}
  /\ Delays \subseteq Nat
  /\ \A d \in Delays : MaxLag < d /\ d + MaxLag < TicksPerMinute

VARIABLES
  tc,      \* T1TC
  ir,      \* T1IR: the set of pending flags
  mr1,     \* T1MR1
  mr1Int,  \* T1MCR_bit.MR1INT
  isr,     \* where vTimer1ISR is: "out", or the next block it executes
  lag,     \* ticks since the handler became due, or its interrupt masked
  delay,   \* where DelayResolution100us is: "out", "arm" or "spin"
  drStop,  \* its local DRstop, 0 while it has none
  active   \* DelayResolution100usActive

hwVars    == <<tc, ir>>
matchVars == <<mr1, mr1Int>>
taskVars  == <<delay, drStop>>
irqVars   == <<tc, ir, mr1, mr1Int, isr, lag, delay, drStop, active>>

Flags == {"MR0", "MR1", "CR2"}

TickCounts == 0 .. TicksPerMinute - 1

IrqTypeOK ==
  /\ tc \in TickCounts
  /\ ir \subseteq Flags
  /\ mr1 \in Nat
  /\ mr1Int \in BOOLEAN
  /\ isr \in {"out", "mr1", "cr2", "store"}
  /\ lag \in 0 .. MaxLag
  /\ delay \in {"out", "arm", "spin"}
  /\ drStop \in Nat
  /\ active \in BOOLEAN

(* After setupTimer1: counting from 0, MR0 interrupts and resets, MR1 does *)
(* neither, no flag pending, nobody waiting.                               *)
IrqInit ==
  /\ tc = 0
  /\ ir = {}
  /\ mr1 = 0
  /\ mr1Int = FALSE
  /\ isr = "out"
  /\ lag = 0
  /\ delay = "out"
  /\ drStop = 0
  /\ active = FALSE

-----------------------------------------------------------------------------
(* The hardware. *)

(* A faulty setup: T1MR0 loaded with timer1_TICKS_PER_MINUTE.              *)
NextTcOneLate == IF tc = TicksPerMinute THEN 0 ELSE tc + 1

HandlerDue == ir # {} \/ isr # "out" \/ delay = "arm"

NextTc == IF tc = TicksPerMinute - 1 THEN 0 ELSE tc + 1

Wraps == NextTc = 0

(* One timer tick.  The match with T1MR0 raises MR0 and resets the         *)
(* counter; the match with T1MR1 raises MR1 once it is enabled.            *)
IrqTick ==
  /\ HandlerDue => lag < MaxLag
  /\ tc' = NextTc
  /\ ir' = ir \cup (IF Wraps THEN {"MR0"} ELSE {})
              \cup (IF mr1Int /\ mr1 = NextTc THEN {"MR1"} ELSE {})
  /\ lag' = IF HandlerDue THEN lag + 1 ELSE 0
  /\ UNCHANGED <<matchVars, isr, taskVars, active>>

(* A falling edge of the wheel sensor: T1CR2 takes T1TC, CR2 is raised.    *)
IrqEdge ==
  /\ ir' = ir \cup {"CR2"}
  /\ UNCHANGED <<tc, matchVars, isr, lag, taskVars, active>>

-----------------------------------------------------------------------------
(* vTimer1ISR. *)

(* The store of a one to a bit of T1IR. *)
ClearFlags == ir' = {}

(* Faulty handlers: one without the test of MR0, and one with T1IR = MR0   *)
(* in place of the bit field.                                              *)
IrqServiceMR0Always ==
  /\ isr = "out" /\ ir # {} /\ delay # "arm"
  /\ ClearFlags
  /\ isr' = "mr1"
  /\ UNCHANGED <<tc, matchVars, lag, taskVars, active>>

IrqServiceMR0ClearsOne ==
  /\ isr = "out" /\ ir # {} /\ delay # "arm"
  /\ ir' = ir \ {"MR0"}
  /\ isr' = "mr1"
  /\ UNCHANGED <<tc, matchVars, lag, taskVars, active>>

(* The interrupt is taken unless masked by the critical section of the     *)
(* delay; the first block of the handler looks at MR0.                     *)
IrqServiceMR0 ==
  /\ isr = "out" /\ ir # {} /\ delay # "arm"
  /\ IF "MR0" \in ir THEN ClearFlags ELSE UNCHANGED ir
  /\ isr' = "mr1"
  /\ UNCHANGED <<tc, matchVars, lag, taskVars, active>>

(* A faulty handler: the test of MR1 is missing.                           *)
IrqServiceMR1Always ==
  /\ isr = "mr1"
  /\ ClearFlags
  /\ active' = FALSE
  /\ isr' = "cr2"
  /\ UNCHANGED <<tc, matchVars, lag, taskVars>>

(* A faulty handler: T1IR = MR0 in the delay's block leaves the match.     *)
IrqServiceMR1LeavesMatch ==
  /\ isr = "mr1"
  /\ IF "MR1" \in ir
     THEN ir' = ir \ {"MR0"} /\ active' = FALSE
     ELSE UNCHANGED <<ir, active>>
  /\ isr' = "cr2"
  /\ UNCHANGED <<tc, matchVars, lag, taskVars>>

(* The delay's block of the handler: it writes MR0INT, which clears MR1    *)
(* too, and ends the delay.                                                *)
IrqServiceMR1 ==
  /\ isr = "mr1"
  /\ IF "MR1" \in ir
     THEN ClearFlags /\ active' = FALSE
     ELSE UNCHANGED <<ir, active>>
  /\ isr' = "cr2"
  /\ UNCHANGED <<tc, matchVars, lag, taskVars>>

(* The capture's block: its time and the minute are read first ...         *)
IrqReadCapture ==
  /\ isr = "cr2" /\ "CR2" \in ir
  /\ isr' = "store"
  /\ UNCHANGED <<hwVars, matchVars, lag, taskVars, active>>

(* A faulty handler: T1IR = CR2 in place of the bit field.                 *)
IrqStoreCaptureClearsOne ==
  /\ isr = "store"
  /\ ir' = ir \ {"CR2"}
  /\ isr' = "out"
  /\ lag' = 0
  /\ UNCHANGED <<tc, matchVars, taskVars, active>>

(* ... the element is queued and the flag cleared later.                   *)
IrqStoreCapture ==
  /\ isr = "store"
  /\ ClearFlags
  /\ isr' = "out"
  /\ lag' = 0
  /\ UNCHANGED <<tc, matchVars, taskVars, active>>

IrqNoCapture ==
  /\ isr = "cr2" /\ "CR2" \notin ir
  /\ isr' = "out"
  /\ lag' = 0
  /\ UNCHANGED <<hwVars, matchVars, taskVars, active>>

-----------------------------------------------------------------------------
(* DelayResolution100us, called by the LCD task only.  A task runs when no *)
(* handler does.                                                           *)

(* portENTER_CRITICAL, DRstart = T1TC and DRstop.                          *)
IrqDelayBegin(d) ==
  /\ delay = "out" /\ isr = "out"
  /\ delay' = "arm"
  /\ drStop' = tc + d
  /\ UNCHANGED <<hwVars, matchVars, isr, lag, active>>

(* A faulty delay: it does not enable the match interrupt.                 *)
IrqDelayArmNoInterrupt ==
  /\ delay = "arm"
  /\ delay' = "spin"
  /\ mr1' = drStop
  /\ active' = TRUE
  /\ drStop' = 0
  /\ lag' = IF ir = {} THEN 0 ELSE lag
  /\ UNCHANGED <<hwVars, isr, mr1Int>>

(* T1MR1, the match interrupt, the flag, portEXIT_CRITICAL.                *)
IrqDelayArm ==
  /\ delay = "arm"
  /\ delay' = "spin"
  /\ mr1' = drStop
  /\ mr1Int' = TRUE
  /\ active' = TRUE
  /\ drStop' = 0
  /\ lag' = IF ir = {} THEN 0 ELSE lag
  /\ UNCHANGED <<hwVars, isr>>

(* while (DelayResolution100usActive); falls through.                      *)
IrqDelayReturn ==
  /\ delay = "spin" /\ isr = "out" /\ ~active
  /\ delay' = "out"
  /\ UNCHANGED <<hwVars, matchVars, isr, lag, drStop, active>>

-----------------------------------------------------------------------------
IrqHandler ==
  \/ IrqServiceMR0 \/ IrqServiceMR1
  \/ IrqReadCapture \/ IrqStoreCapture \/ IrqNoCapture

IrqNext ==
  \/ IrqTick
  \/ IrqEdge
  \/ IrqHandler
  \/ \E d \in Delays : IrqDelayBegin(d)
  \/ IrqDelayArm
  \/ IrqDelayReturn

(* The counter runs, a pending interrupt is served, and a task that is     *)
(* inside the delay is the running task: it has the highest priority of    *)
(* the program, so only the handler takes the processor from it.  It is    *)
(* strong fairness for the return because the handler may come between any *)
(* two of the task's instructions, though never between all of them.       *)
(* Nothing obliges the wheel to turn or a task to ask for a delay.         *)
IrqFairness ==
  /\ WF_irqVars(IrqTick)
  /\ WF_irqVars(IrqHandler)
  /\ WF_irqVars(IrqDelayArm)
  /\ SF_irqVars(IrqDelayReturn)

IrqSpec == IrqInit /\ [][IrqNext]_irqVars /\ IrqFairness

-----------------------------------------------------------------------------
(* When the wheel has stopped, a delay whose end lies in the current       *)
(* minute, and not in its last MaxLag ticks, ends: a match that was wiped  *)
(* out together with another flag comes back one minute later.  What makes *)
(* it true is that no store to T1IR can wipe it out again: MR0 is served   *)
(* before the match, and the match before MR0.                             *)
EndsInThisMinute == delay = "spin" /\ mr1 + MaxLag < TicksPerMinute

WheelStops == <>[]("CR2" \notin ir)

DelayReturnsOnceWheelStops ==
  WheelStops => (EndsInThisMinute ~> delay = "out")

(* From some time on no minute ends while a match is pending: the minute's *)
(* block of the handler wipes no match out.                                *)
MatchTakenAlone == <>[](~({"MR0", "MR1"} \subseteq ir))

(* "Want delay of 100 us" (timer1.c): every delay ends once it was asked   *)
(* for, at the latest when the wheel has stopped and the end of a minute   *)
(* does not come between a match and its service.                          *)
DelayAlwaysReturns ==
  WheelStops /\ MatchTakenAlone => (delay = "spin" ~> delay = "out")
=============================================================================
