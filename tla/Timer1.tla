------------------------------- MODULE Timer1 -------------------------------
(***************************************************************************)
(* timer1.c with its data: TimerIrq's steps, and what each of them does to *)
(* the minute counter, the capture register, the glitch filter and the     *)
(* queue timeStore that takes each wheel rotation to the speed task.       *)
(*                                                                         *)
(* Three variables are not in the code: the minutes that have really       *)
(* passed, the minute the last edge fell in, and the last element that was *)
(* received.  They say what the code's values ought to be, and no guard    *)
(* but the bound on the model's horizon reads them.                        *)
(***************************************************************************)
EXTENDS TimerIrq, Unsigned, Sequences

CONSTANTS
  TooSmallTickDiff,  \* TOO_SMALL_TICK_DIFF, 58982
  timeStoreLength,   \* 128
  MaxMinutes         \* bound: the minutes the model lasts

(* DRstop = DRstart + Delay does not wrap around: 2^32 exceeds a minute by *)
(* 300 times the longest delay of the program.                             *)
ASSUME Timer1Assumption ==
  /\ \A d \in Delays : TicksPerMinute + d <= Word
  /\ TicksPerMinute <= Word
  /\ TooSmallTickDiff \in Nat
  /\ timeStoreLength \in Nat \ {0}
  /\ MaxMinutes \in Nat

VARIABLES
  cr2,                 \* T1CR2
  timer1MinuteCount,
  prvTse,              \* the local of vTimer1ISR, NoElement outside it
  prvPreviousCapture,
  timeStore,           \* the queue's contents
  minutes,             \* MR0 matches so far
  cr2Minute,           \* minutes, when T1CR2 was captured
  last                 \* the last element the speed task received

dataVars  == <<timer1MinuteCount, prvTse, prvPreviousCapture, timeStore>>
edgeVars  == <<cr2, cr2Minute>>
vars == <<irqVars, dataVars, edgeVars, minutes, last>>

Source == INSTANCE RotationSource

Element == Source!Rotation

NoElement == Source!Beginning

TypeOK ==
  /\ IrqTypeOK
  /\ cr2 \in TickCounts
  /\ timer1MinuteCount \in Nat
  /\ prvTse \in Element
  /\ prvPreviousCapture \in TickCounts
  /\ timeStore \in Seq(Element)
  /\ Len(timeStore) <= timeStoreLength
  /\ minutes \in 0 .. MaxMinutes
  /\ cr2Minute \in Nat
  /\ last \in Element

Init ==
  /\ IrqInit
  /\ cr2 = 0
  /\ timer1MinuteCount = 0
  /\ prvTse = NoElement
  /\ prvPreviousCapture = 0
  /\ timeStore = <<>>
  /\ minutes = 0
  /\ cr2Minute = 0
  /\ last = NoElement

-----------------------------------------------------------------------------
Tick ==
  /\ IrqTick
  /\ Wraps => minutes < MaxMinutes
  /\ minutes' = IF Wraps THEN minutes + 1 ELSE minutes
  /\ UNCHANGED <<dataVars, edgeVars, last>>

Edge ==
  /\ IrqEdge
  /\ cr2' = tc
  /\ cr2Minute' = minutes
  /\ UNCHANGED <<dataVars, minutes, last>>

(* A faulty handler: every interrupt counts a minute.                      *)
ServiceMR0Unguarded ==
  /\ IrqServiceMR0
  /\ timer1MinuteCount' = timer1MinuteCount + 1
  /\ UNCHANGED <<prvTse, prvPreviousCapture, timeStore, edgeVars,
                 minutes, last>>

ServiceMR0 ==
  /\ IrqServiceMR0
  /\ timer1MinuteCount' =
       IF "MR0" \in ir THEN timer1MinuteCount + 1 ELSE timer1MinuteCount
  /\ UNCHANGED <<prvTse, prvPreviousCapture, timeStore, edgeVars,
                 minutes, last>>

ServiceMR1 ==
  /\ IrqServiceMR1
  /\ UNCHANGED <<dataVars, edgeVars, minutes, last>>

ReadCapture ==
  /\ IrqReadCapture
  /\ prvTse' = [minuteCount  |-> timer1MinuteCount,
                captureCount |-> cr2,
                minute       |-> cr2Minute]
  /\ UNCHANGED <<timer1MinuteCount, prvPreviousCapture, timeStore, edgeVars,
                 minutes, last>>

(* A faulty filter: one tick too generous.                                 *)
NotTooCloseByOne ==
  USub(prvTse.captureCount, prvPreviousCapture) >= TooSmallTickDiff

(* The filter for glitches: a capture too close to the last one that       *)
(* passed it is ignored.                                                   *)
NotTooClose ==
  USub(prvTse.captureCount, prvPreviousCapture) > TooSmallTickDiff

(* Faulty queues: no test for room, and a send to the front.               *)
SendFromISRUnbounded(q, e) == Append(q, e)

SendFromISRToFront(q, e) == IF Len(q) < timeStoreLength THEN <<e>> \o q ELSE q

(* xQueueSendFromISR: a full queue drops the element, silently.            *)
SendFromISR(q, e) == IF Len(q) < timeStoreLength THEN Append(q, e) ELSE q

(* The element that passes becomes the filter's reference even if the      *)
(* queue had no room for it.                                               *)
StoreCapture ==
  /\ IrqStoreCapture
  /\ IF NotTooClose
     THEN /\ timeStore' = SendFromISR(timeStore, prvTse)
          /\ prvPreviousCapture' = prvTse.captureCount
     ELSE UNCHANGED <<timeStore, prvPreviousCapture>>
  /\ prvTse' = NoElement
  /\ UNCHANGED <<timer1MinuteCount, edgeVars, minutes, last>>

NoCapture ==
  /\ IrqNoCapture
  /\ UNCHANGED <<dataVars, edgeVars, minutes, last>>

DelayBegin(d) ==
  /\ IrqDelayBegin(d)
  /\ UNCHANGED <<dataVars, edgeVars, minutes, last>>

DelayArm ==
  /\ IrqDelayArm
  /\ UNCHANGED <<dataVars, edgeVars, minutes, last>>

DelayReturn ==
  /\ IrqDelayReturn
  /\ UNCHANGED <<dataVars, edgeVars, minutes, last>>

(* xQueueReceive in the speed task, which has a lower priority than the    *)
(* LCD task and gets no time while that one is in a delay.                 *)
TakeElement ==
  /\ isr = "out" /\ delay = "out"
  /\ timeStore # <<>>
  /\ timeStore' = Tail(timeStore)
  /\ last' = Head(timeStore)
  /\ UNCHANGED <<irqVars, timer1MinuteCount, prvTse, prvPreviousCapture,
                 edgeVars, minutes>>

-----------------------------------------------------------------------------
Next ==
  \/ Tick
  \/ Edge
  \/ ServiceMR0
  \/ ServiceMR1
  \/ ReadCapture
  \/ StoreCapture
  \/ NoCapture
  \/ \E d \in Delays : DelayBegin(d)
  \/ DelayArm
  \/ DelayReturn
  \/ TakeElement

Spec == Init /\ [][Next]_vars

-----------------------------------------------------------------------------
(* The minute counter counts no minute twice and none too early, though    *)
(* its increment and the clearing of its flag are far from the match.      *)
MinuteCountNeverAhead ==
  timer1MinuteCount + (IF "MR0" \in ir THEN 1 ELSE 0) <= minutes

(* No element is stamped with a minute later than the one its edge fell    *)
(* in.  The handler counts the minute before it looks at the capture, so   *)
(* an edge just before the minute's end would be stamped with the next     *)
(* minute; what prevents it is that the minute's block wipes out the       *)
(* capture's flag together with its own.                                   *)
StampNeverLate ==
  \A i \in 1 .. Len(timeStore) :
    timeStore[i].minuteCount <= timeStore[i].minute

(* The elements are in the order of their edges, and two from the same     *)
(* minute are further apart than the glitch filter asks, even if others    *)
(* between them were dropped because the queue was full.                   *)
StoredInOrderAndSpaced ==
  \A i, j \in 1 .. Len(timeStore) :
    i < j => Source!Spaced(timeStore[i], timeStore[j])

(* A minute that is missing from a stamp is missing from all later ones:   *)
(* no rotation is stamped a minute short whose minute is counted after     *)
(* all, and the stamps do not go back.  The calculation of the speed,      *)
(* which subtracts stamps, can thus only find pairs of rotations too close *)
(* in time, never too far apart.                                           *)
LossOnlyGrows ==
  \A i, j \in 1 .. Len(timeStore) :
    i < j => Source!LossKept(timeStore[i], timeStore[j])

(* All this holds from each rotation that is received to the next, with    *)
(* the queue empty between them, or overflown, and from the beginning to   *)
(* the first.                                                              *)
HandsOverInOrder == Source!SourceSpec

-----------------------------------------------------------------------------
(* What the comments of the code say, and its handler does not keep.       *)

(* "Minute count", "MatchRegister - one minute" (timer1.c): a minute that  *)
(* has passed is counted or about to be.                                   *)
NoMinuteLost ==
  timer1MinuteCount + (IF "MR0" \in ir THEN 1 ELSE 0) = minutes

(* "ignoring tick_diff <= 58982" (timer1.h): no two stored rotations are   *)
(* that close, the end of a minute between them or not.                    *)
GlitchesIgnored ==
  \A i \in 1 .. Len(timeStore) - 1 :
    TicksPerMinute * (timeStore[i + 1].minute - timeStore[i].minute)
      + timeStore[i + 1].captureCount - timeStore[i].captureCount
        > TooSmallTickDiff
=============================================================================
