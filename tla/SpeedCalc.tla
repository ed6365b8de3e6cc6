----------------------------- MODULE SpeedCalc -----------------------------
(***************************************************************************)
(* The calculation of speed.c: prvSpeedCalc with its ring of the last four *)
(* wheel rotations, and what vSpeedTask puts on the two lines of the       *)
(* display.  The rotations come from timer1.c as RotationSource says,      *)
(* which module Timer1 implements.                                         *)
(*                                                                         *)
(* A rotation carries its true minute besides the code's fields; only the  *)
(* properties read it.                                                     *)
(***************************************************************************)
EXTENDS Unsigned, Sequences

CONSTANTS
  tick_Hz,           \* configCPU_CLOCK_HZ, 58982400
  StartWord,         \* the values of start, 2^32 in the code
  TooSmallTickDiff,  \* TOO_SMALL_TICK_DIFF, 58982
  Captures,          \* bound: the times of a minute at which edges fall
  MaxMinutes         \* bound: the minutes the model lasts

prvHMAX == 4

TicksPerMinute == 60 * tick_Hz

ASSUME SpeedCalcAssumption ==
  /\ tick_Hz \in Nat \ {0}
  /\ TicksPerMinute < Word
  /\ StartWord \in Nat \ {0} /\ StartWord % prvHMAX = 0
  /\ TooSmallTickDiff \in Nat
  /\ Captures \subseteq 0 .. TicksPerMinute - 1
  /\ MaxMinutes \in Nat /\ MaxMinutes < Word

VARIABLES
  prvHistory,
  start,
  missing,
  tick_diff_sum,  \* of the last calculation, NoSum if it showed no speed
  line1,          \* prvSpeedToShowLine1: which of the texts
  line2,          \* prvSpeedToShowLine2: the text and its numbers
  last            \* the last rotation sent by timer1.c

ringVars == <<prvHistory, start, missing>>
lineVars == <<line1, line2, tick_diff_sum>>
vars == <<ringVars, lineVars, last>>

Slots == 0 .. prvHMAX - 1

Source == INSTANCE RotationSource

Rotation == Source!Rotation

(* An entry of prvInitHistory, with timer1_speedINVALID_TSE_MINUTE_COUNT.  *)
NoRotation == [minuteCount |-> -1, captureCount |-> 0, minute |-> 0]

NoSum == -1

TypeOK ==
  /\ prvHistory \in [Slots -> Rotation \cup {NoRotation}]
  /\ start \in 0 .. StartWord - 1
  /\ missing \in 0 .. prvHMAX
  /\ tick_diff_sum \in Nat \cup {NoSum}
  /\ line1 \in {"---", "Missing values", "Invalid mC diff.", "rpm rps",
                "Sensor timeout."}
  /\ line2 \in [text : {"==="}]
            \cup [text : {"missing"}, n : 1 .. prvHMAX - 1]
            \cup [text : {"mC diff"}, n : UInt]
            \cup [text : {"speed"}, rpm : UInt, rpsx100 : UInt]
  /\ last \in Rotation

Init ==
  /\ prvHistory = [i \in Slots |-> NoRotation]
  /\ start = 0
  /\ missing = prvHMAX
  /\ tick_diff_sum = NoSum
  /\ line1 = "---"
  /\ line2 = [text |-> "==="]
  /\ last = Source!Beginning

-----------------------------------------------------------------------------
(* The sum over the ring h whose oldest entry is at s.                     *)

Mask(i) == i % prvHMAX

H0(h, s, j) == h[Mask(s + j)]

(* A faulty pair: the entry half a ring on is not taken.                   *)
H1IsH0(h, s, j) == h[Mask(s + j)]

H1(h, s, j) == h[Mask(s + prvHMAX \div 2 + j)]

MinuteDiff(h, s, j) == USub(H1(h, s, j).minuteCount, H0(h, s, j).minuteCount)

(* A faulty switch: a break between case 2 and case 1.                     *)
TickDiffNoFallThrough(h, s, j) ==
  (IF MinuteDiff(h, s, j) = 0 THEN 0 ELSE TicksPerMinute)
    + USub(H1(h, s, j).captureCount, H0(h, s, j).captureCount)

(* The switch: two minutes' ticks, one or none, and the difference of the  *)
(* captures, which is taken in 32 bits.                                    *)
TickDiff(h, s, j) ==
  MinuteDiff(h, s, j) * TicksPerMinute
    + USub(H1(h, s, j).captureCount, H0(h, s, j).captureCount)

Invalid(h, s) == {j \in 0 .. prvHMAX \div 2 - 1 : MinuteDiff(h, s, j) > 2}

Sum(h, s) == TickDiff(h, s, 0) + TickDiff(h, s, 1)

(* The quotient as uint32_t; by zero, what the library's division leaves.  *)
Quotient(a, b) == IF b = 0 THEN {0, Word - 1} ELSE {(a \div b) % Word}

(* What prvSpeedCalc does once the ring is full: the first pair of entries *)
(* too many minutes apart ends it.                                         *)
Calculate(h, s) ==
  IF Invalid(h, s) # {}
  THEN /\ line1' = "Invalid mC diff."
       /\ line2' = [text |-> "mC diff",
                    n |-> MinuteDiff(h, s, IF 0 \in Invalid(h, s) THEN 0 ELSE 1)]
       /\ tick_diff_sum' = NoSum
  ELSE LET average == (Sum(h, s) \div (prvHMAX \div 2)) \div (prvHMAX \div 2)
       IN  /\ line1' = "rpm rps"
           /\ \E r \in Quotient(TicksPerMinute, average),
                 x \in Quotient(100 * tick_Hz, average) :
                line2' = [text |-> "speed", rpm |-> r, rpsx100 |-> x]
           /\ tick_diff_sum' = Sum(h, s)

-----------------------------------------------------------------------------
(* prvSpeedCalc. *)

(* A faulty test: "0 < missing".                                           *)
FillOneMore(e) ==
  /\ missing > 0
  /\ prvHistory' = [prvHistory EXCEPT ![start + prvHMAX - missing] = e]
  /\ missing' = missing - 1
  /\ line1' = "Missing values"
  /\ line2' = [text |-> "missing", n |-> missing']
  /\ tick_diff_sum' = NoSum
  /\ UNCHANGED start

(* Filling up history.                                                     *)
Fill(e) ==
  /\ missing > 1
  /\ prvHistory' = [prvHistory EXCEPT ![start + prvHMAX - missing] = e]
  /\ missing' = missing - 1
  /\ line1' = "Missing values"
  /\ line2' = [text |-> "missing", n |-> missing']
  /\ tick_diff_sum' = NoSum
  /\ UNCHANGED start

FillLast(e) ==
  /\ missing = 1
  /\ prvHistory' = [prvHistory EXCEPT ![start + prvHMAX - missing] = e]
  /\ missing' = 0
  /\ Calculate(prvHistory', start)
  /\ UNCHANGED start

(* start++, as uint32_t.                                                   *)
NextStart == IF start + 1 = StartWord THEN 0 ELSE start + 1

(* A faulty ring: start is stepped before the entry is stored.             *)
ReplaceNext(e) ==
  /\ missing = 0
  /\ prvHistory' = [prvHistory EXCEPT ![Mask(NextStart)] = e]
  /\ start' = NextStart
  /\ Calculate(prvHistory', start')
  /\ UNCHANGED missing

(* The oldest entry is overwritten and the next one is the oldest.         *)
Replace(e) ==
  /\ missing = 0
  /\ prvHistory' = [prvHistory EXCEPT ![Mask(start)] = e]
  /\ start' = NextStart
  /\ Calculate(prvHistory', start')
  /\ UNCHANGED missing

(* A rotation is received. *)
Update(e) ==
  /\ Source!HandOver(e)
  /\ Fill(e) \/ FillLast(e) \/ Replace(e)

(* No rotation for a second: only the first line says so.                  *)
Timeout ==
  /\ line1' = "Sensor timeout."
  /\ UNCHANGED <<ringVars, line2, tick_diff_sum, last>>

Next ==
  \/ \E m \in last.minute .. MaxMinutes, c \in Captures : \E l \in 0 .. m :
       Update([minuteCount |-> m - l, captureCount |-> c, minute |-> m])
  \/ Timeout

Spec == Init /\ [][Next]_vars

-----------------------------------------------------------------------------
(* The ring, read from its oldest entry.                                   *)
Window == [i \in 1 .. prvHMAX - missing |-> prvHistory[Mask(start + i - 1)]]

(* However often the ring and start have wrapped around, the ring holds    *)
(* the last four rotations and the calculation reads them in their order.  *)
SW == INSTANCE SlidingWindow WITH window <- Window, size <- prvHMAX

KeepsLastRotations == SW!WindowSpec

(* The time from one rotation of the window to another.                    *)
TrueDiff(i, j) ==
  (Window[j].minute - Window[i].minute) * TicksPerMinute
    + Window[j].captureCount - Window[i].captureCount

TrueSum == TrueDiff(1, 3) + TrueDiff(2, 4)

NoneLostInWindow ==
  \A i, j \in 1 .. Len(Window) :
    Source!Loss(Window[i]) = Source!Loss(Window[j])

(* What the calculation makes of it, besides: 2^32 ticks too many if the   *)
(* capture goes back, and too few by the minutes lost in between.          *)
Error(i, j) ==
  (IF Window[j].captureCount < Window[i].captureCount THEN Word ELSE 0)
    - (Source!Loss(Window[j]) - Source!Loss(Window[i])) * TicksPerMinute

(* The sum is the time of the pairs of rotations two apart, and their      *)
(* errors are all that is wrong with it: no order of rotations, ends of    *)
(* minutes, lost minutes and turns of the ring brings another one in.      *)
SumErrorExact ==
  tick_diff_sum # NoSum =>
    tick_diff_sum = TrueSum + Error(1, 3) + Error(2, 4)

(* The average the speed is divided by is zero only if a minute was lost.  *)
DividesByZeroOnlyIfLost ==
  tick_diff_sum # NoSum /\ NoneLostInWindow => tick_diff_sum >= prvHMAX

(* "Time for one rev in seconds is tick_diff / tick rate" (timer1.h): the  *)
(* sum is the time of the pairs, whenever no minute was lost among them.   *)
SumIsTime ==
  tick_diff_sum # NoSum /\ NoneLostInWindow => tick_diff_sum = TrueSum
=============================================================================
