---------------------------- MODULE Timer1Proofs ----------------------------
(***************************************************************************)
(* Proofs about Timer1 for every length of a minute, every set of delays,  *)
(* every queue length and every horizon.                                   *)
(*                                                                         *)
(* Each invariant is proved on top of TypeOK.  Those that are not          *)
(* inductive are strengthened here: CapturesInTime for the stamps,         *)
(* FilterReference for the glitch filter and LossSoFar for the minutes     *)
(* that stamps are short of.  The last two, which also tie the queue to    *)
(* the element that was received last, make Timer1 implement               *)
(* RotationSource.                                                         *)
(***************************************************************************)
EXTENDS Timer1, SequenceTheorems, TLAPS

(* What most steps need of the assumptions on the constants.               *)
LEMMA ConstantTypes ==
  /\ TicksPerMinute \in Nat /\ TicksPerMinute > 0
  /\ MaxLag \in Nat /\ MaxMinutes \in Nat
  /\ TooSmallTickDiff \in Nat
  /\ timeStoreLength \in Nat /\ timeStoreLength > 0
<1>1. TicksPerMinute \in Nat \ {0} /\ MaxLag \in Nat \ {0}
  BY TimingAssumption
<1>2. TooSmallTickDiff \in Nat /\ timeStoreLength \in Nat \ {0}
      /\ MaxMinutes \in Nat
  BY Timer1Assumption
<1> QED
  BY <1>1, <1>2

LEMMA ElementFields ==
  /\ \A e \in Element : /\ e.minuteCount \in Nat /\ e.minute \in Nat
                         /\ e.captureCount \in 0 .. TicksPerMinute - 1
  /\ NoElement \in Element
  /\ NoElement.minuteCount = 0 /\ NoElement.captureCount = 0
  /\ NoElement.minute = 0
BY ConstantTypes DEF Element, NoElement, Source!Rotation, Source!Beginning

(* The queue after a send from the handler: it is still a queue of         *)
(* elements no longer than timeStoreLength, with the old elements where    *)
(* they were and at most the new one behind them.                          *)
LEMMA SendFromISRProperties ==
  ASSUME NEW q \in Seq(Element), Len(q) <= timeStoreLength,
         NEW e \in Element
  PROVE  /\ SendFromISR(q, e) \in Seq(Element)
         /\ Len(SendFromISR(q, e)) <= timeStoreLength
         /\ \A i \in 1 .. Len(SendFromISR(q, e)) :
              \/ i \in 1 .. Len(q) /\ SendFromISR(q, e)[i] = q[i]
              \/ i = Len(q) + 1 /\ SendFromISR(q, e)[i] = e
<1>a. Len(q) \in Nat
  BY LenProperties
<1>1. CASE Len(q) < timeStoreLength
  <2>1. SendFromISR(q, e) = Append(q, e)
    BY <1>1 DEF SendFromISR
  <2>2. /\ Append(q, e) \in Seq(Element)
        /\ Len(Append(q, e)) = Len(q) + 1
        /\ \A i \in 1 .. Len(q) : Append(q, e)[i] = q[i]
        /\ Append(q, e)[Len(q) + 1] = e
    BY AppendProperties
  <2> QED
    BY <1>a, <1>1, <2>1, <2>2, ConstantTypes
<1>2. CASE Len(q) >= timeStoreLength
  BY <1>a, <1>2, ConstantTypes DEF SendFromISR
<1> QED
  BY <1>a, <1>1, <1>2, ConstantTypes

(* Every variable's value stays in its type; for the queue this says that  *)
(* the interrupt handler never overfills it.                               *)
THEOREM TypeCorrect == Spec => []TypeOK
<1>1. Init => TypeOK
  <2> SUFFICES ASSUME Init PROVE TypeOK
    OBVIOUS
  <2>1. /\ timeStore \in Seq(Element)
        /\ Len(timeStore) <= timeStoreLength
    BY EmptySeq, ConstantTypes DEF Init
  <2>2. prvTse \in Element /\ last \in Element
    BY ElementFields DEF Init
  <2>3. mr1Int \in BOOLEAN /\ active \in BOOLEAN
    BY Zenon DEF Init, IrqInit
  <2>4. /\ tc \in TickCounts /\ ir \subseteq Flags /\ mr1 \in Nat
        /\ isr \in {"out", "mr1", "cr2", "store"} /\ lag \in 0 .. MaxLag
        /\ delay \in {"out", "arm", "spin"} /\ drStop \in Nat
    BY ConstantTypes DEF Init, IrqInit, TickCounts
  <2>5. /\ cr2 \in TickCounts /\ timer1MinuteCount \in Nat
        /\ prvPreviousCapture \in TickCounts /\ minutes \in 0 .. MaxMinutes
        /\ cr2Minute \in Nat
    BY ConstantTypes DEF Init, TickCounts
  <2> QED
    BY <2>1, <2>2, <2>3, <2>4, <2>5 DEF TypeOK, IrqTypeOK
<1>2. TypeOK /\ [Next]_vars => TypeOK'
  <2> SUFFICES ASSUME TypeOK, [Next]_vars PROVE TypeOK'
    OBVIOUS
  <2> USE ConstantTypes
      DEF TypeOK, IrqTypeOK, TickCounts, Flags, hwVars, matchVars, taskVars, irqVars,
          dataVars, edgeVars
  <2>1. CASE Tick
    BY <2>1 DEF Tick, IrqTick, NextTc, Wraps, HandlerDue
  <2>2. CASE Edge
    BY <2>2 DEF Edge, IrqEdge
  <2>3. CASE ServiceMR0
    <3>1. timer1MinuteCount' \in Nat
      BY <2>3 DEF ServiceMR0
    <3>2. ir' \subseteq Flags
      BY <2>3 DEF ServiceMR0, IrqServiceMR0, ClearFlags
    <3> QED
      BY <2>3, <3>1, <3>2 DEF ServiceMR0, IrqServiceMR0
  <2>4. CASE ServiceMR1
    BY <2>4 DEF ServiceMR1, IrqServiceMR1, ClearFlags
  <2>5. CASE ReadCapture
    BY <2>5 DEF ReadCapture, IrqReadCapture, Element, Source!Rotation
  <2>6. CASE StoreCapture
    <3>1. timeStore' \in Seq(Element) /\ Len(timeStore') <= timeStoreLength
      <4>1. /\ timeStore \in Seq(Element) /\ Len(timeStore) <= timeStoreLength
            /\ prvTse \in Element
        OBVIOUS
      <4>2. \/ timeStore' = SendFromISR(timeStore, prvTse)
            \/ timeStore' = timeStore
        BY <2>6 DEF StoreCapture
      <4> HIDE DEF TypeOK
      <4> QED
        BY <4>1, <4>2, SendFromISRProperties
    <3>2. prvTse' \in Element
      BY <2>6, ElementFields DEF StoreCapture
    <3>3. prvPreviousCapture' \in 0 .. TicksPerMinute - 1
      BY <2>6, ElementFields DEF StoreCapture
    <3> QED
      BY <2>6, <3>1, <3>2, <3>3
      DEF StoreCapture, IrqStoreCapture, ClearFlags
  <2>7. CASE NoCapture
    BY <2>7 DEF NoCapture, IrqNoCapture
  <2>8. ASSUME NEW d \in Delays, DelayBegin(d) PROVE TypeOK'
    BY <2>8, TimingAssumption DEF DelayBegin, IrqDelayBegin
  <2>9. CASE DelayArm
    BY <2>9 DEF DelayArm, IrqDelayArm
  <2>10. CASE DelayReturn
    BY <2>10 DEF DelayReturn, IrqDelayReturn
  <2>11. CASE TakeElement
    <3>1. /\ timeStore' \in Seq(Element) /\ last' \in Element
          /\ Len(timeStore') <= timeStoreLength
      BY <2>11, HeadTailProperties, LenProperties DEF TakeElement
    <3> QED
      BY <2>11, <3>1 DEF TakeElement
  <2>12. CASE UNCHANGED vars
    BY <2>12 DEF vars
  <2> QED
    BY <2>1, <2>2, <2>3, <2>4, <2>5, <2>6, <2>7, <2>8, <2>9, <2>10, <2>11,
       <2>12 DEF Next
<1> QED
  BY <1>1, <1>2, PTL DEF Spec

-----------------------------------------------------------------------------
(* The minute counter counts no minute twice and none before it has        *)
(* passed: between the match and the handler its flag stands for it.       *)
THEOREM MinuteCountCorrect == Spec => []MinuteCountNeverAhead
<1>1. Init => MinuteCountNeverAhead
  BY DEF Init, IrqInit, MinuteCountNeverAhead
<1>2. TypeOK /\ MinuteCountNeverAhead /\ [Next]_vars => MinuteCountNeverAhead'
  <2> SUFFICES ASSUME TypeOK, MinuteCountNeverAhead, [Next]_vars
               PROVE  MinuteCountNeverAhead'
    OBVIOUS
  <2>a. timer1MinuteCount \in Nat /\ minutes \in Nat
    BY ConstantTypes DEF TypeOK
  <2> USE <2>a DEF MinuteCountNeverAhead
  <2>1. CASE Tick
    BY <2>1 DEF Tick, IrqTick, dataVars
  <2>2. CASE Edge
    BY <2>2 DEF Edge, IrqEdge, dataVars
  <2>3. CASE ServiceMR0
    <3>1. CASE "MR0" \in ir
      BY <2>3, <3>1 DEF ServiceMR0, IrqServiceMR0, ClearFlags
    <3>2. CASE "MR0" \notin ir
      BY <2>3, <3>2 DEF ServiceMR0, IrqServiceMR0
    <3> QED
      BY <3>1, <3>2
  <2>4. CASE ServiceMR1
    BY <2>4 DEF ServiceMR1, IrqServiceMR1, ClearFlags, dataVars
  <2>5. CASE ReadCapture
    BY <2>5 DEF ReadCapture, IrqReadCapture, hwVars
  <2>6. CASE StoreCapture
    BY <2>6 DEF StoreCapture, IrqStoreCapture, ClearFlags
  <2>7. CASE NoCapture
    BY <2>7 DEF NoCapture, IrqNoCapture, hwVars, dataVars
  <2>8. ASSUME NEW d \in Delays, DelayBegin(d) PROVE MinuteCountNeverAhead'
    BY <2>8 DEF DelayBegin, IrqDelayBegin, hwVars, dataVars
  <2>9. CASE DelayArm
    BY <2>9 DEF DelayArm, IrqDelayArm, hwVars, dataVars
  <2>10. CASE DelayReturn
    BY <2>10 DEF DelayReturn, IrqDelayReturn, hwVars, dataVars
  <2>11. CASE TakeElement
    BY <2>11 DEF TakeElement, irqVars
  <2>12. CASE UNCHANGED vars
    BY <2>12 DEF vars, irqVars, dataVars
  <2> QED
    BY <2>1, <2>2, <2>3, <2>4, <2>5, <2>6, <2>7, <2>8, <2>9, <2>10, <2>11,
       <2>12 DEF Next
<1> QED
  BY <1>1, <1>2, TypeCorrect, PTL DEF Spec

-----------------------------------------------------------------------------
(* While a capture is pending, the minute its edge fell in has not been    *)
(* counted past: the handler cannot count a minute and leave a capture of  *)
(* the minute before it pending.  The element in the handler's hands has   *)
(* the same property as the queued ones.                                   *)
CapturesInTime ==
  /\ "CR2" \in ir => timer1MinuteCount <= cr2Minute
  /\ prvTse.minuteCount <= prvTse.minute
  /\ StampNeverLate

(* No element is stamped with a later minute than its edge's.              *)
THEOREM StampsCorrect == Spec => []StampNeverLate
<1>1. Init => CapturesInTime
  BY EmptySeq, ElementFields
  DEF Init, IrqInit, CapturesInTime, StampNeverLate
<1>2. TypeOK /\ MinuteCountNeverAhead /\ CapturesInTime /\ [Next]_vars
        => CapturesInTime'
  <2> SUFFICES ASSUME TypeOK, MinuteCountNeverAhead, CapturesInTime,
                      [Next]_vars
               PROVE  CapturesInTime'
    OBVIOUS
  <2>a. /\ timer1MinuteCount \in Nat /\ minutes \in Nat /\ cr2Minute \in Nat
        /\ timeStore \in Seq(Element) /\ Len(timeStore) <= timeStoreLength
        /\ prvTse \in Element
    BY ConstantTypes DEF TypeOK
  <2> USE <2>a DEF CapturesInTime, StampNeverLate
  <2>1. CASE Tick
    BY <2>1 DEF Tick, IrqTick, dataVars, edgeVars
  <2>2. CASE Edge
    <3>1. timer1MinuteCount <= minutes
      BY DEF MinuteCountNeverAhead
    <3> QED
      BY <2>2, <3>1 DEF Edge, IrqEdge, dataVars
  <2>3. CASE ServiceMR0
    <3>1. CASE "MR0" \in ir
      BY <2>3, <3>1 DEF ServiceMR0, IrqServiceMR0, ClearFlags
    <3>2. CASE "MR0" \notin ir
      BY <2>3, <3>2 DEF ServiceMR0, IrqServiceMR0, edgeVars
    <3> QED
      BY <3>1, <3>2
  <2>4. CASE ServiceMR1
    BY <2>4 DEF ServiceMR1, IrqServiceMR1, ClearFlags, dataVars, edgeVars
  <2>5. CASE ReadCapture
    BY <2>5 DEF ReadCapture, IrqReadCapture, hwVars, edgeVars
  <2>6. CASE StoreCapture
    <3>1. ir' = {} /\ prvTse' = NoElement
      BY <2>6 DEF StoreCapture, IrqStoreCapture, ClearFlags
    <3>2. \A i \in 1 .. Len(timeStore') :
            timeStore'[i].minuteCount <= timeStore'[i].minute
      <4>1. CASE timeStore' = timeStore
        BY <4>1
      <4>2. CASE timeStore' = SendFromISR(timeStore, prvTse)
        <5>1. \A i \in 1 .. Len(timeStore') :
                \/ i \in 1 .. Len(timeStore) /\ timeStore'[i] = timeStore[i]
                \/ timeStore'[i] = prvTse
          BY <4>2, SendFromISRProperties
        <5> QED
          BY <5>1
      <4> QED
        BY <2>6, <4>1, <4>2 DEF StoreCapture
    <3> QED
      BY <3>1, <3>2, ElementFields
  <2>7. CASE NoCapture
    BY <2>7 DEF NoCapture, IrqNoCapture, hwVars, dataVars, edgeVars
  <2>8. ASSUME NEW d \in Delays, DelayBegin(d) PROVE CapturesInTime'
    BY <2>8 DEF DelayBegin, IrqDelayBegin, hwVars, dataVars, edgeVars
  <2>9. CASE DelayArm
    BY <2>9 DEF DelayArm, IrqDelayArm, hwVars, dataVars, edgeVars
  <2>10. CASE DelayReturn
    BY <2>10 DEF DelayReturn, IrqDelayReturn, hwVars, dataVars, edgeVars
  <2>11. CASE TakeElement
    <3>1. \A i \in 1 .. Len(timeStore') :
            timeStore'[i].minuteCount <= timeStore'[i].minute
      BY <2>11, HeadTailProperties DEF TakeElement
    <3> QED
      BY <2>11, <3>1 DEF TakeElement, irqVars, edgeVars
  <2>12. CASE UNCHANGED vars
    BY <2>12 DEF vars, irqVars, dataVars, edgeVars
  <2> QED
    BY <2>1, <2>2, <2>3, <2>4, <2>5, <2>6, <2>7, <2>8, <2>9, <2>10, <2>11,
       <2>12 DEF Next
<1>3. CapturesInTime => StampNeverLate
  BY DEF CapturesInTime
<1> QED
  BY <1>1, <1>2, <1>3, TypeCorrect, MinuteCountCorrect, PTL DEF Spec

-----------------------------------------------------------------------------
(* The time of day of an edge: its minute, then its capture.               *)
NoLater(m1, c1, m2, c2) == m1 < m2 \/ (m1 = m2 /\ c1 <= c2)

(* Edges are read and stored in the order they came, and the filter's      *)
(* reference prvPreviousCapture belongs to some minute m between the       *)
(* elements that were received or are queued and the edge that may come    *)
(* next.  The code keeps no m: this is why the reference may be a minute   *)
(* old unseen.                                                             *)
FilterReference ==
  /\ NoLater(cr2Minute, cr2, minutes, tc)
  /\ isr = "store" =>
       NoLater(prvTse.minute, prvTse.captureCount, cr2Minute, cr2)
  /\ \E m \in Nat :
       /\ NoLater(m, prvPreviousCapture, cr2Minute, cr2)
       /\ isr = "store" =>
            NoLater(m, prvPreviousCapture, prvTse.minute, prvTse.captureCount)
       /\ NoLater(last.minute, last.captureCount, m, prvPreviousCapture)
       /\ \A i \in 1 .. Len(timeStore) :
            NoLater(timeStore[i].minute, timeStore[i].captureCount,
                    m, prvPreviousCapture)
  /\ \A i \in 1 .. Len(timeStore) : Source!Spaced(last, timeStore[i])
  /\ StoredInOrderAndSpaced

(* The filter keeps the element in the handler's hands apart from all that *)
(* are no later than the reference: in the reference's minute its test     *)
(* cannot wrap around, and in a later one there is nothing to keep.        *)
LEMMA FilterSpaces ==
  ASSUME prvTse \in Element, NEW p \in Element, NEW m \in Nat,
         prvPreviousCapture \in 0 .. TicksPerMinute - 1,
         NoLater(p.minute, p.captureCount, m, prvPreviousCapture),
         NoLater(m, prvPreviousCapture, prvTse.minute, prvTse.captureCount),
         NotTooClose
  PROVE  /\ NoLater(p.minute, p.captureCount,
                    prvTse.minute, prvTse.captureCount)
         /\ Source!Spaced(p, prvTse)
<1>1. /\ p.minute \in Nat /\ p.captureCount \in 0 .. TicksPerMinute - 1
      /\ prvTse.minute \in Nat
      /\ prvTse.captureCount \in 0 .. TicksPerMinute - 1
  BY ElementFields
<1>2. NoLater(p.minute, p.captureCount, prvTse.minute, prvTse.captureCount)
  BY <1>1, ConstantTypes DEF NoLater
<1>3. CASE p.minute < prvTse.minute
  BY <1>2, <1>3 DEF Source!Spaced
<1>4. CASE p.minute = prvTse.minute
  <2>1. /\ p.captureCount <= prvPreviousCapture
        /\ prvPreviousCapture <= prvTse.captureCount
    BY <1>1, <1>4 DEF NoLater
  <2>2. USub(prvTse.captureCount, prvPreviousCapture)
          = prvTse.captureCount - prvPreviousCapture
    BY <2>1, <1>1, ConstantTypes DEF USub
  <2>3. prvTse.captureCount > p.captureCount + TooSmallTickDiff
    BY <2>1, <2>2, <1>1, ConstantTypes DEF NotTooClose
  <2> QED
    BY <1>2, <1>4, <2>3 DEF Source!Spaced
<1> QED
  BY <1>1, <1>2, <1>3, <1>4 DEF NoLater

LEMMA OrderInvariant == Spec => []FilterReference
<1>1. Init => FilterReference
  <2> SUFFICES ASSUME Init PROVE FilterReference
    OBVIOUS
  <2>1. Len(timeStore) = 0
    BY EmptySeq DEF Init
  <2> QED
    BY <2>1, ElementFields
    DEF Init, IrqInit, FilterReference, NoLater, StoredInOrderAndSpaced
<1>2. TypeOK /\ FilterReference /\ [Next]_vars => FilterReference'
  <2> SUFFICES ASSUME TypeOK, FilterReference, [Next]_vars
               PROVE  FilterReference'
    OBVIOUS
  <2>a. /\ tc \in 0 .. TicksPerMinute - 1 /\ cr2 \in 0 .. TicksPerMinute - 1
        /\ minutes \in Nat /\ cr2Minute \in Nat
        /\ prvPreviousCapture \in 0 .. TicksPerMinute - 1
        /\ prvTse.minute \in Nat
        /\ prvTse.captureCount \in 0 .. TicksPerMinute - 1
        /\ prvTse \in Element /\ last \in Element
    BY ConstantTypes, ElementFields DEF TypeOK, IrqTypeOK, TickCounts
  <2>b. /\ timeStore \in Seq(Element) /\ Len(timeStore) <= timeStoreLength
        /\ Len(timeStore) \in Nat
        /\ \A i \in 1 .. Len(timeStore) :
             /\ timeStore[i] \in Element
             /\ timeStore[i].minute \in Nat
             /\ timeStore[i].captureCount \in 0 .. TicksPerMinute - 1
    <3>1. timeStore \in Seq(Element) /\ Len(timeStore) <= timeStoreLength
      BY DEF TypeOK
    <3>2. \A i \in 1 .. Len(timeStore) : timeStore[i] \in Element
      BY <3>1, ElementOfSeq
    <3> QED
      BY <3>1, <3>2, LenProperties, ElementFields
  <2>c. PICK m \in Nat :
          /\ NoLater(m, prvPreviousCapture, cr2Minute, cr2)
          /\ isr = "store" =>
               NoLater(m, prvPreviousCapture,
                       prvTse.minute, prvTse.captureCount)
          /\ NoLater(last.minute, last.captureCount, m, prvPreviousCapture)
          /\ \A i \in 1 .. Len(timeStore) :
               NoLater(timeStore[i].minute, timeStore[i].captureCount,
                       m, prvPreviousCapture)
    BY DEF FilterReference
  <2>d. ASSUME UNCHANGED <<dataVars, edgeVars, minutes, last, tc>>,
               isr' = "store" => isr = "store"
        PROVE  FilterReference'
    BY <2>d DEF FilterReference, StoredInOrderAndSpaced, dataVars, edgeVars
  <2>1. CASE Tick
    <3>1. UNCHANGED <<dataVars, edgeVars, last, isr>>
      BY <2>1 DEF Tick, IrqTick
    <3>2. NoLater(cr2Minute, cr2, minutes', tc')
      BY <2>1, <2>a, ConstantTypes
      DEF Tick, IrqTick, NextTc, Wraps, FilterReference, NoLater
    <3> QED
      BY <3>1, <3>2 DEF FilterReference, StoredInOrderAndSpaced, dataVars,
                        edgeVars
  <2>2. CASE Edge
    <3>1. /\ UNCHANGED <<dataVars, minutes, last, tc, isr>>
          /\ cr2' = tc /\ cr2Minute' = minutes
      BY <2>2 DEF Edge, IrqEdge
    <3>2. /\ NoLater(cr2Minute', cr2', minutes', tc')
          /\ isr = "store" =>
               NoLater(prvTse.minute, prvTse.captureCount, cr2Minute', cr2')
      BY <3>1, <2>a DEF FilterReference, NoLater
    <3>3. NoLater(m, prvPreviousCapture, cr2Minute', cr2')
      BY <3>1, <2>a, <2>c DEF FilterReference, NoLater
    <3> QED
      BY <3>1, <3>2, <3>3, <2>c
      DEF FilterReference, StoredInOrderAndSpaced, dataVars
  <2>3. CASE ServiceMR0
    <3>1. UNCHANGED <<prvTse, prvPreviousCapture, timeStore, edgeVars,
                      minutes, last, tc>> /\ isr' = "mr1"
      BY <2>3 DEF ServiceMR0, IrqServiceMR0
    <3> QED
      BY <3>1, <2>c DEF FilterReference, StoredInOrderAndSpaced, edgeVars
  <2>4. CASE ServiceMR1
    BY <2>4, <2>d DEF ServiceMR1, IrqServiceMR1
  <2>5. CASE ReadCapture
    <3>1. /\ UNCHANGED <<prvPreviousCapture, timeStore, edgeVars, minutes,
                         last, tc>>
          /\ prvTse'.minute = cr2Minute /\ prvTse'.captureCount = cr2
      BY <2>5 DEF ReadCapture, IrqReadCapture, hwVars
    <3>2. NoLater(prvTse'.minute, prvTse'.captureCount, cr2Minute', cr2')
      BY <3>1, <2>a DEF NoLater, edgeVars
    <3>3. /\ NoLater(m, prvPreviousCapture, cr2Minute, cr2)
          /\ NoLater(m, prvPreviousCapture,
                     prvTse'.minute, prvTse'.captureCount)
      BY <3>1, <2>c
    <3> QED
      BY <3>1, <3>2, <3>3, <2>c
      DEF FilterReference, StoredInOrderAndSpaced, edgeVars
  <2>6. CASE StoreCapture
    <3>1. /\ UNCHANGED <<edgeVars, minutes, last, tc>>
          /\ isr = "store" /\ isr' = "out"
      BY <2>6 DEF StoreCapture, IrqStoreCapture
    <3>2. CASE ~NotTooClose
      <4>1. UNCHANGED <<timeStore, prvPreviousCapture>>
        BY <2>6, <3>2 DEF StoreCapture
      <4> QED
        BY <3>1, <4>1, <2>c DEF FilterReference, StoredInOrderAndSpaced,
                                edgeVars
    <3>3. CASE NotTooClose
      <4>1. /\ timeStore' = SendFromISR(timeStore, prvTse)
            /\ prvPreviousCapture' = prvTse.captureCount
        BY <2>6, <3>3 DEF StoreCapture
      <4>2. \A i \in 1 .. Len(timeStore') :
              \/ i \in 1 .. Len(timeStore) /\ timeStore'[i] = timeStore[i]
              \/ i = Len(timeStore) + 1 /\ timeStore'[i] = prvTse
        BY <4>1, <2>a, <2>b, SendFromISRProperties
      <4>3. /\ NoLater(last.minute, last.captureCount,
                       prvTse.minute, prvTse.captureCount)
            /\ Source!Spaced(last, prvTse)
            /\ \A i \in 1 .. Len(timeStore) :
                 /\ NoLater(timeStore[i].minute, timeStore[i].captureCount,
                            prvTse.minute, prvTse.captureCount)
                 /\ Source!Spaced(timeStore[i], prvTse)
        BY <3>1, <3>3, <2>a, <2>b, <2>c, FilterSpaces
      <4>4. NoLater(prvTse.minute, prvTse.captureCount, cr2Minute, cr2)
        BY <3>1 DEF FilterReference
      <4>5. \A i \in 1 .. Len(timeStore') :
              /\ NoLater(timeStore'[i].minute, timeStore'[i].captureCount,
                         prvTse.minute, prvPreviousCapture')
              /\ Source!Spaced(last, timeStore'[i])
        <5>1. \A i \in 1 .. Len(timeStore) : Source!Spaced(last, timeStore[i])
          BY DEF FilterReference
        <5>2. NoLater(prvTse.minute, prvTse.captureCount,
                      prvTse.minute, prvTse.captureCount)
          BY <2>a DEF NoLater
        <5> QED
          BY <4>1, <4>2, <4>3, <5>1, <5>2
      <4>6. StoredInOrderAndSpaced'
        <5> SUFFICES ASSUME NEW i \in 1 .. Len(timeStore'),
                            NEW j \in 1 .. Len(timeStore'), i < j
                     PROVE  Source!Spaced(timeStore'[i], timeStore'[j])
          BY DEF StoredInOrderAndSpaced, Source!Spaced
        <5>1. i \in 1 .. Len(timeStore) /\ timeStore'[i] = timeStore[i]
          BY <4>2, <2>b
        <5>2. CASE j \in 1 .. Len(timeStore)
          BY <4>2, <5>1, <5>2, <2>b
          DEF FilterReference, StoredInOrderAndSpaced
        <5>3. CASE j = Len(timeStore) + 1
          BY <4>2, <4>3, <5>1, <5>3, <2>b
        <5> QED
          BY <4>2, <5>2, <5>3
      <4> QED
        <5>1. NoLater(last'.minute, last'.captureCount,
                      prvTse.minute, prvPreviousCapture')
          BY <3>1, <4>1, <4>3
        <5>2. \A i \in 1 .. Len(timeStore') : Source!Spaced(last, timeStore[i])'
          BY <3>1, <4>5 DEF Source!Spaced
        <5> QED
          BY <3>1, <4>1, <4>4, <4>5, <4>6, <5>1, <5>2, <2>a
          DEF FilterReference, edgeVars
    <3> QED
      BY <3>2, <3>3
  <2>7. CASE NoCapture
    BY <2>7, <2>d DEF NoCapture, IrqNoCapture, hwVars
  <2>8. ASSUME NEW d \in Delays, DelayBegin(d) PROVE FilterReference'
    BY <2>8, <2>d DEF DelayBegin, IrqDelayBegin, hwVars
  <2>9. CASE DelayArm
    BY <2>9, <2>d DEF DelayArm, IrqDelayArm, hwVars
  <2>10. CASE DelayReturn
    BY <2>10, <2>d DEF DelayReturn, IrqDelayReturn, hwVars
  <2>11. CASE TakeElement
    <3>1. /\ UNCHANGED <<isr, tc, prvTse, prvPreviousCapture, edgeVars,
                         minutes>>
          /\ last' = timeStore[1] /\ 1 \in 1 .. Len(timeStore)
          /\ Len(timeStore') = Len(timeStore) - 1
          /\ \A i \in 1 .. Len(timeStore') :
               i + 1 \in 1 .. Len(timeStore) /\ timeStore'[i] = timeStore[i + 1]
      BY <2>11, <2>b, HeadTailProperties DEF TakeElement, irqVars
    <3>2. /\ NoLater(last'.minute, last'.captureCount, m, prvPreviousCapture)
          /\ \A i \in 1 .. Len(timeStore') :
               NoLater(timeStore'[i].minute, timeStore'[i].captureCount,
                       m, prvPreviousCapture)
      BY <3>1, <2>b, <2>c
    <3>4. \A i \in 1 .. Len(timeStore') : Source!Spaced(last, timeStore[i])'
      <4>1. \A i \in 1 .. Len(timeStore') :
              1 < i + 1 /\ Source!Spaced(timeStore[1], timeStore[i + 1])
        BY <3>1, <2>b DEF FilterReference, StoredInOrderAndSpaced
      <4> QED
        BY <3>1, <4>1 DEF Source!Spaced
    <3>3. StoredInOrderAndSpaced'
      <4> SUFFICES ASSUME NEW i \in 1 .. Len(timeStore'),
                          NEW j \in 1 .. Len(timeStore'), i < j
                   PROVE  Source!Spaced(timeStore'[i], timeStore'[j])
        BY DEF StoredInOrderAndSpaced, Source!Spaced
      <4>1. /\ i + 1 \in 1 .. Len(timeStore) /\ j + 1 \in 1 .. Len(timeStore)
            /\ i + 1 < j + 1
            /\ timeStore'[i] = timeStore[i + 1]
            /\ timeStore'[j] = timeStore[j + 1]
        BY <3>1, <2>b
      <4> QED
        BY <4>1 DEF FilterReference, StoredInOrderAndSpaced
    <3> QED
      BY <3>1, <3>2, <3>3, <3>4, <2>c DEF FilterReference, edgeVars
  <2>12. CASE UNCHANGED vars
    BY <2>12, <2>d DEF vars, irqVars
  <2> QED
    BY <2>1, <2>2, <2>3, <2>4, <2>5, <2>6, <2>7, <2>8, <2>9, <2>10, <2>11,
       <2>12 DEF Next
<1> QED
  BY <1>1, <1>2, TypeCorrect, PTL DEF Spec

(* The queued elements are in the order of their edges, and those of one   *)
(* minute are further apart than the glitch filter asks.                   *)
THEOREM OrderCorrect == Spec => []StoredInOrderAndSpaced
<1>1. FilterReference => StoredInOrderAndSpaced
  BY DEF FilterReference
<1> QED
  BY <1>1, OrderInvariant, PTL

-----------------------------------------------------------------------------
(* What element e is short of is lost for good: so it is for the edge that *)
(* is pending and for the one in the handler's hands, and a minute whose   *)
(* flag is up is not among it.                                             *)
LostBefore(e) ==
  /\ e.minuteCount <= timer1MinuteCount
  /\ Source!Loss(e) <= minutes - timer1MinuteCount
  /\ "MR0" \in ir => Source!Loss(e) < minutes - timer1MinuteCount
  /\ "CR2" \in ir => Source!Loss(e) <= cr2Minute - timer1MinuteCount
  /\ isr = "store" => Source!Loss(e) <= Source!Loss(prvTse)

LossSoFar ==
  /\ cr2Minute <= minutes
  /\ isr = "store" => /\ prvTse.minuteCount = timer1MinuteCount
                      /\ prvTse.minute <= minutes
  /\ LostBefore(last)
  /\ \A i \in 1 .. Len(timeStore) :
       LostBefore(timeStore[i]) /\ Source!LossKept(last, timeStore[i])
  /\ LossOnlyGrows

(* A step that leaves the queue alone keeps the order of losses, and has   *)
(* to keep the rest for a single element.                                  *)
LEMMA SameQueue ==
  ASSUME LossSoFar, timeStore' = timeStore, last' = last,
         cr2Minute' <= minutes',
         isr' = "store" => /\ prvTse'.minuteCount = timer1MinuteCount'
                           /\ prvTse'.minute <= minutes',
         timeStore \in Seq(Element), last \in Element,
         \A e \in Element : LostBefore(e) => LostBefore(e)'
  PROVE  LossSoFar'
<1>1. \A i \in 1 .. Len(timeStore) : timeStore[i] \in Element
  BY ElementOfSeq
<1>2. ASSUME NEW i \in 1 .. Len(timeStore') PROVE LostBefore(timeStore[i])'
  <2> DEFINE e == timeStore[i]
  <2>1. e \in Element /\ LostBefore(e) /\ timeStore'[i] = e
    BY <1>1 DEF LossSoFar
  <2>2. LostBefore(e) => LostBefore(timeStore[i])'
    BY <2>1 DEF LostBefore, Source!Loss
  <2> QED
    BY <2>1, <2>2
<1>3. LostBefore(last)'
  <2> DEFINE e == last
  <2>1. e \in Element /\ LostBefore(e)
    BY DEF LossSoFar
  <2>2. LostBefore(e) => LostBefore(last)'
    BY <2>1 DEF LostBefore, Source!Loss
  <2> QED
    BY <2>1, <2>2
<1>4. \A i \in 1 .. Len(timeStore') : Source!LossKept(last, timeStore[i])'
  BY DEF LossSoFar, Source!LossKept, Source!Loss
<1>5. LossOnlyGrows'
  BY DEF LossSoFar, LossOnlyGrows, Source!LossKept, Source!Loss
<1> QED
  BY <1>2, <1>3, <1>4, <1>5 DEF LossSoFar

LEMMA LossInvariant == Spec => []LossSoFar
<1>1. Init => LossSoFar
  <2> SUFFICES ASSUME Init PROVE LossSoFar
    OBVIOUS
  <2>1. Len(timeStore) = 0
    BY EmptySeq DEF Init
  <2> QED
    BY <2>1, ElementFields
    DEF Init, IrqInit, LossSoFar, LostBefore, LossOnlyGrows, Source!Loss
<1>2. TypeOK /\ LossSoFar /\ [Next]_vars => LossSoFar'
  <2> SUFFICES ASSUME TypeOK, LossSoFar, [Next]_vars PROVE LossSoFar'
    OBVIOUS
  <2>a. /\ minutes \in Nat /\ cr2Minute \in Nat /\ timer1MinuteCount \in Nat
        /\ prvTse \in Element
        /\ prvTse.minute \in Nat /\ prvTse.minuteCount \in Nat
        /\ last \in Element
    BY ConstantTypes, ElementFields DEF TypeOK
  <2>b. timeStore \in Seq(Element) /\ Len(timeStore) <= timeStoreLength
        /\ Len(timeStore) \in Nat
    BY LenProperties DEF TypeOK
  <2>c. \A e \in Element : e.minute \in Nat /\ e.minuteCount \in Nat
    BY ElementFields
  <2>d. /\ cr2Minute <= minutes
        /\ isr = "store" => /\ prvTse.minuteCount = timer1MinuteCount
                            /\ prvTse.minute <= minutes
    BY DEF LossSoFar
  <2>e. ASSUME UNCHANGED <<dataVars, edgeVars, minutes, last, ir>>,
               isr' = "store" => isr = "store"
        PROVE  LossSoFar'
    BY <2>a, <2>e, <2>b, <2>d, SameQueue DEF LostBefore, Source!Loss, dataVars, edgeVars
  <2>1. CASE Tick
    <3>1. /\ UNCHANGED <<timeStore, prvTse, timer1MinuteCount, cr2Minute,
                         last, isr>>
          /\ "CR2" \in ir' => "CR2" \in ir
          /\ \/ minutes' = minutes /\ ("MR0" \in ir' => "MR0" \in ir)
             \/ minutes' = minutes + 1
      BY <2>1 DEF Tick, IrqTick, dataVars, edgeVars
    <3> QED
      BY <3>1, <2>a, <2>b, <2>c, <2>d, SameQueue DEF LostBefore, Source!Loss
  <2>2. CASE Edge
    <3>1. /\ UNCHANGED <<timeStore, prvTse, timer1MinuteCount, minutes,
                         last, isr>>
          /\ cr2Minute' = minutes /\ ("MR0" \in ir' => "MR0" \in ir)
      BY <2>2 DEF Edge, IrqEdge, dataVars
    <3> QED
      BY <3>1, <2>a, <2>b, <2>c, <2>d, SameQueue DEF LostBefore, Source!Loss
  <2>3. CASE ServiceMR0
    <3>1. /\ UNCHANGED <<timeStore, prvTse, cr2Minute, minutes, last>>
          /\ isr' = "mr1"
          /\ \/ "MR0" \in ir /\ ir' = {}
                /\ timer1MinuteCount' = timer1MinuteCount + 1
             \/ UNCHANGED <<ir, timer1MinuteCount>>
      BY <2>3 DEF ServiceMR0, IrqServiceMR0, ClearFlags, edgeVars
    <3> QED
      BY <3>1, <2>a, <2>b, <2>c, <2>d, SameQueue DEF LostBefore, Source!Loss
  <2>4. CASE ServiceMR1
    <3>1. /\ UNCHANGED <<timeStore, prvTse, cr2Minute, minutes,
                         timer1MinuteCount, last>>
          /\ isr' = "cr2" /\ ir' \subseteq ir
      BY <2>4 DEF ServiceMR1, IrqServiceMR1, ClearFlags, dataVars, edgeVars
    <3> QED
      BY <3>1, <2>a, <2>b, <2>c, <2>d, SameQueue DEF LostBefore, Source!Loss
  <2>5. CASE ReadCapture
    <3>1. /\ UNCHANGED <<timeStore, cr2Minute, minutes, timer1MinuteCount,
                         last, ir>>
          /\ "CR2" \in ir
          /\ prvTse'.minuteCount = timer1MinuteCount
          /\ prvTse'.minute = cr2Minute
      BY <2>5 DEF ReadCapture, IrqReadCapture, hwVars, edgeVars
    <3> QED
      BY <3>1, <2>a, <2>b, <2>c, <2>d, SameQueue DEF LostBefore, Source!Loss
  <2>6. CASE StoreCapture
    <3>1. /\ UNCHANGED <<cr2Minute, minutes, timer1MinuteCount, last>>
          /\ isr = "store" /\ isr' = "out" /\ ir' = {}
          /\ \/ timeStore' = timeStore
             \/ timeStore' = SendFromISR(timeStore, prvTse)
      BY <2>6 DEF StoreCapture, IrqStoreCapture, ClearFlags, edgeVars
    <3>2. CASE timeStore' = timeStore
      BY <3>1, <3>2, <2>a, <2>b, <2>c, <2>d, SameQueue DEF LostBefore, Source!Loss
    <3>3. CASE timeStore' = SendFromISR(timeStore, prvTse)
      <4>1. \A i \in 1 .. Len(timeStore') :
              \/ i \in 1 .. Len(timeStore) /\ timeStore'[i] = timeStore[i]
              \/ i = Len(timeStore) + 1 /\ timeStore'[i] = prvTse
        BY <3>3, <2>a, <2>b, SendFromISRProperties
      <4> DEFINE Kept(e) == /\ Source!LossKept(e, prvTse)
                            /\ e.minuteCount <= timer1MinuteCount'
                            /\ Source!Loss(e) <= minutes' - timer1MinuteCount'
      <4>2. Kept(last) /\ \A i \in 1 .. Len(timeStore) : Kept(timeStore[i])
        BY <3>1, <2>d DEF LossSoFar, LostBefore, Source!LossKept
      <4>3. /\ prvTse.minuteCount <= timer1MinuteCount'
            /\ Source!Loss(prvTse) <= minutes' - timer1MinuteCount'
        BY <3>1, <2>a, <2>d DEF Source!Loss
      <4>4. LostBefore(last)'
            /\ \A i \in 1 .. Len(timeStore') : LostBefore(timeStore[i])'
        BY <3>1, <4>1, <4>2, <4>3 DEF LostBefore, Source!Loss
      <4>6. \A i \in 1 .. Len(timeStore') :
              Source!LossKept(last, timeStore[i])'
        <5>1. \A i \in 1 .. Len(timeStore) :
                Source!LossKept(last, timeStore[i])
          BY DEF LossSoFar
        <5> QED
          BY <3>1, <4>1, <4>2, <5>1 DEF Source!LossKept, Source!Loss
      <4>5. LossOnlyGrows'
        <5> SUFFICES ASSUME NEW i \in 1 .. Len(timeStore'),
                            NEW j \in 1 .. Len(timeStore'), i < j
                     PROVE  Source!LossKept(timeStore'[i], timeStore'[j])
          BY DEF LossOnlyGrows, Source!LossKept, Source!Loss
        <5>1. i \in 1 .. Len(timeStore) /\ timeStore'[i] = timeStore[i]
          BY <4>1, <2>b
        <5>2. CASE j \in 1 .. Len(timeStore)
          BY <4>1, <5>1, <5>2, <2>b DEF LossSoFar, LossOnlyGrows
        <5>3. CASE j = Len(timeStore) + 1
          BY <4>1, <4>2, <5>1, <5>3, <2>b
        <5> QED
          BY <4>1, <5>2, <5>3
      <4> QED
        BY <3>1, <4>4, <4>5, <4>6, <2>d DEF LossSoFar
    <3> QED
      BY <3>1, <3>2, <3>3
  <2>7. CASE NoCapture
    BY <2>7, <2>e DEF NoCapture, IrqNoCapture, hwVars
  <2>8. ASSUME NEW d \in Delays, DelayBegin(d) PROVE LossSoFar'
    BY <2>8, <2>e DEF DelayBegin, IrqDelayBegin, hwVars
  <2>9. CASE DelayArm
    BY <2>9, <2>e DEF DelayArm, IrqDelayArm, hwVars
  <2>10. CASE DelayReturn
    BY <2>10, <2>e DEF DelayReturn, IrqDelayReturn, hwVars
  <2>11. CASE TakeElement
    <3>1. /\ UNCHANGED <<isr, ir, prvTse, timer1MinuteCount, cr2Minute, minutes>>
          /\ last' = timeStore[1] /\ 1 \in 1 .. Len(timeStore)
          /\ Len(timeStore') = Len(timeStore) - 1
          /\ \A i \in 1 .. Len(timeStore') :
               i + 1 \in 1 .. Len(timeStore) /\ timeStore'[i] = timeStore[i + 1]
      BY <2>11, <2>b, HeadTailProperties DEF TakeElement, irqVars, hwVars, edgeVars
    <3>2. LostBefore(last)'
          /\ \A i \in 1 .. Len(timeStore') : LostBefore(timeStore[i])'
      BY <3>1 DEF LossSoFar, LostBefore, Source!Loss
    <3>4. \A i \in 1 .. Len(timeStore') : Source!LossKept(last, timeStore[i])'
      <4>1. \A i \in 1 .. Len(timeStore') :
              1 < i + 1 /\ Source!LossKept(timeStore[1], timeStore[i + 1])
        BY <3>1, <2>b DEF LossSoFar, LossOnlyGrows
      <4> QED
        BY <3>1, <4>1 DEF Source!LossKept, Source!Loss
    <3>3. LossOnlyGrows'
      <4> SUFFICES ASSUME NEW i \in 1 .. Len(timeStore'),
                          NEW j \in 1 .. Len(timeStore'), i < j
                   PROVE  Source!LossKept(timeStore'[i], timeStore'[j])
        BY DEF LossOnlyGrows, Source!LossKept, Source!Loss
      <4>1. /\ i + 1 \in 1 .. Len(timeStore) /\ j + 1 \in 1 .. Len(timeStore)
            /\ i + 1 < j + 1
            /\ timeStore'[i] = timeStore[i + 1]
            /\ timeStore'[j] = timeStore[j + 1]
        BY <3>1, <2>b
      <4> QED
        BY <4>1 DEF LossSoFar, LossOnlyGrows
    <3> QED
      BY <3>1, <3>2, <3>3, <3>4, <2>d DEF LossSoFar
  <2>12. CASE UNCHANGED vars
    BY <2>12, <2>e DEF vars, irqVars, hwVars
  <2> QED
    BY <2>1, <2>2, <2>3, <2>4, <2>5, <2>6, <2>7, <2>8, <2>9, <2>10, <2>11,
       <2>12 DEF Next
<1> QED
  BY <1>1, <1>2, TypeCorrect, PTL DEF Spec

(* Stamps do not go back, and a minute once lost is never made up.         *)
THEOREM LossCorrect == Spec => []LossOnlyGrows
<1>1. LossSoFar => LossOnlyGrows
  BY DEF LossSoFar
<1> QED
  BY <1>1, LossInvariant, PTL

-----------------------------------------------------------------------------
(* Timer1 implements RotationSource: what holds within the queue holds     *)
(* from one received rotation to the next, however many were dropped or    *)
(* taken out between them.                                                 *)
THEOREM SourceImplemented == Spec => HandsOverInOrder
<1>1. Init => Source!SourceInit
  BY DEF Init, NoElement, Source!SourceInit
<1>2. TypeOK /\ FilterReference /\ LossSoFar /\ [Next]_vars
        => [Source!HandOver(last')]_last
  <2> SUFFICES ASSUME TypeOK, FilterReference, LossSoFar, [Next]_vars
               PROVE  [Source!HandOver(last')]_last
    OBVIOUS
  <2>1. CASE TakeElement
    <3>1. timeStore \in Seq(Element) /\ timeStore # <<>>
      BY <2>1 DEF TypeOK, TakeElement
    <3>2. 1 \in 1 .. Len(timeStore) /\ Head(timeStore) = timeStore[1]
      BY <3>1, HeadTailProperties, LenProperties, EmptySeq
    <3>3. last' = timeStore[1] /\ timeStore[1] \in Element
      BY <2>1, <3>1, <3>2, ElementOfSeq DEF TakeElement
    <3>4. Source!Spaced(last, timeStore[1])
      BY <3>2 DEF FilterReference
    <3>5. Source!LossKept(last, timeStore[1])
      BY <3>2 DEF LossSoFar
    <3> QED
      BY <3>3, <3>4, <3>5 DEF Source!HandOver, Element
  <2>2. ASSUME NEW d \in Delays, DelayBegin(d) PROVE UNCHANGED last
    BY <2>2 DEF DelayBegin
  <2>3. CASE UNCHANGED vars
    BY <2>3 DEF vars
  <2> QED
    BY <2>1, <2>2, <2>3
    DEF Next, Tick, Edge, ServiceMR0, ServiceMR1, ReadCapture, StoreCapture,
        NoCapture, DelayArm, DelayReturn
<1> QED
  BY <1>1, <1>2, TypeCorrect, OrderInvariant, LossInvariant, PTL
  DEF Spec, HandsOverInOrder, Source!SourceSpec
=============================================================================
