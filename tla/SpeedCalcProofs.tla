--------------------------- MODULE SpeedCalcProofs ---------------------------
(***************************************************************************)
(* Proofs about SpeedCalc for every clock, every set of capture times and  *)
(* every horizon: the ring is a sliding window in the order of time, and   *)
(* the sum the speed is calculated from is the time it spans, but for the  *)
(* two errors that are known.                                              *)
(***************************************************************************)
EXTENDS SpeedCalc, SequenceTheorems, TLAPS

LEMMA ConstantTypes ==
  /\ prvHMAX = 4 /\ Slots = 0 .. 3
  /\ tick_Hz \in Nat /\ TicksPerMinute \in Nat /\ TicksPerMinute >= 60
  /\ Word \in Nat /\ TicksPerMinute < Word
  /\ StartWord \in Nat /\ StartWord % 4 = 0 /\ StartWord > 0
  /\ TooSmallTickDiff \in Nat /\ MaxMinutes \in Nat /\ MaxMinutes < Word
  /\ Captures \subseteq 0 .. TicksPerMinute - 1
BY SpeedCalcAssumption, WordAssumption DEF TicksPerMinute, prvHMAX, Slots

(* The ring is filled from its first slot on, and start moves only once it *)
(* is full.                                                                *)
RingInv ==
  /\ prvHistory \in [Slots -> Rotation \cup {NoRotation}]
  /\ start \in 0 .. StartWord - 1
  /\ missing \in 0 .. prvHMAX
  /\ missing > 0 => start = 0
  /\ \A i \in Slots : i < prvHMAX - missing => prvHistory[i] \in Rotation
  /\ last \in Rotation

(* What filling the ring does to it.                                       *)
LEMMA FillRing ==
  ASSUME NEW e, Fill(e) \/ FillLast(e), missing \in 0 .. 4,
         missing > 0 => start = 0
  PROVE  /\ missing \in 1 .. 4 /\ missing' = missing - 1
         /\ start = 0 /\ start' = 0
         /\ prvHistory' = [prvHistory EXCEPT ![4 - missing] = e]
<1>1. /\ missing > 0 /\ start' = start
      /\ prvHistory' = [prvHistory EXCEPT ![start + prvHMAX - missing] = e]
  <2>1. CASE Fill(e)
    <3>1. /\ missing > 1 /\ start' = start
          /\ prvHistory' = [prvHistory EXCEPT ![start + prvHMAX - missing] = e]
      BY <2>1, Zenon DEF Fill
    <3> QED
      BY <3>1
  <2>2. CASE FillLast(e)
    <3>1. /\ missing = 1 /\ start' = start
          /\ prvHistory' = [prvHistory EXCEPT ![start + prvHMAX - missing] = e]
      BY <2>2, Zenon DEF FillLast
    <3> QED
      BY <3>1
  <2> QED
    BY <2>1, <2>2
<1>2. missing' = missing - 1
  <2>1. CASE Fill(e)
    BY <2>1, Zenon DEF Fill
  <2>2. CASE FillLast(e)
    <3>1. missing = 1 /\ missing' = 0
      BY <2>2, Zenon DEF FillLast
    <3> QED
      BY <3>1
  <2> QED
    BY <2>1, <2>2
<1>3. start = 0 /\ start + prvHMAX - missing = 4 - missing
  BY <1>1 DEF prvHMAX
<1>4. missing \in 1 .. 4 /\ start' = 0
  BY <1>1, <1>3
<1> QED
  BY <1>1, <1>2, <1>3, <1>4, Zenon

(* A rotation that arrives is one, of a minute that is modelled.           *)
Arrives(e) ==
  /\ e \in Rotation /\ e.minuteCount <= MaxMinutes
  /\ Source!Spaced(last, e) /\ Source!LossKept(last, e)
  /\ Fill(e) \/ FillLast(e) \/ Replace(e)
  /\ last' = e

LEMMA NextCases ==
  ASSUME [Next]_vars
  PROVE  (\E e \in Rotation : Arrives(e)) \/ Timeout \/ UNCHANGED vars
<1>1. ASSUME NEW m \in last.minute .. MaxMinutes, NEW c \in Captures,
             NEW l \in 0 .. m,
             Update([minuteCount |-> m - l, captureCount |-> c,
                     minute |-> m])
      PROVE  \E e \in Rotation : Arrives(e)
  <2> DEFINE e == [minuteCount |-> m - l, captureCount |-> c, minute |-> m]
  <2>1. /\ e \in Rotation /\ Source!Spaced(last, e) /\ Source!LossKept(last, e)
        /\ Fill(e) \/ FillLast(e) \/ Replace(e)
        /\ last' = e
    BY <1>1, Zenon DEF Update, Source!HandOver, Rotation
  <2>2. m - l <= MaxMinutes
    BY ConstantTypes
  <2>3. e.minuteCount <= MaxMinutes
    BY <2>2
  <2> QED
    BY <2>1, <2>3, Zenon DEF Arrives
<1> QED
  BY <1>1 DEF Next

LEMMA RingCorrect == Spec => []RingInv
<1>1. Init => RingInv
  BY ConstantTypes DEF Init, RingInv, Rotation, Source!Rotation, Source!Beginning
<1>2. RingInv /\ [Next]_vars => RingInv'
  <2> SUFFICES ASSUME RingInv, [Next]_vars PROVE RingInv'
    OBVIOUS
  <2> USE ConstantTypes
  <2>1. ASSUME NEW e \in Rotation, Arrives(e)
        PROVE  RingInv'
    <3>1. Fill(e) \/ FillLast(e) \/ Replace(e)
      BY <2>1 DEF Arrives
    <3>2. last' \in Rotation
      BY <2>1 DEF Arrives
    <3>3. CASE Fill(e) \/ FillLast(e)
      <4>1. /\ missing \in 1 .. 4 /\ missing' = missing - 1
            /\ start = 0 /\ start' = 0
            /\ prvHistory' = [prvHistory EXCEPT ![4 - missing] = e]
        <5>1. missing \in 0 .. 4 /\ (missing > 0 => start = 0)
          BY DEF RingInv, prvHMAX
        <5> QED
          BY <3>3, <5>1, FillRing
      <4>2. \A i \in Slots : i < prvHMAX - missing' => prvHistory'[i] \in Rotation
        BY <4>1 DEF RingInv
      <4>3. prvHistory' \in [Slots -> Rotation \cup {NoRotation}]
        BY <4>1 DEF RingInv
      <4> QED
        BY <3>2, <4>1, <4>2, <4>3 DEF RingInv
    <3>5. CASE Replace(e)
      <4>1. /\ missing = 0 /\ missing' = 0
            /\ prvHistory' = [prvHistory EXCEPT ![start % 4] = e]
            /\ start' \in 0 .. StartWord - 1
        BY <3>5 DEF Replace, NextStart, Mask, RingInv
      <4>2. \A i \in Slots : prvHistory'[i] \in Rotation
        BY <4>1 DEF RingInv
      <4>3. prvHistory' \in [Slots -> Rotation \cup {NoRotation}]
        BY <4>1 DEF RingInv
      <4> QED
        BY <3>2, <4>1, <4>2, <4>3 DEF RingInv
    <3> QED
      BY <3>1, <3>3, <3>5
  <2>2. CASE Timeout
    BY <2>2 DEF Timeout, RingInv, ringVars
  <2>3. CASE UNCHANGED vars
    BY <2>3 DEF vars, RingInv, ringVars
  <2> QED
    BY <2>1, <2>2, <2>3, NextCases, Zenon
<1> QED
  BY <1>1, <1>2, PTL DEF Spec

-----------------------------------------------------------------------------
(* The ring read from its oldest entry is a sequence of rotations.         *)
WindowOK ==
  /\ Window \in Seq(Rotation) /\ Len(Window) = 4 - missing
  /\ \A i \in 1 .. 4 - missing : Window[i] = prvHistory[(start + (i - 1)) % 4]

LEMMA WindowProperties == RingInv => WindowOK
<1> SUFFICES ASSUME RingInv PROVE WindowOK
  OBVIOUS
<1>1. /\ missing \in 0 .. 4 /\ start \in Nat
      /\ missing > 0 => start = 0
      /\ \A i \in 0 .. 3 : i < 4 - missing => prvHistory[i] \in Rotation
  BY ConstantTypes DEF RingInv
<1>2. ASSUME NEW i \in 1 .. 4 - missing
      PROVE  prvHistory[(start + (i - 1)) % 4] \in Rotation
  <2>1. (start + (i - 1)) % 4 \in 0 .. 3
    BY <1>1, <1>2
  <2>2. missing > 0 => (start + (i - 1)) % 4 = i - 1
    BY <1>1, <1>2
  <2> QED
    BY <1>1, <1>2, <2>1, <2>2
<1> DEFINE W == [i \in 1 .. 4 - missing |-> prvHistory[(start + (i - 1)) % 4]]
<1>3. Window = W
  <2>1. \A i \in 1 .. 4 - missing : start + i - 1 = start + (i - 1)
    BY <1>1
  <2> QED
    BY <2>1 DEF Window, Mask, prvHMAX
<1>4. W \in [1 .. 4 - missing -> Rotation]
  BY <1>2
<1>5. 4 - missing \in Nat
  BY <1>1
<1>6. W \in Seq(Rotation) /\ Len(W) = 4 - missing
  <2> HIDE DEF W
  <2>1. W \in Seq(Rotation) /\ DOMAIN W = 1 .. 4 - missing
    BY <1>4, <1>5, SeqDef
  <2> QED
    BY <1>5, <2>1, LenProperties
<1> QED
  BY <1>3, <1>6 DEF WindowOK

(* Sliding a full window.                                                  *)
LEMMA SlideFour ==
  ASSUME NEW S, NEW w \in Seq(S), NEW e \in S, w # <<>>, Len(w) = 4
  PROVE  /\ Append(Tail(w), e) \in Seq(S)
         /\ Len(Append(Tail(w), e)) = 4
         /\ \A i \in 1 .. 3 : Append(Tail(w), e)[i] = w[i + 1]
         /\ Append(Tail(w), e)[4] = e
<1> DEFINE t == Tail(w)
<1>1. /\ t \in Seq(S) /\ Len(t) = Len(w) - 1
      /\ \A i \in 1 .. Len(t) : t[i] = w[i + 1]
  BY HeadTailProperties
<1> HIDE DEF t
<1>a. t \in Seq(S)
  BY <1>1
<1>2. /\ Append(t, e) \in Seq(S) /\ Len(Append(t, e)) = Len(t) + 1
      /\ \A i \in 1 .. Len(t) : Append(t, e)[i] = t[i]
      /\ Append(t, e)[Len(t) + 1] = e
  BY <1>a, AppendProperties
<1>3. Len(t) = 3
  BY <1>1
<1>4. /\ \A i \in 1 .. 3 : Append(t, e)[i] = w[i + 1]
      /\ Len(Append(t, e)) = 4 /\ Append(t, e)[4] = e
  BY <1>1, <1>2, <1>3
<1> QED
  BY <1>2, <1>4 DEF t

(* Rotation e comes last into the window, and d is the number of rotations *)
(* that leave it.                                                          *)
Kept(d) ==
  /\ Len(Window') = Len(Window) + 1 - d
  /\ \A i \in 1 .. Len(Window') - 1 :
       i + d \in 1 .. Len(Window) /\ Window'[i] = Window[i + d]

Moved(e) ==
  /\ Window' # <<>> /\ Window'[Len(Window')] = e
  /\ SW!Slide(e)
  /\ Kept(0) \/ Kept(1)

LEMMA WindowStep ==
  ASSUME RingInv, WindowOK', NEW e \in Rotation,
         Fill(e) \/ FillLast(e) \/ Replace(e)
  PROVE  Moved(e)
<1>a. /\ Window \in Seq(Rotation) /\ Len(Window) = 4 - missing
      /\ \A i \in 1 .. 4 - missing :
           Window[i] = prvHistory[(start + (i - 1)) % 4]
  BY WindowProperties DEF WindowOK
<1>b. /\ Window' \in Seq(Rotation) /\ Len(Window') = 4 - missing'
      /\ \A i \in 1 .. 4 - missing' :
           Window'[i] = prvHistory'[(start' + (i - 1)) % 4]
  BY DEF WindowOK
<1>c. /\ missing \in 0 .. 4 /\ start \in 0 .. StartWord - 1
      /\ prvHistory \in [0 .. 3 -> Rotation \cup {NoRotation}]
      /\ missing > 0 => start = 0
  BY ConstantTypes DEF RingInv
<1>1. CASE Fill(e) \/ FillLast(e)
  <2>1. /\ missing \in 1 .. 4 /\ missing' = missing - 1
        /\ start = 0 /\ start' = 0
        /\ prvHistory' = [prvHistory EXCEPT ![4 - missing] = e]
    BY <1>1, <1>c, FillRing
  <2>2. /\ Append(Window, e) \in Seq(Rotation)
        /\ Len(Append(Window, e)) = Len(Window) + 1
        /\ \A i \in 1 .. Len(Window) : Append(Window, e)[i] = Window[i]
        /\ Append(Window, e)[Len(Window) + 1] = e
    BY <1>a, AppendProperties
  <2>3. Len(Window') = Len(Window) + 1 /\ Len(Window) \in Nat
        /\ Len(Window) < 4
    BY <1>a, <1>b, <1>c, <2>1
  <2>4. ASSUME NEW i \in 1 .. Len(Window')
        PROVE  Window'[i] = Append(Window, e)[i]
    <3>1. /\ Window'[i] = prvHistory'[i - 1] /\ i - 1 \in 0 .. 3
      <4>1. i \in 1 .. 4 - missing' /\ (0 + (i - 1)) % 4 = i - 1
        BY <1>b, <1>c, <2>1, <2>4
      <4> QED
        BY <1>b, <1>c, <2>1, <4>1
    <3>2. CASE i = Len(Window) + 1
      BY <1>a, <1>c, <2>1, <2>2, <3>1, <3>2
    <3>3. CASE i \in 1 .. Len(Window)
      <4>1. i \in 1 .. 4 - missing /\ (0 + (i - 1)) % 4 = i - 1
            /\ i - 1 # 4 - missing
        BY <1>a, <1>c, <2>1, <3>3
      <4>2. Window[i] = prvHistory[i - 1]
        BY <1>a, <2>1, <4>1
      <4> QED
        BY <1>c, <2>1, <2>2, <3>1, <3>3, <4>1, <4>2
    <3> QED
      BY <2>3, <2>4, <3>2, <3>3
  <2>5. Window' = Append(Window, e)
    BY <1>b, <2>2, <2>3, <2>4, SeqEqual
  <2> QED
    BY <1>a, <2>2, <2>3, <2>5, EmptySeq, ConstantTypes
    DEF SW!Slide, Moved, Kept
<1>2. CASE Replace(e)
  <2>1. /\ missing = 0 /\ missing' = 0 /\ start' = NextStart
        /\ prvHistory' = [prvHistory EXCEPT ![start % 4] = e]
    BY <1>2 DEF Replace, Mask, prvHMAX
  <2>2. \A k \in 0 .. 3 : (start' + k) % 4 = (start + k + 1) % 4
    BY <1>c, <2>1, ConstantTypes DEF NextStart
  <2>3. Len(Window) = 4 /\ Len(Window') = 4 /\ Window # <<>>
    <3>1. Len(Window) = 4 /\ Len(Window') = 4
      BY <1>a, <1>b, <2>1
    <3>2. Len(<<>>) = 0
      OBVIOUS
    <3> QED
      BY <3>1, <3>2
  <2>5. /\ Append(Tail(Window), e) \in Seq(Rotation)
        /\ Len(Append(Tail(Window), e)) = 4
        /\ \A i \in 1 .. 3 : Append(Tail(Window), e)[i] = Window[i + 1]
        /\ Append(Tail(Window), e)[4] = e
    <3>1. Window \in Seq(Rotation)
      BY <1>a
    <3> QED
      BY <2>3, <3>1, SlideFour, Zenon
  <2>6. ASSUME NEW i \in 1 .. 4
        PROVE  Window'[i] = Append(Tail(Window), e)[i]
    <3>1. Window'[i] = prvHistory'[(start + i) % 4]
      <4>1. (start' + (i - 1)) % 4 = (start + (i - 1) + 1) % 4
        BY <2>2
      <4>2. start + (i - 1) + 1 = start + i
        BY <1>c
      <4> QED
        BY <1>b, <2>1, <4>1, <4>2
    <3>2. CASE i = 4
      <4>1. (start + i) % 4 = start % 4 /\ start % 4 \in 0 .. 3
        BY <1>c, <3>2
      <4> QED
        BY <1>c, <2>1, <2>5, <3>1, <3>2, <4>1
    <3>3. CASE i \in 1 .. 3
      <4>1. (start + i) % 4 # start % 4 /\ (start + i) % 4 \in 0 .. 3
        BY <1>c, <3>3
      <4>2. Window[i + 1] = prvHistory[(start + i) % 4]
        <5>1. i + 1 \in 1 .. 4 - missing /\ start + ((i + 1) - 1) = start + i
          BY <1>c, <2>1, <3>3
        <5> QED
          BY <1>a, <5>1
      <4> QED
        BY <1>c, <2>1, <2>5, <3>1, <3>3, <4>1, <4>2
    <3>4. i = 4 \/ i \in 1 .. 3
      OBVIOUS
    <3> QED
      BY <3>2, <3>3, <3>4
  <2>7. Window' = Append(Tail(Window), e)
    BY <1>b, <2>3, <2>5, <2>6, SeqEqual
  <2>8. SW!Slide(e)
    <3>1. ~(Len(Window) < prvHMAX)
      BY <2>3 DEF prvHMAX
    <3> QED
      BY <2>7, <3>1, Zenon DEF SW!Slide
  <2>9. Window' # <<>> /\ Window'[Len(Window')] = e
    <3>1. Len(<<>>) = 0
      OBVIOUS
    <3> QED
      BY <2>3, <2>5, <2>7, <3>1
  <2>10. Kept(1)
    <3>1. Len(Window') = Len(Window) + 1 - 1
      BY <2>3
    <3>2. ASSUME NEW i \in 1 .. Len(Window') - 1
          PROVE  i + 1 \in 1 .. Len(Window) /\ Window'[i] = Window[i + 1]
      <4>1. i \in 1 .. 3 /\ i + 1 \in 1 .. Len(Window)
        BY <2>3
      <4>2. Append(Tail(Window), e)[i] = Window[i + 1]
        BY <2>5, <4>1
      <4> QED
        BY <2>7, <4>1, <4>2, Zenon
    <3> QED
      BY <3>1, <3>2 DEF Kept
  <2> QED
    BY <2>8, <2>9, <2>10, Zenon DEF Moved
<1> QED
  BY <1>1, <1>2

(* The ring is what it is for: however often it and start have wrapped     *)
(* around, it holds the last four rotations from oldest to newest.         *)
THEOREM RingIsSlidingWindow == Spec => KeepsLastRotations
<1>1. Init => SW!WindowInit
  <2> SUFFICES ASSUME Init PROVE Window = <<>>
    BY DEF SW!WindowInit
  <2>1. RingInv
    BY ConstantTypes DEF Init, RingInv, Rotation, Source!Rotation, Source!Beginning
  <2> QED
    BY <2>1, WindowProperties, EmptySeq, ConstantTypes DEF Init, WindowOK
<1>b. RingInv' => WindowOK'
  BY WindowProperties, PTL
<1>2. RingInv /\ RingInv' /\ [Next]_vars => [SW!WindowNext]_Window
  <2> SUFFICES ASSUME RingInv, RingInv', [Next]_vars
               PROVE  SW!WindowNext \/ Window' = Window
    OBVIOUS
  <2>1. ASSUME NEW e \in Rotation, Arrives(e)
        PROVE  SW!WindowNext
    <3>1. Fill(e) \/ FillLast(e) \/ Replace(e)
      BY <2>1 DEF Arrives
    <3>2. Moved(e)
      BY <1>b, <3>1, WindowStep
    <3> QED
      BY <3>2 DEF Moved, SW!WindowNext
  <2>2. CASE UNCHANGED ringVars
    BY <2>2 DEF ringVars, Window
  <2> QED
    BY <2>1, <2>2, NextCases DEF Timeout, vars
<1> QED
  BY <1>1, <1>2, RingCorrect, PTL DEF Spec, KeepsLastRotations, SW!WindowSpec

-----------------------------------------------------------------------------
(* The window is in the order of time: a is the earlier rotation, further  *)
(* from b than the filter asks, and lost minutes do not turn the order.    *)
(* What the source promises of each rotation and the next thus holds of    *)
(* any two of the ring.                                                    *)
Earlier(a, b) == Source!Spaced(a, b) /\ Source!LossKept(a, b)

OrderInv ==
  /\ \A i \in 1 .. Len(Window) :
       /\ Window[i].minuteCount <= MaxMinutes
       /\ Window[i] = last \/ Earlier(Window[i], last)
  /\ \A i, j \in 1 .. Len(Window) : i < j => Earlier(Window[i], Window[j])

LEMMA EarlierTransitive ==
  ASSUME NEW a \in Rotation, NEW b \in Rotation, NEW c \in Rotation,
         Earlier(a, b), Earlier(b, c)
  PROVE  Earlier(a, c)
<1>1. Source!Spaced(a, c)
  BY ConstantTypes DEF Earlier, Rotation, Source!Rotation, Source!Spaced
<1>2. Source!LossKept(a, c)
  BY DEF Earlier, Rotation, Source!Rotation, Source!LossKept, Source!Loss
<1> QED
  BY <1>1, <1>2 DEF Earlier

LEMMA OrderStep ==
  ASSUME RingInv, OrderInv, WindowOK', NEW e \in Rotation, Moved(e),
         last' = e,
         e.minuteCount <= MaxMinutes, Earlier(last, e)
  PROVE  OrderInv'
<1>a. Window \in Seq(Rotation) /\ Window' \in Seq(Rotation)
  BY WindowProperties DEF WindowOK
<1>b. last \in Rotation
  BY DEF RingInv
<1>c. /\ Len(Window) \in Nat /\ Len(Window') \in Nat
      /\ \A i \in 1 .. Len(Window) : Window[i] \in Rotation
      /\ \A i \in 1 .. Len(Window') : Window'[i] \in Rotation
  BY <1>a, ElementOfSeq, LenProperties
<1>d. Window'[Len(Window')] = e
  BY Zenon DEF Moved
<1>1. PICK d \in {0, 1} : Kept(d)
  BY Zenon DEF Moved
<1>2. \A i \in 1 .. Len(Window) : Earlier(Window[i], e)
  BY <1>b, <1>c, EarlierTransitive, Zenon DEF OrderInv
<1>3. \A i \in 1 .. Len(Window') - 1 :
        /\ i + d \in 1 .. Len(Window)
        /\ Window'[i] = Window[i + d]
  BY <1>1, Zenon DEF Kept
<1>4. \A i \in 1 .. Len(Window') - 1 :
        Window'[i].minuteCount <= MaxMinutes /\ Earlier(Window'[i], e)
  BY <1>2, <1>3, Zenon DEF OrderInv
<1>5. ASSUME NEW i \in 1 .. Len(Window')
      PROVE  /\ Window'[i].minuteCount <= MaxMinutes
             /\ Window'[i] = last' \/ Earlier(Window'[i], last')
  <2>1. i = Len(Window') \/ i \in 1 .. Len(Window') - 1
    BY <1>c
  <2> QED
    BY <1>d, <1>4, <2>1, Zenon
<1>6. ASSUME NEW i \in 1 .. Len(Window'), NEW j \in 1 .. Len(Window'), i < j
      PROVE  Earlier(Window'[i], Window'[j])
  <2>1. i \in 1 .. Len(Window') - 1
    BY <1>c, <1>6
  <2>2. CASE j = Len(Window')
    BY <1>d, <1>4, <2>1, <2>2, Zenon
  <2>3. CASE j # Len(Window')
    <3>1. j \in 1 .. Len(Window') - 1 /\ i + d < j + d
      BY <1>c, <1>6, <2>3
    <3> QED
      BY <1>3, <2>1, <3>1, Zenon DEF OrderInv
  <2> QED
    BY <2>2, <2>3
<1>7. \A i, j \in 1 .. Len(Window') : i < j => Earlier(Window'[i], Window'[j])
  BY <1>6, Zenon
<1> QED
  BY <1>5, <1>7, Zenon
  DEF OrderInv, Earlier, Source!Spaced, Source!LossKept, Source!Loss

LEMMA OrderCorrect == Spec => []OrderInv
<1>1. Init => OrderInv
  <2> SUFFICES ASSUME Init PROVE OrderInv
    OBVIOUS
  <2>1. RingInv
    BY ConstantTypes DEF Init, RingInv, Rotation, Source!Rotation, Source!Beginning
  <2>2. Len(Window) = 0
    BY <2>1, WindowProperties, ConstantTypes DEF Init, WindowOK
  <2> QED
    BY <2>2 DEF OrderInv, Init
<1>b. RingInv' => WindowOK'
  BY WindowProperties, PTL
<1>2. RingInv /\ RingInv' /\ OrderInv /\ [Next]_vars => OrderInv'
  <2> SUFFICES ASSUME RingInv, RingInv', OrderInv, [Next]_vars
               PROVE  OrderInv'
    OBVIOUS
  <2>1. ASSUME NEW e \in Rotation, Arrives(e)
        PROVE  OrderInv'
    <3>1. /\ e.minuteCount <= MaxMinutes
          /\ Fill(e) \/ FillLast(e) \/ Replace(e)
          /\ last' = e /\ Earlier(last, e)
      BY <2>1 DEF Arrives, Earlier
    <3>2. Moved(e)
      BY <1>b, <3>1, WindowStep
    <3> QED
      BY <1>b, <3>1, <3>2, OrderStep
  <2>2. CASE UNCHANGED <<ringVars, last>>
    <3>1. Window' = Window /\ last' = last
      BY <2>2 DEF ringVars, Window
    <3> QED
      BY <3>1
      DEF OrderInv, Earlier, Source!Spaced, Source!LossKept, Source!Loss
  <2> QED
    BY <2>1, <2>2, NextCases DEF Timeout, vars
<1> QED
  BY <1>1, <1>2, RingCorrect, PTL DEF Spec

-----------------------------------------------------------------------------
(* The sum, read off the window.                                           *)

(* The ring is full of rotations of the minutes modelled.                  *)
FullRing(h) ==
  \A k \in Slots : h[k] \in Rotation /\ h[k].minuteCount <= MaxMinutes

LEMMA PairTypes ==
  ASSUME NEW h, NEW s \in Nat, FullRing(h), NEW j \in 0 .. 1
  PROVE  /\ H0(h, s, j) \in Rotation /\ H1(h, s, j) \in Rotation
         /\ MinuteDiff(h, s, j) \in UInt
         /\ USub(H1(h, s, j).captureCount, H0(h, s, j).captureCount) \in UInt
<1> DEFINE a == H0(h, s, j)
           b == H1(h, s, j)
<1>1. /\ Mask(s + j) \in Slots
      /\ Mask(s + prvHMAX \div 2 + j) \in Slots
  BY ConstantTypes DEF Mask
<1>2. /\ a \in Rotation /\ a.minuteCount <= MaxMinutes
      /\ b \in Rotation /\ b.minuteCount <= MaxMinutes
  BY <1>1, Zenon DEF FullRing, H0, H1
<1> HIDE DEF a, b
<1>3. /\ a.minuteCount \in 0 .. Word - 1 /\ b.minuteCount \in 0 .. Word - 1
      /\ a.captureCount \in 0 .. Word - 1 /\ b.captureCount \in 0 .. Word - 1
  BY <1>2, ConstantTypes DEF Rotation, Source!Rotation
<1>4. /\ USub(b.minuteCount, a.minuteCount) \in UInt
      /\ USub(b.captureCount, a.captureCount) \in UInt
  BY <1>3, ConstantTypes DEF USub, UInt
<1> QED
  BY <1>2, <1>4, Zenon DEF a, b, MinuteDiff

LEMMA SumType ==
  ASSUME NEW h, NEW s \in Nat, FullRing(h), Invalid(h, s) = {}
  PROVE  /\ Sum(h, s) \in Nat
         /\ MinuteDiff(h, s, 0) \in 0 .. 2 /\ MinuteDiff(h, s, 1) \in 0 .. 2
<1>1. ASSUME NEW j \in 0 .. 1
      PROVE  MinuteDiff(h, s, j) \in 0 .. 2 /\ TickDiff(h, s, j) \in Nat
  <2> DEFINE n == MinuteDiff(h, s, j)
             u == USub(H1(h, s, j).captureCount, H0(h, s, j).captureCount)
  <2>1. n \in 0 .. Word - 1 /\ u \in 0 .. Word - 1
    BY <1>1, PairTypes, Zenon DEF UInt
  <2>2. ~(n > 2)
    <3>1. j \in 0 .. prvHMAX \div 2 - 1
      BY DEF prvHMAX
    <3> QED
      BY <3>1, Zenon DEF Invalid
  <2>3. TickDiff(h, s, j) = n * TicksPerMinute + u
    BY Zenon DEF TickDiff
  <2> HIDE DEF n, u
  <2>4. n \in {0, 1, 2} /\ u \in Nat
    BY <2>1, <2>2, ConstantTypes
  <2>5. n * TicksPerMinute + u \in Nat
    BY <2>4, ConstantTypes
  <2> QED
    BY <2>3, <2>4, <2>5 DEF n
<1> QED
  BY <1>1 DEF Sum

LEMMA FullWindow ==
  RingInv /\ OrderInv => (missing = 0 => FullRing(prvHistory))
<1> SUFFICES ASSUME RingInv, OrderInv, missing = 0, NEW k \in Slots
             PROVE  /\ prvHistory[k] \in Rotation
                    /\ prvHistory[k].minuteCount <= MaxMinutes
  BY DEF FullRing
<1>1. /\ Window \in Seq(Rotation) /\ Len(Window) = 4
      /\ \A i \in 1 .. 4 : Window[i] = prvHistory[(start + (i - 1)) % 4]
  BY WindowProperties DEF WindowOK
<1>2. start \in Nat
  BY ConstantTypes DEF RingInv
<1>3. \E i \in 1 .. 4 : (start + (i - 1)) % 4 = k
  <2> DEFINE r == start % 4
  <2>1. r \in 0 .. 3 /\ k \in 0 .. 3
    BY <1>2, ConstantTypes
  <2>2. PICK q \in 0 .. 3 : (start + q) % 4 = k
    BY <1>2, <2>1
  <2>3. q + 1 \in 1 .. 4 /\ (start + ((q + 1) - 1)) % 4 = k
    BY <1>2, <2>2
  <2> QED
    BY <2>3, Zenon
<1>4. PICK i \in 1 .. 4 : Window[i] = prvHistory[k]
  BY <1>1, <1>3
<1>5. Window[i] \in Rotation /\ Window[i].minuteCount <= MaxMinutes
  BY <1>1, ElementOfSeq DEF OrderInv
<1> QED
  BY <1>4, <1>5

LEMMA QuotientType ==
  ASSUME NEW a \in Nat, NEW b \in Nat
  PROVE  Quotient(a, b) \subseteq UInt
<1>1. CASE b = 0
  BY <1>1, ConstantTypes DEF Quotient, UInt
<1>2. CASE b # 0
  <2>1. a \div b \in Int
    BY <1>2
  <2>2. (a \div b) % Word \in 0 .. Word - 1
    BY <2>1, ConstantTypes
  <2> QED
    BY <1>2, <2>2, Zenon DEF Quotient, UInt
<1> QED
  BY <1>1, <1>2

(* What a calculation shows, and the sum it shows it from.                 *)
LEMMA CalculateResult ==
  ASSUME NEW h, NEW s \in Nat, FullRing(h), Calculate(h, s)
  PROVE  /\ line1' \in {"Invalid mC diff.", "rpm rps"}
         /\ line2' \in [text : {"mC diff"}, n : UInt]
                    \cup [text : {"speed"}, rpm : UInt, rpsx100 : UInt]
         /\ \/ tick_diff_sum' = NoSum
            \/ Invalid(h, s) = {} /\ tick_diff_sum' = Sum(h, s)
         /\ tick_diff_sum' \in Nat \cup {NoSum}
<1>1. CASE Invalid(h, s) # {}
  <2> DEFINE j == IF 0 \in Invalid(h, s) THEN 0 ELSE 1
  <2>1. /\ line1' = "Invalid mC diff."
        /\ line2' = [text |-> "mC diff", n |-> MinuteDiff(h, s, j)]
        /\ tick_diff_sum' = NoSum
    BY <1>1, Zenon DEF Calculate
  <2>2. j \in 0 .. 1
    OBVIOUS
  <2>3. MinuteDiff(h, s, j) \in UInt
    BY <2>2, PairTypes, Zenon
  <2> QED
    BY <2>1, <2>3
<1>2. CASE Invalid(h, s) = {}
  <2> DEFINE average == (Sum(h, s) \div (prvHMAX \div 2)) \div (prvHMAX \div 2)
  <2>1. /\ line1' = "rpm rps"
        /\ \E r \in Quotient(TicksPerMinute, average),
              x \in Quotient(100 * tick_Hz, average) :
             line2' = [text |-> "speed", rpm |-> r, rpsx100 |-> x]
        /\ tick_diff_sum' = Sum(h, s)
    BY <1>2, Zenon DEF Calculate
  <2>2. Sum(h, s) \in Nat
    BY <1>2, SumType, Zenon
  <2>3. average \in Nat /\ TicksPerMinute \in Nat /\ 100 * tick_Hz \in Nat
    BY <2>2, ConstantTypes
  <2> HIDE DEF average
  <2>4. PICK r \in UInt, x \in UInt :
          line2' = [text |-> "speed", rpm |-> r, rpsx100 |-> x]
    BY <2>1, <2>3, QuotientType, Zenon
  <2> QED
    BY <1>2, <2>1, <2>2, <2>4
<1> QED
  BY <1>1, <1>2

-----------------------------------------------------------------------------
(* What the lines show, and the sum the last speed shown was made of: the  *)
(* ring as it still is.                                                    *)
Shown ==
  /\ tick_diff_sum \in Nat \cup {NoSum}
  /\ line1 \in {"---", "Missing values", "Invalid mC diff.", "rpm rps",
                "Sensor timeout."}
  /\ line2 \in [text : {"==="}]
            \cup [text : {"missing"}, n : 1 .. prvHMAX - 1]
            \cup [text : {"mC diff"}, n : UInt]
            \cup [text : {"speed"}, rpm : UInt, rpsx100 : UInt]

SumInv ==
  tick_diff_sum # NoSum =>
    /\ missing = 0
    /\ Invalid(prvHistory, start) = {}
    /\ tick_diff_sum = Sum(prvHistory, start)

LEMMA SumCorrect == Spec => [](Shown /\ SumInv)
<1>1. Init => Shown /\ SumInv
  BY DEF Init, Shown, SumInv
<1>a. RingInv' /\ OrderInv' => (missing = 0 => FullRing(prvHistory))'
  BY FullWindow, PTL
<1>b. RingInv' /\ OrderInv' => (missing' = 0 => FullRing(prvHistory'))
  BY <1>a DEF FullRing
<1>2. RingInv /\ RingInv' /\ OrderInv' /\ Shown /\ SumInv /\ [Next]_vars
        => Shown' /\ SumInv'
  <2> SUFFICES ASSUME RingInv, RingInv', OrderInv', Shown, SumInv, [Next]_vars
               PROVE  Shown' /\ SumInv'
    OBVIOUS
  <2>1. ASSUME NEW e, Fill(e) \/ FillLast(e) \/ Replace(e)
        PROVE  Shown' /\ SumInv'
    <3>1. CASE Fill(e)
      <4>1. /\ missing > 1 /\ missing' = missing - 1
            /\ line1' = "Missing values"
            /\ line2' = [text |-> "missing", n |-> missing']
            /\ tick_diff_sum' = NoSum
        BY <3>1, Zenon DEF Fill
      <4>2. missing' \in 1 .. prvHMAX - 1
        <5>1. missing > 1 /\ missing' = missing - 1
          BY <4>1
        <5> QED
          BY <5>1, ConstantTypes DEF RingInv
      <4> QED
        BY <4>1, <4>2 DEF Shown, SumInv
    <3>2. ASSUME missing' = 0, Calculate(prvHistory', start')
          PROVE  Shown' /\ SumInv'
      <4>1. FullRing(prvHistory') /\ start' \in Nat
        BY <1>b, <3>2, ConstantTypes DEF RingInv
      <4>2. /\ line1' \in {"Invalid mC diff.", "rpm rps"}
            /\ line2' \in [text : {"mC diff"}, n : UInt]
                       \cup [text : {"speed"}, rpm : UInt, rpsx100 : UInt]
            /\ \/ tick_diff_sum' = NoSum
               \/ /\ Invalid(prvHistory', start') = {}
                  /\ tick_diff_sum' = Sum(prvHistory', start')
            /\ tick_diff_sum' \in Nat \cup {NoSum}
        BY <3>2, <4>1, CalculateResult
      <4>3. Shown'
        BY <4>2, Zenon DEF Shown
      <4>4. SumInv'
        <5>1. /\ Invalid(prvHistory, start)' = Invalid(prvHistory', start')
              /\ Sum(prvHistory, start)' = Sum(prvHistory', start')
          BY DEF Invalid, Sum, MinuteDiff, TickDiff, H0, H1
        <5> QED
          BY <3>2, <4>2, <5>1, Zenon DEF SumInv
      <4> QED
        BY <4>3, <4>4
    <3>3. CASE FillLast(e)
      <4>1. missing' = 0 /\ Calculate(prvHistory', start) /\ start' = start
        BY <3>3, Zenon DEF FillLast
      <4> QED
        BY <3>2, <4>1, Zenon
    <3>4. CASE Replace(e)
      <4>1. missing' = 0 /\ Calculate(prvHistory', start')
        BY <3>4, Zenon DEF Replace
      <4> QED
        BY <3>2, <4>1, Zenon
    <3> QED
      BY <2>1, <3>1, <3>3, <3>4
  <2>2. CASE Timeout
    <3>1. /\ line1' = "Sensor timeout." /\ line2' = line2
          /\ tick_diff_sum' = tick_diff_sum
          /\ prvHistory' = prvHistory /\ start' = start /\ missing' = missing
      BY <2>2 DEF Timeout, ringVars
    <3> QED
      BY <3>1, Zenon DEF Shown, SumInv
  <2>3. CASE UNCHANGED vars
    <3>1. /\ line1' = line1 /\ line2' = line2
          /\ tick_diff_sum' = tick_diff_sum
          /\ prvHistory' = prvHistory /\ start' = start /\ missing' = missing
      BY <2>3 DEF vars, ringVars, lineVars
    <3> QED
      BY <3>1, Zenon DEF Shown, SumInv
  <2> QED
    BY <2>1, <2>2, <2>3, NextCases DEF Arrives
<1> QED
  BY <1>1, <1>2, RingCorrect, OrderCorrect, PTL DEF Spec

(* Every state is of its types: the calculation never meets an entry that  *)
(* was not filled in, and what it shows fits the 32 bits it is printed as. *)
THEOREM TypeCorrect == Spec => []TypeOK
<1>1. RingInv /\ Shown => TypeOK
  BY Zenon DEF RingInv, Shown, TypeOK
<1> QED
  BY <1>1, RingCorrect, SumCorrect, PTL

-----------------------------------------------------------------------------
(* The 32-bit difference of two captures.                                  *)
LEMMA CaptureDiff ==
  ASSUME NEW c \in 0 .. TicksPerMinute - 1, NEW d \in 0 .. TicksPerMinute - 1
  PROVE  /\ USub(d, c) \in Nat
         /\ USub(d, c) = d - c + (IF d < c THEN Word ELSE 0)
<1>1. Word \in Nat /\ c \in Nat /\ d \in Nat /\ c < Word
  BY ConstantTypes
<1> QED
  BY <1>1 DEF USub

(* The ticks of a pair of rotations, with m minutes lost between them, are *)
(* its time but for its error; if none was lost they are at least two.     *)
LEMMA PairTime ==
  ASSUME NEW a \in Rotation, NEW b \in Rotation, Earlier(a, b),
         a.minute = b.minute => a.captureCount + 2 <= b.captureCount,
         NEW n \in 0 .. 2, n = USub(b.minuteCount, a.minuteCount),
         NEW x, x = n * TicksPerMinute + USub(b.captureCount, a.captureCount),
         NEW t, t = (b.minute - a.minute) * TicksPerMinute
                      + b.captureCount - a.captureCount,
         NEW m, m = Source!Loss(b) - Source!Loss(a),
         NEW g, g = (IF b.captureCount < a.captureCount THEN Word ELSE 0)
                      - m * TicksPerMinute
  PROVE  /\ x \in Int /\ t \in Int /\ g \in Int
         /\ x = t + g
         /\ m = 0 => x >= 2
<1>1. /\ a.minute \in Nat /\ b.minute \in Nat
      /\ a.minuteCount \in Nat /\ b.minuteCount \in Nat
      /\ a.captureCount \in 0 .. TicksPerMinute - 1
      /\ b.captureCount \in 0 .. TicksPerMinute - 1
  BY DEF Rotation, Source!Rotation
<1>2. m \in Int /\ b.minute - a.minute = n + m
  BY <1>1 DEF USub, Earlier, Source!LossKept, Source!Loss
<1> DEFINE u == USub(b.captureCount, a.captureCount)
<1>3. /\ u \in Nat
      /\ u = b.captureCount - a.captureCount
               + (IF b.captureCount < a.captureCount THEN Word ELSE 0)
  BY <1>1, CaptureDiff, Zenon
<1>a. ASSUME n = 0, m = 0 PROVE u >= 2
  <2>1. a.captureCount + 2 <= b.captureCount
    BY <1>1, <1>2, <1>a
  <2> HIDE DEF u
  <2>2. u = b.captureCount - a.captureCount
    BY <1>1, <1>3, <2>1
  <2> QED
    BY <1>1, <2>1, <2>2
<1>4. (n + m) * TicksPerMinute = n * TicksPerMinute + m * TicksPerMinute
  BY <1>2, ConstantTypes
<1> DEFINE nT == n * TicksPerMinute
           mT == m * TicksPerMinute
<1>5. nT \in Nat /\ mT \in Int /\ (n > 0 => nT >= 60)
  <2>1. n = 0 \/ n = 1 \/ n = 2
    OBVIOUS
  <2>2. mT \in Int
    BY <1>2, ConstantTypes
  <2> QED
    BY <2>1, <2>2, ConstantTypes
<1>6. /\ t = nT + mT + b.captureCount - a.captureCount
      /\ x = nT + u
      /\ g = (IF b.captureCount < a.captureCount THEN Word ELSE 0) - mT
  BY <1>2, <1>4
<1> HIDE DEF u, nT, mT
<1>7. x \in Int /\ t \in Int /\ g \in Int /\ x = t + g
  BY <1>1, <1>3, <1>5, <1>6, ConstantTypes
<1>8. m = 0 => x >= 2
  BY <1>3, <1>a, <1>5, <1>6
<1> QED
  BY <1>7, <1>8

(* What the two pairs of a shown speed add up to.                          *)
SumOfPairs ==
  tick_diff_sum # NoSum =>
    /\ tick_diff_sum = TrueSum + Error(1, 3) + Error(2, 4)
    /\ NoneLostInWindow => tick_diff_sum >= prvHMAX

LEMMA SumOfWindow == RingInv /\ OrderInv /\ SumInv => SumOfPairs
<1> SUFFICES ASSUME RingInv, OrderInv, SumInv, tick_diff_sum # NoSum
             PROVE  /\ tick_diff_sum = TrueSum + Error(1, 3) + Error(2, 4)
                    /\ NoneLostInWindow => tick_diff_sum >= prvHMAX
  BY DEF SumOfPairs
<1>1. /\ missing = 0 /\ start \in Nat /\ FullRing(prvHistory)
      /\ Invalid(prvHistory, start) = {}
      /\ tick_diff_sum = Sum(prvHistory, start)
  BY FullWindow, ConstantTypes DEF SumInv, RingInv
<1>2. /\ Window \in Seq(Rotation) /\ Len(Window) = 4
      /\ \A i \in 1 .. 4 : Window[i] = prvHistory[(start + (i - 1)) % 4]
  BY <1>1, WindowProperties DEF WindowOK
<1> DEFINE x(j) == TickDiff(prvHistory, start, j)
           t(j) == TrueDiff(j + 1, j + 3)
           g(j) == Error(j + 1, j + 3)
<1>3. ASSUME NEW j \in 0 .. 1
      PROVE  /\ x(j) \in Int /\ t(j) \in Int /\ g(j) \in Int
             /\ x(j) = t(j) + g(j)
             /\ NoneLostInWindow => x(j) >= 2
  <2> DEFINE a == Window[j + 1]
             b == Window[j + 2]
             c == Window[j + 3]
             n == MinuteDiff(prvHistory, start, j)
             m == Source!Loss(c) - Source!Loss(a)
  <2>1. j + 1 \in 1 .. 4 /\ j + 2 \in 1 .. 4 /\ j + 3 \in 1 .. 4
    OBVIOUS
  <2>2. H0(prvHistory, start, j) = a /\ H1(prvHistory, start, j) = c
    <3>1. /\ Mask(start + j) = (start + ((j + 1) - 1)) % 4
          /\ Mask(start + prvHMAX \div 2 + j) = (start + ((j + 3) - 1)) % 4
      BY <1>1 DEF Mask, prvHMAX
    <3> QED
      BY <1>2, <2>1, <3>1, Zenon DEF H0, H1
  <2>3. a \in Rotation /\ b \in Rotation /\ c \in Rotation
    BY <1>2, <2>1, ElementOfSeq
  <2>4. Earlier(a, b) /\ Earlier(b, c)
    BY <1>2, <2>1 DEF OrderInv
  <2>5. /\ Earlier(a, c)
        /\ a.minute = c.minute => a.captureCount + 2 <= c.captureCount
    <3> HIDE DEF a, b, c
    <3>1. Earlier(a, c)
      BY <2>3, <2>4, EarlierTransitive
    <3> QED
      BY <2>3, <2>4, <3>1, ConstantTypes
      DEF Earlier, Rotation, Source!Rotation, Source!Spaced
  <2>6. NoneLostInWindow => m = 0
    <3>1. ASSUME NoneLostInWindow PROVE Source!Loss(a) = Source!Loss(c)
      BY <1>2, <2>1, <3>1 DEF NoneLostInWindow
    <3> HIDE DEF a, c
    <3> QED
      BY <2>3, <3>1 DEF Source!Loss, Rotation, Source!Rotation
  <2>7. n \in 0 .. 2 /\ n = USub(c.minuteCount, a.minuteCount)
    <3>1. n = USub(c.minuteCount, a.minuteCount)
      BY <2>2, Zenon DEF MinuteDiff
    <3>2. MinuteDiff(prvHistory, start, 0) \in 0 .. 2
          /\ MinuteDiff(prvHistory, start, 1) \in 0 .. 2
      BY <1>1, SumType
    <3>3. j = 0 \/ j = 1
      OBVIOUS
    <3> QED
      BY <3>1, <3>2, <3>3, Zenon
  <2>8. x(j) = n * TicksPerMinute + USub(c.captureCount, a.captureCount)
    BY <2>2, Zenon DEF TickDiff
  <2>9. t(j) = (c.minute - a.minute) * TicksPerMinute
                 + c.captureCount - a.captureCount
    BY Zenon DEF TrueDiff
  <2>10. g(j) = (IF c.captureCount < a.captureCount THEN Word ELSE 0)
                  - m * TicksPerMinute
    BY Zenon DEF Error
  <2> HIDE DEF a, b, c, n, m, x, t, g
  <2>11. m = Source!Loss(c) - Source!Loss(a)
    BY Zenon DEF m
  <2> QED
    BY <2>3, <2>5, <2>6, <2>7, <2>8, <2>9, <2>10, <2>11, PairTime
<1>4. /\ tick_diff_sum = x(0) + x(1)
      /\ TrueSum = t(0) + t(1)
      /\ Error(1, 3) = g(0) /\ Error(2, 4) = g(1)
  BY <1>1 DEF Sum, TrueSum
<1> HIDE DEF x, t, g
<1> QED
  BY <1>3, <1>4, ConstantTypes

(* The sum the speed is calculated from is the time of its rotations but   *)
(* for 2^32 where a capture goes back and the minutes lost among them:     *)
(* prvSpeedCalc's other steps, the ring, the order of the entries, the     *)
(* switch, add no error.                                                   *)
THEOREM SumErrorCorrect == Spec => []SumErrorExact
<1>1. SumOfPairs => SumErrorExact
  BY DEF SumOfPairs, SumErrorExact
<1> QED
  BY <1>1, SumOfWindow, RingCorrect, OrderCorrect, SumCorrect, PTL

(* prvSpeedCalc divides by an average of zero only if a minute was lost    *)
(* among its rotations, whatever the clock and the filter.                 *)
THEOREM ZeroOnlyIfLost == Spec => []DividesByZeroOnlyIfLost
<1>1. SumOfPairs => DividesByZeroOnlyIfLost
  BY DEF SumOfPairs, DividesByZeroOnlyIfLost
<1> QED
  BY <1>1, SumOfWindow, RingCorrect, OrderCorrect, SumCorrect, PTL
=============================================================================
