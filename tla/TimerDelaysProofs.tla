-------------------------- MODULE TimerDelaysProofs --------------------------
(***************************************************************************)
(* Proofs about TimerDelays for every length of a minute, every set of     *)
(* delays and every latency.                                               *)
(*                                                                         *)
(* All of them rest on MatchInv, which says where the two match registers  *)
(* stand.  ShortInv, CutInv and AwaitInv add what each property needs to   *)
(* know of the flags and of the handler's run.                             *)
(***************************************************************************)
EXTENDS TimerDelays, TLAPS

LEMMA ConstantTypes ==
  /\ TicksPerMinute \in Nat /\ TicksPerMinute > 0
  /\ MaxLag \in Nat
  /\ \A d \in Delays : d \in Nat /\ MaxLag < d /\ d < TicksPerMinute
BY TimingAssumption

(* Every variable's value stays in its type.                               *)
THEOREM TypeCorrect == DelaysSpec => []DelaysTypeOK
<1>1. DelaysInit => DelaysTypeOK
  <2> SUFFICES ASSUME DelaysInit PROVE DelaysTypeOK
    OBVIOUS
  <2>1. /\ mr1Int \in BOOLEAN /\ active \in BOOLEAN
        /\ stale \in BOOLEAN /\ cut \in BOOLEAN
    BY Zenon DEF DelaysInit, IrqInit
  <2>2. /\ tc \in TickCounts /\ ir \subseteq Flags /\ mr1 \in Nat
        /\ isr \in {"out", "mr1", "cr2", "store"} /\ lag \in 0 .. MaxLag
        /\ delay \in {"out", "arm", "spin"} /\ drStop \in Nat
        /\ age \in 0 .. TicksPerMinute /\ left \in Nat /\ old \in Nat
    BY ConstantTypes DEF DelaysInit, IrqInit, TickCounts
  <2> QED
    BY <2>1, <2>2, Zenon DEF DelaysTypeOK, IrqTypeOK
<1>2. DelaysTypeOK /\ [DelaysNext]_delaysVars => DelaysTypeOK'
  <2> SUFFICES ASSUME DelaysTypeOK, [DelaysNext]_delaysVars
               PROVE  DelaysTypeOK'
    OBVIOUS
  <2> USE ConstantTypes
      DEF DelaysTypeOK, IrqTypeOK, TickCounts, Flags, hwVars, matchVars,
          taskVars, irqVars, historyVars
  <2>1. CASE DelaysTick
    BY <2>1 DEF DelaysTick, IrqTick, NextTc, Wraps, HandlerDue, Less
  <2>2. CASE DelaysHandler
    <3>1. IrqTypeOK'
      <4>1. CASE IrqServiceMR0
        BY <4>1 DEF IrqServiceMR0, ClearFlags
      <4>2. CASE IrqServiceMR1
        BY <4>2 DEF IrqServiceMR1, ClearFlags
      <4>3. CASE IrqReadCapture
        BY <4>3 DEF IrqReadCapture
      <4>4. CASE IrqStoreCapture
        BY <4>4 DEF IrqStoreCapture, ClearFlags
      <4>5. CASE IrqNoCapture
        BY <4>5 DEF IrqNoCapture
      <4> QED
        BY <2>2, <4>1, <4>2, <4>3, <4>4, <4>5 DEF DelaysHandler, IrqHandler
    <3>2. cut' \in BOOLEAN
      <4>1. cut' = (IF active /\ ~active' THEN left > 0 ELSE cut)
        BY <2>2, Zenon DEF DelaysHandler
      <4>2. (left > 0) \in BOOLEAN
        OBVIOUS
      <4>3. cut \in BOOLEAN
        BY Zenon DEF DelaysTypeOK
      <4> QED
        BY <4>1, <4>2, <4>3, Zenon
    <3> QED
      BY <2>2, <3>1, <3>2 DEF DelaysHandler
  <2>3. ASSUME NEW d \in Delays, DelaysBegin(d) PROVE DelaysTypeOK'
    BY <2>3 DEF DelaysBegin, IrqDelayBegin
  <2>4. CASE DelaysArm
    BY <2>4 DEF DelaysArm, IrqDelayArm
  <2>5. CASE (IrqEdge \/ IrqDelayReturn) /\ UNCHANGED historyVars
    BY <2>5 DEF IrqEdge, IrqDelayReturn
  <2>6. CASE UNCHANGED delaysVars
    BY <2>6 DEF delaysVars
  <2> QED
    BY <2>1, <2>2, <2>3, <2>4, <2>5, <2>6 DEF DelaysNext
<1> QED
  BY <1>1, <1>2, PTL DEF DelaysSpec

-----------------------------------------------------------------------------
(* A match with n ticks to go, counted in this minute or, when the counter *)
(* was reset on the way, out of its reach.                                 *)
Ahead(m, n) == m = tc + n \/ m = tc + TicksPerMinute + n

(* A match that has been, at most n ticks ago, or that is out of reach.    *)
Behind(m, n) == \/ m >= TicksPerMinute
                \/ m <= tc /\ tc - m <= n
                \/ tc < m /\ tc + TicksPerMinute - m <= n

(* Of the delay that armed the match.                                      *)
Armed == IF delay = "arm" THEN old ELSE left

(* Where the match registers stand: that of the last delay is ahead by the *)
(* ticks it has left, and comes again a minute after it was reached.       *)
MatchInv ==
  /\ drStop < 2 * TicksPerMinute - 1 /\ mr1 < 2 * TicksPerMinute - 1
  /\ delay = "arm" =>
       isr = "out" /\ left + lag > MaxLag /\ Ahead(drStop, left)
  /\ mr1Int /\ Armed > 0 => Ahead(mr1, Armed)
  /\ mr1Int /\ Armed = 0 /\ age < TicksPerMinute => Behind(mr1, age)

(* What is known of the last delay when its flag is down: if it has ticks  *)
(* left it was cut short, and if its match is pending that match is late.  *)
CutInv ==
  /\ delay # "spin" => ~active
  /\ ~mr1Int => "MR1" \notin ir
  /\ ~active /\ Armed > 0 => cut
  /\ ~active /\ "MR1" \in ir => age = TicksPerMinute \/ (cut /\ Armed = 0)

LEMMA MatchInvInit == DelaysInit => MatchInv
BY ConstantTypes DEF DelaysInit, IrqInit, MatchInv, Armed, Ahead, Behind

LEMMA CutInvInit == DelaysInit => CutInv
BY DEF DelaysInit, IrqInit, CutInv, Armed

(* The steps that neither count nor begin nor arm a delay leave the        *)
(* registers where they are.                                               *)
LEMMA MatchInvStep ==
  ASSUME DelaysTypeOK, MatchInv, [DelaysNext]_delaysVars
  PROVE  MatchInv'
<1>a. /\ tc \in 0 .. TicksPerMinute - 1 /\ age \in 0 .. TicksPerMinute
      /\ mr1 \in Nat /\ drStop \in Nat /\ left \in Nat /\ old \in Nat
      /\ lag \in 0 .. MaxLag
  BY DEF DelaysTypeOK, IrqTypeOK, TickCounts
<1> USE <1>a, ConstantTypes DEF MatchInv, Armed, Ahead, Behind
<1>1. CASE DelaysTick
  <2>1. /\ tc' = IF tc = TicksPerMinute - 1 THEN 0 ELSE tc + 1
        /\ age' = IF age < TicksPerMinute THEN age + 1 ELSE age
        /\ left' = IF left > 0 THEN left - 1 ELSE 0
        /\ old' = IF old > 0 THEN old - 1 ELSE 0
        /\ mr1' = mr1 /\ drStop' = drStop /\ delay' = delay
        /\ mr1Int' = mr1Int /\ isr' = isr
    BY <1>1 DEF DelaysTick, IrqTick, NextTc, Less, matchVars, taskVars
  <2>2. delay = "arm" => lag < MaxLag /\ lag' = lag + 1
    BY <1>1 DEF DelaysTick, IrqTick, HandlerDue
  <2>3. delay' = "arm" => left' + lag' > MaxLag /\ Ahead(drStop, left)'
    BY <2>1, <2>2
  <2>4. mr1Int' /\ Armed' > 0 => Ahead(mr1, Armed)'
    BY <2>1
  <2>5. ASSUME mr1Int', Armed' = 0, age' < TicksPerMinute
        PROVE  Behind(mr1, age)'
    <3>1. CASE Armed > 0
      BY <2>1, <2>5, <3>1
    <3>2. CASE Armed = 0
      <4>1. Behind(mr1, age)
        BY <2>1, <2>5, <3>2
      <4> QED
        BY <2>1, <2>5, <4>1
    <3> QED
      BY <3>1, <3>2
  <2> QED
    BY <2>1, <2>3, <2>4, <2>5
<1>2. CASE DelaysHandler
  <2>1. /\ tc' = tc /\ age' = age /\ left' = left /\ old' = old
        /\ mr1' = mr1 /\ drStop' = drStop /\ delay' = delay
        /\ mr1Int' = mr1Int
        /\ delay # "arm"
    BY <1>2 DEF DelaysHandler, IrqHandler, IrqServiceMR0, IrqServiceMR1,
                IrqReadCapture, IrqStoreCapture, IrqNoCapture,
                hwVars, matchVars, taskVars
  <2> QED
    BY <1>2, <2>1
<1>3. ASSUME NEW d \in Delays, DelaysBegin(d) PROVE MatchInv'
  BY <1>3 DEF DelaysBegin, IrqDelayBegin, hwVars, matchVars
<1>4. CASE DelaysArm
  BY <1>4 DEF DelaysArm, IrqDelayArm, hwVars
<1>5. CASE IrqEdge /\ UNCHANGED historyVars
  BY <1>5 DEF IrqEdge, historyVars, matchVars, taskVars
<1>6. CASE IrqDelayReturn /\ UNCHANGED historyVars
  BY <1>6 DEF IrqDelayReturn, historyVars, hwVars, matchVars
<1>7. CASE UNCHANGED delaysVars
  BY <1>7 DEF delaysVars, irqVars, historyVars
<1> QED
  BY <1>1, <1>2, <1>3, <1>4, <1>5, <1>6, <1>7 DEF DelaysNext

LEMMA CutInvStep ==
  ASSUME DelaysTypeOK, MatchInv, CutInv, [DelaysNext]_delaysVars
  PROVE  CutInv'
<1>a. /\ tc \in 0 .. TicksPerMinute - 1 /\ age \in 0 .. TicksPerMinute
      /\ mr1 \in Nat /\ left \in Nat /\ old \in Nat
  BY DEF DelaysTypeOK, IrqTypeOK, TickCounts
<1> USE <1>a, ConstantTypes DEF CutInv, Armed
<1>1. CASE DelaysTick
  <2>1. /\ tc' = IF tc = TicksPerMinute - 1 THEN 0 ELSE tc + 1
        /\ age' = IF age < TicksPerMinute THEN age + 1 ELSE age
        /\ left' = IF left > 0 THEN left - 1 ELSE 0
        /\ old' = IF old > 0 THEN old - 1 ELSE 0
        /\ mr1' = mr1 /\ delay' = delay
        /\ mr1Int' = mr1Int /\ active' = active /\ cut' = cut
    BY <1>1 DEF DelaysTick, IrqTick, NextTc, Less, matchVars, taskVars
  <2>2. "MR1" \in ir' => "MR1" \in ir \/ (mr1Int /\ mr1 = tc')
    BY <1>1 DEF DelaysTick, IrqTick, NextTc
  <2>3. ~active' /\ Armed' > 0 => cut'
    BY <2>1
  <2>4. ASSUME ~active', "MR1" \in ir'
        PROVE  age' = TicksPerMinute \/ (cut' /\ Armed' = 0)
    <3>1. CASE "MR1" \in ir
      BY <2>1, <2>4, <3>1
    <3>2. CASE mr1Int /\ mr1 = tc'
      <4>1. CASE Armed > 0
        <5>1. Ahead(mr1, Armed)
          BY <3>2, <4>1 DEF MatchInv
        <5>2. Armed = 1
          BY <2>1, <3>2, <4>1, <5>1 DEF Ahead
        <5> QED
          BY <2>1, <2>4, <4>1, <5>2
      <4>2. CASE Armed = 0 /\ age < TicksPerMinute
        <5>1. Behind(mr1, age)
          BY <3>2, <4>2 DEF MatchInv
        <5> QED
          BY <2>1, <3>2, <4>2, <5>1 DEF Behind
      <4>3. CASE Armed = 0 /\ age = TicksPerMinute
        BY <2>1, <4>3
      <4> QED
        BY <4>1, <4>2, <4>3
    <3> QED
      BY <2>2, <2>4, <3>1, <3>2
  <2> QED
    BY <1>1, <2>1, <2>2, <2>3, <2>4
<1>2. CASE DelaysHandler
  <2>1. /\ age' = age /\ left' = left /\ old' = old
        /\ delay' = delay /\ mr1Int' = mr1Int /\ delay # "arm"
    BY <1>2 DEF MatchInv, DelaysHandler, IrqHandler, IrqServiceMR0, IrqServiceMR1,
                IrqReadCapture, IrqStoreCapture, IrqNoCapture,
                hwVars, matchVars, taskVars
  <2>2. /\ ir' = ir \/ ir' = {}
        /\ active' = active \/ (active' = FALSE /\ ir' = {})
    BY <1>2 DEF DelaysHandler, IrqHandler, IrqServiceMR0, IrqServiceMR1,
                IrqReadCapture, IrqStoreCapture, IrqNoCapture,
                hwVars, ClearFlags
  <2>3. /\ active /\ ~active' => (cut' <=> left > 0)
        /\ ~active \/ active' => cut' = cut
    BY <1>2 DEF DelaysHandler
  <2> QED
    BY <2>1, <2>2, <2>3
<1>3. ASSUME NEW d \in Delays, DelaysBegin(d) PROVE CutInv'
  BY <1>3 DEF DelaysBegin, IrqDelayBegin, hwVars, matchVars
<1>4. CASE DelaysArm
  BY <1>4 DEF DelaysArm, IrqDelayArm, hwVars
<1>5. CASE IrqEdge /\ UNCHANGED historyVars
  BY <1>5 DEF IrqEdge, historyVars, matchVars, taskVars
<1>6. CASE IrqDelayReturn /\ UNCHANGED historyVars
  BY <1>6 DEF IrqDelayReturn, historyVars, hwVars, matchVars
<1>7. CASE UNCHANGED delaysVars
  BY <1>7 DEF delaysVars, irqVars, historyVars
<1> QED
  BY <1>1, <1>2, <1>3, <1>4, <1>5, <1>6, <1>7 DEF DelaysNext

(* A delay is armed over an old match only if the delay before it was      *)
(* armed a minute ago or more, or was cut short and would be over by now.  *)
THEOREM CutsAreRare == DelaysSpec => CutOnlyByOldMatch
<1>1. DelaysInit => MatchInv /\ CutInv
  BY MatchInvInit, CutInvInit
<1>2. DelaysTypeOK /\ MatchInv /\ CutInv /\ [DelaysNext]_delaysVars
        => MatchInv' /\ CutInv'
  BY MatchInvStep, CutInvStep
<1>3. CutInv => (IrqDelayArm /\ "MR1" \in ir
                   => age = TicksPerMinute \/ (cut /\ old = 0))
  BY DEF CutInv, Armed, IrqDelayArm
<1>4. CutInv /\ [DelaysNext]_delaysVars
        => [IrqDelayArm /\ "MR1" \in ir
              => age = TicksPerMinute \/ (cut /\ old = 0)]_delaysVars
  BY <1>3
<1> QED
  BY <1>1, <1>2, <1>4, TypeCorrect, PTL DEF DelaysSpec, CutOnlyByOldMatch

-----------------------------------------------------------------------------
(* While a delay has ticks left its match has not been, so that a match    *)
(* that is raised, or has ended the delay, leaves it none; unless it was   *)
(* raised before the delay was armed.                                      *)
ShortInv ==
  /\ delay = "spin" => mr1Int
  /\ delay = "spin" /\ ~stale /\ ("MR1" \in ir \/ ~active) => left = 0
  /\ DelayShortOnlyIfStale

LEMMA ShortInvInit == DelaysInit => ShortInv
BY DEF DelaysInit, IrqInit, ShortInv, DelayShortOnlyIfStale

LEMMA ShortInvStep ==
  ASSUME DelaysTypeOK, MatchInv, ShortInv, [DelaysNext]_delaysVars
  PROVE  ShortInv'
<1>a. tc \in 0 .. TicksPerMinute - 1 /\ mr1 \in Nat /\ left \in Nat
  BY DEF DelaysTypeOK, IrqTypeOK, TickCounts
<1> USE <1>a, ConstantTypes DEF ShortInv, DelayShortOnlyIfStale
<1>1. CASE DelaysTick
  <2>1. /\ delay' = delay /\ stale' = stale /\ active' = active
        /\ mr1Int' = mr1Int /\ left' = IF left > 0 THEN left - 1 ELSE 0
        /\ tc' = IF tc = TicksPerMinute - 1 THEN 0 ELSE tc + 1
    BY <1>1 DEF DelaysTick, IrqTick, NextTc, Less, matchVars, taskVars
  <2>2. "MR1" \in ir' => "MR1" \in ir \/ (mr1Int /\ mr1 = tc')
    BY <1>1 DEF DelaysTick, IrqTick, NextTc
  <2>3. ASSUME delay = "spin", mr1Int, mr1 = tc' PROVE left' = 0
    <3>1. left > 0 => Ahead(mr1, left)
      BY <2>3 DEF MatchInv, Armed
    <3> QED
      BY <2>1, <2>3, <3>1 DEF Ahead
  <2> QED
    BY <2>1, <2>2, <2>3
<1>2. CASE DelaysHandler
  <2>1. left' = left /\ delay' = delay /\ mr1Int' = mr1Int /\ stale' = stale
    BY <1>2 DEF DelaysHandler, IrqHandler, IrqServiceMR0, IrqServiceMR1,
                IrqReadCapture, IrqStoreCapture, IrqNoCapture,
                hwVars, matchVars, taskVars
  <2>2. /\ ir' = ir \/ ir' = {}
        /\ active' = active \/ (active' = FALSE /\ "MR1" \in ir)
    BY <1>2 DEF DelaysHandler, IrqHandler, IrqServiceMR0, IrqServiceMR1,
                IrqReadCapture, IrqStoreCapture, IrqNoCapture,
                hwVars, ClearFlags
  <2> QED
    BY <2>1, <2>2
<1>3. ASSUME NEW d \in Delays, DelaysBegin(d) PROVE ShortInv'
  BY <1>3 DEF DelaysBegin, IrqDelayBegin
<1>4. CASE DelaysArm
  <2>1. delay' = "spin" /\ mr1Int' /\ active' /\ ir' = ir
    BY <1>4, Zenon DEF DelaysArm, IrqDelayArm, hwVars
  <2>2. stale' = ("MR1" \in ir)
    BY <1>4 DEF DelaysArm
  <2> QED
    BY <2>1, <2>2
<1>5. CASE IrqEdge /\ UNCHANGED historyVars
  BY <1>5 DEF IrqEdge, historyVars, matchVars, taskVars
<1>6. CASE IrqDelayReturn /\ UNCHANGED historyVars
  BY <1>6 DEF IrqDelayReturn, historyVars, hwVars, matchVars
<1>7. CASE UNCHANGED delaysVars
  BY <1>7 DEF delaysVars, irqVars, historyVars
<1> QED
  BY <1>1, <1>2, <1>3, <1>4, <1>5, <1>6, <1>7 DEF DelaysNext

(* A delay that was armed without an old match pending lasts as long as it *)
(* was asked for, even across the reset of the counter.                    *)
THEOREM DelayCorrect == DelaysSpec => []DelayShortOnlyIfStale
<1>1. DelaysInit => MatchInv /\ ShortInv
  BY MatchInvInit, ShortInvInit
<1>2. DelaysTypeOK /\ MatchInv /\ ShortInv /\ [DelaysNext]_delaysVars
        => MatchInv' /\ ShortInv'
  BY MatchInvStep, ShortInvStep
<1>3. ShortInv => DelayShortOnlyIfStale
  BY DEF ShortInv
<1> QED
  BY <1>1, <1>2, <1>3, TypeCorrect, PTL DEF DelaysSpec

-----------------------------------------------------------------------------
(* A run of the handler that began with the flag of the minute, and to     *)
(* which that flag's block has left nothing else to do.                    *)
Swept == /\ isr \in {"mr1", "cr2"} /\ "CR2" \notin ir
         /\ isr = "mr1" => "MR1" \notin ir

(* What stands between a delay and its match, if that lies in the minute   *)
(* in which the delay began.  Before the match, the flag of the minute can *)
(* only be one from before the delay was armed, and is served in time.     *)
(* Once the match is raised it is served before the minute is over.  And   *)
(* if a capture's block has wiped it out, the flag of the minute between   *)
(* is served before it comes again.                                        *)
AwaitInv ==
  /\ delay = "arm" => drStop > MaxLag
  /\ delay = "spin" => mr1 > MaxLag
  /\ EndsInThisMinute /\ active =>
       \/ /\ left > 0
          /\ "MR0" \in ir => isr = "out"
          /\ "MR0" \in ir \/ Swept => left + lag > MaxLag
       \/ /\ left = 0 /\ "MR1" \in ir
          /\ mr1 <= tc /\ tc <= mr1 + lag
          /\ "MR0" \notin ir /\ ~Swept
       \/ /\ left = 0 /\ "MR1" \notin ir
          /\ "MR0" \in ir \/ Swept => tc <= lag
          /\ ~("MR0" \in ir /\ Swept)

LEMMA NoLess == \A m, n \in Nat : m <= m /\ m <= m + n
OBVIOUS

LEMMA AwaitInvInit == DelaysInit => AwaitInv
BY DEF DelaysInit, IrqInit, AwaitInv, EndsInThisMinute

LEMMA AwaitInvStep ==
  ASSUME DelaysTypeOK, MatchInv, ShortInv, AwaitInv, [DelaysNext]_delaysVars
  PROVE  AwaitInv'
<1>a. /\ tc \in 0 .. TicksPerMinute - 1 /\ lag \in 0 .. MaxLag
      /\ mr1 \in Nat /\ drStop \in Nat /\ left \in Nat
  BY DEF DelaysTypeOK, IrqTypeOK, TickCounts
<1> USE <1>a, ConstantTypes DEF AwaitInv, EndsInThisMinute
<1>1. CASE DelaysTick
  <2>1. /\ tc' = IF tc = TicksPerMinute - 1 THEN 0 ELSE tc + 1
        /\ left' = IF left > 0 THEN left - 1 ELSE 0
        /\ mr1' = mr1 /\ drStop' = drStop /\ delay' = delay
        /\ isr' = isr /\ active' = active
    BY <1>1 DEF DelaysTick, IrqTick, NextTc, Less, matchVars, taskVars
  <2>2. /\ HandlerDue => lag < MaxLag /\ lag' = lag + 1
        /\ ~HandlerDue => lag' = 0
    BY <1>1 DEF DelaysTick, IrqTick
  <2>3. /\ "MR0" \in ir' <=> "MR0" \in ir \/ tc = TicksPerMinute - 1
        /\ "MR1" \in ir' <=> "MR1" \in ir \/ (mr1Int /\ mr1 = tc')
        /\ "CR2" \in ir' <=> "CR2" \in ir
    BY <1>1, <2>1 DEF DelaysTick, IrqTick, NextTc, Wraps
  <2>4. ir # {} \/ isr # "out" => HandlerDue
    BY DEF HandlerDue
  <2>5. Swept' => Swept
    BY <2>1, <2>3 DEF Swept
  <2>6. SUFFICES ASSUME EndsInThisMinute, active
        PROVE  \/ /\ left' > 0
                  /\ "MR0" \in ir' => isr' = "out"
                  /\ "MR0" \in ir' \/ Swept' => left' + lag' > MaxLag
               \/ /\ left' = 0 /\ "MR1" \in ir'
                  /\ mr1' <= tc' /\ tc' <= mr1' + lag'
                  /\ "MR0" \notin ir' /\ ~Swept'
               \/ /\ left' = 0 /\ "MR1" \notin ir'
                  /\ "MR0" \in ir' \/ Swept' => tc' <= lag'
                  /\ ~("MR0" \in ir' /\ Swept')
    BY <2>1
  <2>7. CASE left > 0
    <3>1. mr1 = tc + left
      BY <2>6, <2>7 DEF MatchInv, ShortInv, Armed, Ahead
    <3>2. "MR0" \in ir' => "MR0" \in ir
      BY <2>3, <2>6, <2>7, <3>1
    <3>3. "MR0" \in ir \/ Swept => left + lag > MaxLag /\ HandlerDue
      BY <2>4, <2>6, <2>7 DEF Swept
    <3>4. CASE left > 1
      BY <2>1, <2>2, <2>5, <2>6, <2>7, <3>2, <3>3, <3>4
    <3>5. CASE left = 1
      <4>1. "MR0" \notin ir /\ ~Swept
        BY <2>2, <3>3, <3>5
      <4>2. left' = 0 /\ mr1 = tc' /\ "MR1" \in ir' /\ lag' \in Nat
        BY <2>1, <2>2, <2>3, <2>6, <3>1, <3>5 DEF ShortInv
      <4>3. "MR0" \notin ir' /\ ~Swept'
        BY <2>5, <3>2, <4>1
      <4>4. mr1' <= tc' /\ tc' <= mr1' + lag'
        <5>1. mr1' = tc' /\ mr1' \in Nat /\ lag' \in Nat
          BY <2>1, <4>2
        <5> QED
          BY <5>1, NoLess, Zenon
      <4> QED
        BY <4>2, <4>3, <4>4
    <3> QED
      BY <2>7, <3>4, <3>5
  <2>8. CASE left = 0 /\ "MR1" \in ir
    <3>1. HandlerDue
      BY <2>4, <2>8
    <3>2. tc + 1 < TicksPerMinute
      BY <2>2, <2>6, <2>8, <3>1
    <3> QED
      BY <2>1, <2>2, <2>3, <2>5, <2>6, <2>8, <3>1, <3>2
  <2>9. CASE left = 0 /\ "MR1" \notin ir
    <3>1. "MR0" \in ir \/ Swept => HandlerDue /\ tc <= lag
      BY <2>4, <2>6, <2>9 DEF Swept
    <3>2. CASE tc = TicksPerMinute - 1
      <4>1. left' = 0 /\ "MR1" \notin ir'
        BY <2>1, <2>3, <2>6, <2>9, <3>2
      <4>2. ~Swept
        BY <2>2, <2>6, <3>1, <3>2
      <4>3. tc' <= lag'
        BY <2>1, <2>2, <3>2
      <4> QED
        BY <2>5, <4>1, <4>2, <4>3
    <3>3. CASE tc # TicksPerMinute - 1 /\ "MR1" \notin ir'
      BY <2>1, <2>2, <2>3, <2>5, <2>6, <2>9, <3>1, <3>3
    <3>4. CASE tc # TicksPerMinute - 1 /\ "MR1" \in ir'
      <4>1. mr1 = tc' /\ tc' = tc + 1 /\ mr1 > MaxLag
        BY <2>1, <2>3, <2>6, <2>9, <3>4
      <4>2. "MR0" \notin ir /\ ~Swept
        BY <2>2, <3>1, <4>1
      <4>3. left' = 0 /\ "MR1" \in ir' /\ "MR0" \notin ir' /\ ~Swept'
        BY <2>1, <2>3, <2>5, <2>9, <3>4, <4>2
      <4>4. mr1' <= tc' /\ tc' <= mr1' + lag'
        <5>1. mr1' = tc' /\ mr1' \in Nat /\ lag' \in Nat
          BY <2>1, <2>2, <4>1
        <5> QED
          BY <5>1, NoLess, Zenon
      <4> QED
        BY <4>3, <4>4
    <3> QED
      BY <3>2, <3>3, <3>4
  <2> QED
    BY <2>6, <2>7, <2>8, <2>9
<1>2. CASE DelaysHandler
  <2>1. /\ tc' = tc /\ left' = left /\ mr1' = mr1 /\ drStop' = drStop
        /\ delay' = delay
    BY <1>2 DEF DelaysHandler, IrqHandler, IrqServiceMR0, IrqServiceMR1,
                IrqReadCapture, IrqStoreCapture, IrqNoCapture,
                hwVars, matchVars, taskVars
  <2>2. CASE IrqServiceMR0
    <3>1. isr = "out" /\ isr' = "mr1" /\ active' = active /\ lag' = lag
      BY <2>2 DEF IrqServiceMR0
    <3>2. /\ "MR0" \in ir => ir' = {}
          /\ "MR0" \notin ir => ir' = ir /\ ir # {}
      BY <2>2 DEF IrqServiceMR0, ClearFlags
    <3>3. "MR0" \notin ir => "MR1" \in ir \/ "CR2" \in ir
      BY <3>2 DEF DelaysTypeOK, IrqTypeOK, Flags
    <3> QED
      BY <2>1, <3>1, <3>2, <3>3 DEF Swept
  <2>3. CASE IrqServiceMR1
    <3>1. CASE "MR1" \in ir
      BY <2>1, <2>3, <3>1 DEF IrqServiceMR1, Swept
    <3>2. CASE "MR1" \notin ir
      <4>1. /\ isr = "mr1" /\ isr' = "cr2" /\ ir' = ir
            /\ active' = active /\ lag' = lag
        BY <2>3, <3>2 DEF IrqServiceMR1
      <4> QED
        BY <2>1, <3>2, <4>1 DEF Swept
    <3> QED
      BY <3>1, <3>2
  <2>4. CASE IrqReadCapture
    BY <2>1, <2>4 DEF IrqReadCapture, hwVars, Swept
  <2>5. CASE IrqStoreCapture
    BY <2>1, <2>5 DEF IrqStoreCapture, ClearFlags, Swept
  <2>6. CASE IrqNoCapture
    BY <2>1, <2>6 DEF IrqNoCapture, hwVars, Swept
  <2> QED
    BY <1>2, <2>2, <2>3, <2>4, <2>5, <2>6 DEF DelaysHandler, IrqHandler
<1>3. ASSUME NEW d \in Delays, DelaysBegin(d) PROVE AwaitInv'
  BY <1>3 DEF DelaysBegin, IrqDelayBegin
<1>4. CASE DelaysArm
  <2>1. /\ delay = "arm" /\ delay' = "spin" /\ mr1' = drStop
        /\ ir' = ir /\ isr' = isr /\ left' = left
        /\ lag' = IF ir = {} THEN 0 ELSE lag
    BY <1>4 DEF DelaysArm, IrqDelayArm, hwVars
  <2>2. isr = "out" /\ left + lag > MaxLag
    BY <2>1 DEF MatchInv
  <2> QED
    BY <2>1, <2>2 DEF Swept
<1>5. CASE IrqEdge /\ UNCHANGED historyVars
  BY <1>5 DEF IrqEdge, historyVars, matchVars, taskVars, Swept
<1>6. CASE IrqDelayReturn /\ UNCHANGED historyVars
  BY <1>6 DEF IrqDelayReturn
<1>7. CASE UNCHANGED delaysVars
  BY <1>7 DEF delaysVars, irqVars, historyVars, Swept
<1> QED
  BY <1>1, <1>2, <1>3, <1>4, <1>5, <1>6, <1>7 DEF DelaysNext

(* A delay's match, once raised, is served as the end of the delay or      *)
(* wiped out by a capture's block; the block that counts the minute never  *)
(* takes it away, whatever the order of edges, matches and delays was.     *)
THEOREM OnlyCapturesPostpone == DelaysSpec => MatchLostOnlyToCapture
<1>1. DelaysInit => MatchInv /\ ShortInv /\ AwaitInv
  BY MatchInvInit, ShortInvInit, AwaitInvInit
<1>2. DelaysTypeOK /\ MatchInv /\ ShortInv /\ AwaitInv
        /\ [DelaysNext]_delaysVars => MatchInv' /\ ShortInv' /\ AwaitInv'
  BY MatchInvStep, ShortInvStep, AwaitInvStep
<1>3. AwaitInv /\ [DelaysNext]_delaysVars
        => [EndsInThisMinute /\ left = 0 /\ active
              /\ "MR1" \in ir /\ "MR1" \notin ir'
              => ~active' \/ isr = "store"]_delaysVars
  <2> SUFFICES ASSUME AwaitInv, DelaysNext, EndsInThisMinute, left = 0, active,
                      "MR1" \in ir, "MR1" \notin ir'
               PROVE  ~active' \/ isr = "store"
    OBVIOUS
  <2>1. DelaysHandler
    BY DEF DelaysNext, DelaysTick, IrqTick, DelaysBegin, IrqDelayBegin,
           DelaysArm, IrqDelayArm, IrqEdge, IrqDelayReturn, hwVars
  <2>2. "MR0" \notin ir
    BY DEF AwaitInv
  <2> QED
    BY <2>1, <2>2
    DEF DelaysHandler, IrqHandler, IrqServiceMR0, IrqServiceMR1,
        IrqReadCapture, IrqStoreCapture, IrqNoCapture, hwVars
<1> QED
  BY <1>1, <1>2, <1>3, TypeCorrect, PTL DEF DelaysSpec, MatchLostOnlyToCapture
=============================================================================
