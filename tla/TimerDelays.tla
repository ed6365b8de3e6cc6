----------------------------- MODULE TimerDelays -----------------------------
(***************************************************************************)
(* TimerIrq with a record of its delays: how long ago the last one was     *)
(* armed and how much each had still to last.                              *)
(*                                                                         *)
(* T1MR1 and its interrupt stay set when a delay is over, so that the same *)
(* match comes again.  If it comes while the next delay is being armed,    *)
(* the handler takes it for the new one's.  The display's busy check       *)
(* counts delays; how often one can be too short is what it depends on.    *)
(***************************************************************************)
EXTENDS TimerIrq

VARIABLES
  age,   \* ticks since the last delay was armed, up to a minute
  left,  \* ticks that the last delay begun has still to last
  old,   \* those that the one before it has
  stale, \* the last delay was armed with an old match pending
  cut    \* its end was reported before its time

historyVars == <<age, left, old, stale, cut>>
delaysVars == <<irqVars, historyVars>>

DelaysTypeOK ==
  /\ IrqTypeOK
  /\ age \in 0 .. TicksPerMinute
  /\ left \in Nat /\ old \in Nat
  /\ stale \in BOOLEAN /\ cut \in BOOLEAN

Less(n) == IF n > 0 THEN n - 1 ELSE 0

DelaysInit ==
  /\ IrqInit
  /\ age = 0 /\ left = 0 /\ old = 0
  /\ stale = FALSE /\ cut = FALSE

DelaysTick ==
  /\ IrqTick
  /\ age' = IF age < TicksPerMinute THEN age + 1 ELSE age
  /\ left' = Less(left) /\ old' = Less(old)
  /\ UNCHANGED <<stale, cut>>

DelaysBegin(d) ==
  /\ IrqDelayBegin(d)
  /\ old' = left /\ left' = d
  /\ UNCHANGED <<age, stale, cut>>

DelaysArm ==
  /\ IrqDelayArm
  /\ age' = 0
  /\ stale' = ("MR1" \in ir)
  /\ UNCHANGED <<left, old, cut>>

DelaysHandler ==
  /\ IrqHandler
  /\ cut' = IF active /\ ~active' THEN left > 0 ELSE cut
  /\ UNCHANGED <<age, left, old, stale>>

DelaysNext ==
  \/ DelaysTick
  \/ DelaysHandler
  \/ \E d \in Delays : DelaysBegin(d)
  \/ DelaysArm
  \/ (IrqEdge \/ IrqDelayReturn) /\ UNCHANGED historyVars

DelaysSpec == DelaysInit /\ [][DelaysNext]_delaysVars /\ IrqFairness

-----------------------------------------------------------------------------
(* A delay that returns has lasted as long as was asked, unless it was     *)
(* armed while the match of an earlier delay, which T1MR1 still held, was  *)
(* pending.                                                                *)
DelayShortOnlyIfStale == delay = "out" /\ ~stale => left = 0

(* A match whose delay still waits for it is wiped out by the store of a   *)
(* capture's block and no other, if it lies in the minute its delay began  *)
(* and not in the last MaxLag ticks of that: MR0 is served before the      *)
(* match can come, and the match before MR0.  So each wheel rotation can   *)
(* make a delay a minute longer, but nothing else can.                     *)
MatchLostOnlyToCapture ==
  [][EndsInThisMinute /\ left = 0 /\ active /\ "MR1" \in ir /\ "MR1" \notin ir'
       => ~active' \/ isr = "store"]_delaysVars

(* DelayResolution100us is armed over an old match, and ends at once, only *)
(* if the delay before it was armed a minute ago or more, or was cut short *)
(* itself and would have ended by now.  So of the delays that follow each  *)
(* other in a busy check no more than one is too short, and of those of    *)
(* the power-up sequence none.                                             *)
CutOnlyByOldMatch ==
  [][IrqDelayArm /\ "MR1" \in ir
       => age = TicksPerMinute \/ (cut /\ old = 0)]_delaysVars
=============================================================================
