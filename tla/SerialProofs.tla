---------------------------- MODULE SerialProofs ----------------------------
(***************************************************************************)
(* Proofs about Serial for any number of printing tasks and any length of  *)
(* its queues: the driver's idea of the transmitter is right, and what it  *)
(* does is what a lossless channel does.                                   *)
(***************************************************************************)
EXTENDS Serial, SequenceTheorems, FiniteSetTheorems, TLAPS

(* What the UART does between the driver's steps: a pending THRE interrupt *)
(* means an empty FIFO, and the FIFO never holds a second character.       *)
UartInv ==
  /\ threInt => thr = <<>>
  /\ Len(thr) <= 1

Inv == TypeOK /\ UartInv /\ BusyIsTrue /\ IdleIsTrue

LEMMA ConstantTypes ==
  uxQueueLength \in Nat /\ txLength \in Nat /\ txLength > 0 /\ NoChar \notin Chars
BY SerialAssumption DEF txLength

(* A one character sequence, and what is left of it.                       *)
LEMMA OneCharacter ==
  ASSUME NEW c \in Chars
  PROVE  /\ Append(<<>>, c) \in Seq(Chars)
         /\ Len(Append(<<>>, c)) = 1
         /\ Head(Append(<<>>, c)) = c
         /\ Tail(Append(<<>>, c)) = <<>>
         /\ Append(<<>>, c) # <<>>
<1>1. <<>> \in Seq(Chars) /\ Len(<<>>) = 0
  BY EmptySeq
<1> QED
  BY <1>1, AppendProperties, HeadTailProperties, EmptySeq

(* The tasks after a wake-up are as before, but one that waits may be      *)
(* ready.                                                                  *)
LEMMA WakeSenderProperties ==
  ASSUME NEW wr \in [Writers -> {"idle", "blocked", "ready"}], WakeSender(wr)
  PROVE  /\ writer' \in [Writers -> {"idle", "blocked", "ready"}]
         /\ \A w \in Writers : writer'[w] = "idle" <=> wr[w] = "idle"
BY DEF WakeSender

(* Type correctness, and that the driver's flag tells the truth: while it  *)
(* says busy, the UART will interrupt; while it says idle, nothing waits.  *)
THEOREM DriverInv == Spec => []Inv
<1>1. Init => Inv
  <2> SUFFICES ASSUME Init PROVE Inv
    OBVIOUS
  <2>1. <<>> \in Seq(Chars) /\ Len(<<>>) = 0
    BY EmptySeq
  <2>2. TypeOK
    <3>1. lTHREEmpty \in BOOLEAN /\ threInt \in BOOLEAN /\ rdr \in BOOLEAN
      BY Zenon DEF Init
    <3> QED
      BY <2>1, <3>1, ConstantTypes DEF Init, TypeOK
  <2> QED
    BY <2>1, <2>2 DEF Init, Inv, UartInv, BusyIsTrue, IdleIsTrue
<1>2. Inv /\ [Next]_vars => Inv'
  <2> SUFFICES ASSUME Inv, [Next]_vars PROVE Inv'
    OBVIOUS
  <2> USE ConstantTypes DEF Inv, UartInv, BusyIsTrue, IdleIsTrue
  <2>1. ASSUME NEW w \in Writers, NEW c \in Chars, PutDirect(w, c)
        PROVE  Inv'
    <3>1. thr = <<>> /\ xCharsForTx = <<>>
      BY <2>1 DEF PutDirect
    <3>2. thr' = Append(<<>>, c)
      BY <2>1, <3>1 DEF PutDirect, WriteTHR
    <3>3. /\ ~threInt' /\ threInt' \in BOOLEAN
          /\ ~lTHREEmpty' /\ lTHREEmpty' \in BOOLEAN
      BY <2>1, Zenon DEF PutDirect, WriteTHR
    <3>4. UNCHANGED <<xCharsForTx, wire, writer, pending, rdr, xRxedChars>>
      BY <2>1 DEF PutDirect, taskVars, rxVars
    <3> QED
      BY <3>2, <3>3, <3>4, OneCharacter DEF TypeOK
  <2>2. ASSUME NEW w \in Writers, NEW c \in Chars, PutQueued(w, c)
        PROVE  Inv'
    BY <2>2, AppendProperties DEF PutQueued, TxFull, TypeOK, taskVars, rxVars
  <2>3. ASSUME NEW w \in Writers, NEW c \in Chars, PutBlock(w, c)
        PROVE  Inv'
    BY <2>3 DEF PutBlock, TypeOK, txVars, rxVars
  <2>4. ASSUME NEW w \in Writers, ResumeBlock(w) PROVE Inv'
    BY <2>4 DEF ResumeBlock, TypeOK, txVars, rxVars
  <2>5. ASSUME NEW w \in Writers, ResumeQueued(w) PROVE Inv'
    <3>1. pending[w] \in Chars
      BY <2>5 DEF ResumeQueued, TypeOK
    <3> QED
      BY <2>5, <3>1, AppendProperties
      DEF ResumeQueued, Returns, TxFull, TypeOK, rxVars
  <2>6. ASSUME NEW w \in Writers, ResumeRestart(w) PROVE Inv'
    <3>1. pending[w] \in Chars /\ xCharsForTx = <<>> /\ thr = <<>>
      BY <2>6 DEF ResumeRestart, TypeOK
    <3>2. xCharsForTx' = <<>> /\ thr' = Append(<<>>, pending[w])
      BY <2>6, <3>1, OneCharacter DEF ResumeRestart, WriteTHR
    <3>3. /\ ~threInt' /\ threInt' \in BOOLEAN
          /\ ~lTHREEmpty' /\ lTHREEmpty' \in BOOLEAN
      BY <2>6, Zenon DEF ResumeRestart, WriteTHR
    <3>4. pending' = [pending EXCEPT ![w] = NoChar]
      BY <2>6 DEF ResumeRestart, Returns
    <3> DEFINE wr == [writer EXCEPT ![w] = "idle"]
    <3>5. /\ wr \in [Writers -> {"idle", "blocked", "ready"}]
          /\ WakeSender(wr)
      BY <2>6 DEF ResumeRestart, TypeOK
    <3>6. /\ writer' \in [Writers -> {"idle", "blocked", "ready"}]
          /\ \A v \in Writers : writer'[v] = "idle" <=> wr[v] = "idle"
      <4> HIDE DEF wr
      <4> QED
        BY <3>5, WakeSenderProperties
    <3>7. /\ pending' \in [Writers -> Chars \cup {NoChar}]
          /\ \A v \in Writers : writer'[v] = "idle" <=> pending'[v] = NoChar
      BY <3>4, <3>6 DEF TypeOK
    <3>8. UNCHANGED <<wire, rdr, xRxedChars>>
      BY <2>6 DEF ResumeRestart, rxVars
    <3>9. xCharsForTx' \in Seq(Chars) /\ Len(xCharsForTx') <= txLength
      BY <3>2, EmptySeq
    <3> QED
      BY <3>1, <3>2, <3>3, <3>6, <3>7, <3>8, <3>9, OneCharacter DEF TypeOK
  <2>7. CASE GetChar
    BY <2>7 DEF GetChar, TypeOK, txVars, taskVars
  <2>8. CASE ThreISRSend
    <3>1. thr = <<>>
      BY <2>8 DEF ThreISRSend
    <3>2. /\ Head(xCharsForTx) \in Chars
          /\ Tail(xCharsForTx) \in Seq(Chars)
          /\ Len(Tail(xCharsForTx)) = Len(xCharsForTx) - 1
      BY <2>8, HeadTailProperties DEF ThreISRSend, TypeOK
    <3>3. /\ writer' \in [Writers -> {"idle", "blocked", "ready"}]
          /\ \A v \in Writers : writer'[v] = "idle" <=> writer[v] = "idle"
      BY <2>8, WakeSenderProperties DEF ThreISRSend, TypeOK
    <3>4. ~lTHREEmpty
      BY <2>8 DEF ThreISRSend
    <3>5. thr' = Append(<<>>, Head(xCharsForTx)) /\ xCharsForTx' = Tail(xCharsForTx)
      BY <2>8, <3>1 DEF ThreISRSend, WriteTHR
    <3>6. ~threInt' /\ threInt' \in BOOLEAN
      BY <2>8, Zenon DEF ThreISRSend, WriteTHR
    <3>7. UNCHANGED <<lTHREEmpty, wire, pending, rdr, xRxedChars>>
      BY <2>8 DEF ThreISRSend, rxVars
    <3> QED
      BY <3>2, <3>3, <3>4, <3>5, <3>6, <3>7, OneCharacter DEF TypeOK
  <2>9. CASE ThreISRIdle
    <3>1. /\ ~threInt' /\ threInt' \in BOOLEAN
          /\ lTHREEmpty' /\ lTHREEmpty' \in BOOLEAN
      BY <2>9, Zenon DEF ThreISRIdle
    <3>2. /\ thr = <<>> /\ xCharsForTx = <<>>
          /\ UNCHANGED <<xCharsForTx, thr, wire, writer, pending, rdr,
                         xRxedChars>>
      BY <2>9 DEF ThreISRIdle, taskVars, rxVars
    <3> QED
      BY <3>1, <3>2 DEF TypeOK
  <2>10. CASE RxISR
    <3>1. rdr' \in BOOLEAN
      BY <2>10, Zenon DEF RxISR
    <3>2. xRxedChars' \in 0 .. uxQueueLength
      BY <2>10 DEF RxISR, TypeOK
    <3>3. UNCHANGED <<txVars, taskVars>>
      BY <2>10 DEF RxISR
    <3> QED
      BY <3>1, <3>2, <3>3 DEF TypeOK, txVars, taskVars
  <2>11. CASE Transmit
    <3>1. /\ Head(thr) \in Chars /\ Tail(thr) \in Seq(Chars)
          /\ Len(Tail(thr)) = Len(thr) - 1
      BY <2>11, HeadTailProperties DEF Transmit, TypeOK
    <3>2. Tail(thr) = <<>>
      BY <3>1, EmptySeq, LenProperties DEF TypeOK
    <3>3. threInt' /\ threInt' \in BOOLEAN
      BY <2>11, <3>2, Zenon DEF Transmit
    <3>4. thr' = <<>> /\ wire' \in Chars
      BY <2>11, <3>1, <3>2 DEF Transmit
    <3>5. UNCHANGED <<xCharsForTx, lTHREEmpty, writer, pending, rdr,
                      xRxedChars>>
      BY <2>11 DEF Transmit, taskVars, rxVars
    <3> QED
      BY <3>3, <3>4, <3>5, EmptySeq DEF TypeOK
  <2>12. CASE Receive
    <3>1. rdr' \in BOOLEAN
      BY <2>12, Zenon DEF Receive
    <3>2. UNCHANGED <<txVars, taskVars, xRxedChars>>
      BY <2>12 DEF Receive
    <3> QED
      BY <3>1, <3>2 DEF TypeOK, txVars, taskVars
  <2>13. CASE UNCHANGED vars
    BY <2>13 DEF vars, txVars, taskVars, rxVars, TypeOK
  <2> QED
    BY <2>1, <2>2, <2>3, <2>4, <2>5, <2>6, <2>7, <2>8, <2>9, <2>10, <2>11,
       <2>12, <2>13 DEF Next, PutChar, Resume, ThreISR
<1> QED
  BY <1>1, <1>2, PTL DEF Spec

(* Every state is of its types: the queue of characters never outgrows its *)
(* length, and a task holds a character exactly while xSerialPutChar keeps *)
(* it waiting.                                                             *)
THEOREM TypeCorrect == Spec => []TypeOK
<1>1. Inv => TypeOK
  BY DEF Inv
<1> QED
  BY <1>1, DriverInv, PTL

(* The driver never believes the transmitter busy with nothing under way.  *)
THEOREM BusyCorrect == Spec => []BusyIsTrue
<1>1. Inv => BusyIsTrue
  BY DEF Inv
<1> QED
  BY <1>1, DriverInv, PTL

(* The driver never believes it idle with a character still to send.       *)
THEOREM IdleCorrect == Spec => []IdleIsTrue
<1>1. Inv => IdleIsTrue
  BY DEF Inv
<1> QED
  BY <1>1, DriverInv, PTL

-----------------------------------------------------------------------------
(* Appending behind a concatenation, and taking the head of one.           *)
LEMMA ConcatAppend ==
  ASSUME NEW S, NEW s \in Seq(S), NEW t \in Seq(S), NEW e \in S
  PROVE  s \o Append(t, e) = Append(s \o t, e)
<1>1. <<e>> \in Seq(S) /\ s \o t \in Seq(S)
  BY ConcatProperties
<1>2. Append(t, e) = t \o <<e>> /\ Append(s \o t, e) = (s \o t) \o <<e>>
  BY <1>1, AppendIsConcat
<1> QED
  BY <1>1, <1>2, ConcatAssociative

LEMMA HeadTailConcat ==
  ASSUME NEW S, NEW s \in Seq(S), s # <<>>, NEW t \in Seq(S)
  PROVE  /\ s \o t # <<>>
         /\ Head(s \o t) = Head(s)
         /\ Tail(s \o t) = Tail(s) \o t
<1>1. /\ s \o t \in Seq(S) /\ Len(s \o t) = Len(s) + Len(t)
      /\ Len(s) \in Nat /\ Len(s) > 0 /\ Len(t) \in Nat
      /\ \A i \in 1 .. Len(s) + Len(t) :
           (s \o t)[i] = IF i <= Len(s) THEN s[i] ELSE t[i - Len(s)]
  BY ConcatProperties, EmptySeq, LenProperties
<1>2. s \o t # <<>>
  BY <1>1, EmptySeq
<1>3. Head(s \o t) = Head(s)
  BY <1>1, <1>2
<1>4. /\ Tail(s) \in Seq(S) /\ Len(Tail(s)) = Len(s) - 1
      /\ \A i \in 1 .. Len(Tail(s)) : Tail(s)[i] = s[i + 1]
  BY HeadTailProperties
<1>5. /\ Tail(s \o t) \in Seq(S) /\ Len(Tail(s \o t)) = Len(s \o t) - 1
      /\ \A i \in 1 .. Len(Tail(s \o t)) : Tail(s \o t)[i] = (s \o t)[i + 1]
  BY <1>1, <1>2, HeadTailProperties
<1>6. /\ Tail(s) \o t \in Seq(S)
      /\ Len(Tail(s) \o t) = Len(Tail(s)) + Len(t)
      /\ \A i \in 1 .. Len(Tail(s)) + Len(t) :
           (Tail(s) \o t)[i] =
             IF i <= Len(Tail(s)) THEN Tail(s)[i] ELSE t[i - Len(Tail(s))]
  BY <1>4, ConcatProperties
<1>7. ASSUME NEW i \in 1 .. Len(Tail(s \o t))
      PROVE  Tail(s \o t)[i] = (Tail(s) \o t)[i]
  <2>1. Tail(s \o t)[i] = (s \o t)[i + 1] /\ i + 1 \in 1 .. Len(s) + Len(t)
    BY <1>1, <1>5, <1>7
  <2>2. CASE i <= Len(Tail(s))
    BY <1>1, <1>4, <1>6, <2>1, <2>2
  <2>3. CASE i > Len(Tail(s))
    <3>1. (s \o t)[i + 1] = t[(i + 1) - Len(s)]
      BY <1>1, <1>4, <2>1, <2>3
    <3>2. (Tail(s) \o t)[i] = t[i - Len(Tail(s))]
      BY <1>1, <1>4, <1>5, <1>6, <2>3
    <3>3. (i + 1) - Len(s) = i - Len(Tail(s))
      BY <1>1, <1>4
    <3> QED
      BY <2>1, <3>1, <3>2, <3>3
  <2> QED
    BY <1>1, <1>4, <2>2, <2>3
<1>8. Tail(s \o t) = Tail(s) \o t
  BY <1>1, <1>4, <1>5, <1>6, <1>7, SeqEqual
<1> QED
  BY <1>2, <1>3, <1>8

-----------------------------------------------------------------------------
(* Whatever tasks and handler do, the driver is a channel that loses,      *)
(* doubles and reorders nothing, with room for the queue and one character *)
(* more.  That each character goes out in the end is left to TLC.          *)
THEOREM ChannelImplemented == Spec => Channel!ChannelSafe
<1> DEFINE pipe == thr \o xCharsForTx
<1>1. Init => Channel!ChannelInit
  BY EmptySeq, ConcatEmptySeq DEF Init, Channel!ChannelInit
<1>2. Inv /\ [Next]_vars => [Channel!ChannelNext]_<<pipe, wire>>
  <2> SUFFICES ASSUME Inv, [Next]_vars
               PROVE  Channel!ChannelNext \/ UNCHANGED <<pipe, wire>>
    OBVIOUS
  <2>a. /\ xCharsForTx \in Seq(Chars) /\ thr \in Seq(Chars)
        /\ Len(xCharsForTx) \in Nat /\ Len(xCharsForTx) <= txLength
        /\ Len(thr) \in Nat /\ Len(thr) <= 1
        /\ Len(pipe) = Len(thr) + Len(xCharsForTx)
        /\ \A w \in Writers : writer[w] = "ready" => pending[w] \in Chars
    BY LenProperties, ConcatProperties DEF Inv, UartInv, TypeOK
  <2>b. ASSUME NEW c \in Chars, thr = <<>>, xCharsForTx = <<>>,
               thr' = Append(<<>>, c), xCharsForTx' = <<>>, wire' = wire
        PROVE  Channel!Accept(c)
    <3>1. pipe = <<>> /\ pipe' = Append(<<>>, c) /\ Len(pipe) < txLength + 1
      BY <2>b, OneCharacter, EmptySeq, ConcatEmptySeq, ConstantTypes
    <3> QED
      BY <2>b, <3>1 DEF Channel!Accept
  <2>c. ASSUME NEW c \in Chars, Len(xCharsForTx) < txLength, thr' = thr,
               xCharsForTx' = Append(xCharsForTx, c), wire' = wire
        PROVE  Channel!Accept(c)
    <3>1. pipe' = Append(pipe, c)
      BY <2>a, <2>c, ConcatAppend
    <3>2. Len(pipe) < txLength + 1
      BY <2>a, <2>c, ConstantTypes
    <3> QED
      BY <2>c, <3>1, <3>2 DEF Channel!Accept
  <2>d. ASSUME UNCHANGED <<thr, xCharsForTx, wire>>
        PROVE  UNCHANGED <<pipe, wire>>
    BY <2>d
  <2>e. ~TxFull => Len(xCharsForTx) < txLength
    BY <2>a, ConstantTypes DEF TxFull
  <2>1. ASSUME NEW w \in Writers, NEW c \in Chars, PutDirect(w, c)
        PROVE  Channel!Accept(c)
    BY <2>1, <2>b DEF PutDirect, WriteTHR, Inv, IdleIsTrue
  <2>2. ASSUME NEW w \in Writers, NEW c \in Chars, PutQueued(w, c)
        PROVE  Channel!Accept(c)
    BY <2>2, <2>c, <2>e DEF PutQueued
  <2>3. ASSUME NEW w \in Writers, NEW c \in Chars, PutBlock(w, c)
        PROVE  UNCHANGED <<pipe, wire>>
    BY <2>3, <2>d DEF PutBlock, txVars
  <2>4. ASSUME NEW w \in Writers, ResumeBlock(w)
        PROVE  UNCHANGED <<pipe, wire>>
    BY <2>4, <2>d DEF ResumeBlock, txVars
  <2>5. ASSUME NEW w \in Writers, ResumeQueued(w)
        PROVE  Channel!Accept(pending[w])
    BY <2>5, <2>a, <2>c, <2>e DEF ResumeQueued
  <2>6. ASSUME NEW w \in Writers, ResumeRestart(w)
        PROVE  Channel!Accept(pending[w])
    <3>1. thr = <<>> /\ xCharsForTx = <<>> /\ pending[w] \in Chars
      BY <2>6, <2>a DEF ResumeRestart, Inv, IdleIsTrue
    <3>2. xCharsForTx' = <<>> /\ thr' = Append(<<>>, pending[w])
      BY <2>6, <3>1, OneCharacter DEF ResumeRestart, WriteTHR
    <3>3. wire' = wire
      BY <2>6 DEF ResumeRestart
    <3> QED
      BY <3>1, <3>2, <3>3, <2>b
  <2>7. CASE GetChar
    BY <2>7, <2>d DEF GetChar, txVars
  <2>8. CASE ThreISRSend
    <3>1. thr = <<>> /\ xCharsForTx # <<>> /\ wire' = wire
      BY <2>8 DEF ThreISRSend, Inv, UartInv
    <3>2. /\ thr' = Append(<<>>, Head(xCharsForTx))
          /\ xCharsForTx' = Tail(xCharsForTx)
      BY <2>8, <3>1 DEF ThreISRSend, WriteTHR
    <3>3. Head(xCharsForTx) \in Chars
      BY <2>a, <3>1, HeadTailProperties
    <3>4. Append(<<>>, Head(xCharsForTx)) \o Tail(xCharsForTx) = xCharsForTx
      BY <2>a, <3>1, HeadTailProperties
    <3>5. pipe = xCharsForTx
      BY <2>a, <3>1, ConcatEmptySeq
    <3> QED
      BY <3>1, <3>2, <3>4, <3>5
  <2>9. CASE ThreISRIdle
    BY <2>9, <2>d DEF ThreISRIdle
  <2>10. CASE RxISR
    BY <2>10, <2>d DEF RxISR, txVars
  <2>11. CASE Transmit
    <3>1. /\ thr # <<>> /\ wire' = Head(thr) /\ thr' = Tail(thr)
          /\ xCharsForTx' = xCharsForTx
      BY <2>11 DEF Transmit
    <3>2. pipe # <<>> /\ Head(pipe) = Head(thr) /\ Tail(pipe) = pipe'
      BY <2>a, <3>1, HeadTailConcat
    <3> QED
      BY <3>1, <3>2 DEF Channel!ChannelNext, Channel!Deliver
  <2>12. CASE Receive
    BY <2>12, <2>d DEF Receive, txVars
  <2>13. CASE UNCHANGED vars
    BY <2>13, <2>d DEF vars, txVars
  <2>14. ASSUME NEW c \in Chars, Channel!Accept(c) PROVE Channel!ChannelNext
    BY <2>14 DEF Channel!ChannelNext
  <2> HIDE DEF pipe
  <2> QED
    BY <2>a, <2>1, <2>2, <2>3, <2>4, <2>5, <2>6, <2>7, <2>8, <2>9, <2>10,
       <2>11, <2>12, <2>13, <2>14
    DEF Next, PutChar, Resume, ThreISR, ResumeQueued, ResumeRestart
<1> QED
  BY <1>1, <1>2, DriverInv, PTL DEF Spec, Channel!ChannelSafe

-----------------------------------------------------------------------------
(* The number of woken tasks is a number, and one leaves or joins them.    *)
LEMMA ReadyCount ==
  /\ Cardinality(In("ready")) \in Nat
  /\ \A w \in In("ready") :
       /\ Cardinality(In("ready") \ {w}) \in Nat
       /\ Cardinality(In("ready") \ {w}) = Cardinality(In("ready")) - 1
  /\ \A w : w \notin In("ready") =>
       Cardinality(In("ready") \cup {w}) = Cardinality(In("ready")) + 1
  /\ \A v, w : v \in In("ready") /\ w \notin In("ready") =>
       Cardinality((In("ready") \ {v}) \cup {w}) = Cardinality(In("ready"))
<1>1. IsFiniteSet(In("ready"))
  BY SerialAssumption, FS_Subset DEF In
<1>2. Cardinality(In("ready")) \in Nat
  BY <1>1, FS_CardinalityType
<1>3. ASSUME NEW v \in In("ready")
      PROVE  /\ IsFiniteSet(In("ready") \ {v})
             /\ Cardinality(In("ready") \ {v}) \in Nat
             /\ Cardinality(In("ready") \ {v}) = Cardinality(In("ready")) - 1
  BY <1>1, FS_RemoveElement, FS_CardinalityType
<1>4. ASSUME NEW w, w \notin In("ready")
      PROVE  Cardinality(In("ready") \cup {w}) = Cardinality(In("ready")) + 1
  BY <1>1, <1>4, FS_AddElement
<1>5. ASSUME NEW v, NEW w, v \in In("ready"), w \notin In("ready")
      PROVE  Cardinality((In("ready") \ {v}) \cup {w}) = Cardinality(In("ready"))
  <2>1. w \notin In("ready") \ {v}
    BY <1>5
  <2>2. Cardinality((In("ready") \ {v}) \cup {w})
          = Cardinality(In("ready") \ {v}) + 1
    BY <1>3, <1>5, <2>1, FS_AddElement
  <2>3. Cardinality(In("ready") \ {v}) = Cardinality(In("ready")) - 1
    BY <1>3, <1>5
  <2> QED
    BY <1>2, <2>2, <2>3
<1> QED
  BY <1>2, <1>3, <1>4, <1>5

(* No task that waits for room is forgotten: for each free place in the    *)
(* queue, a woken task is on its way to take it.                           *)
THEOREM NobodyForgotten == Spec => []NoWriterForgotten
<1>1. Init => NoWriterForgotten
  BY DEF Init, NoWriterForgotten, In
<1>2. Inv /\ NoWriterForgotten /\ [Next]_vars => NoWriterForgotten'
  <2> SUFFICES ASSUME Inv, NoWriterForgotten, [Next]_vars
               PROVE  NoWriterForgotten'
    OBVIOUS
  <2>a. /\ xCharsForTx \in Seq(Chars) /\ Len(xCharsForTx) \in Nat
        /\ Len(xCharsForTx) <= txLength /\ txLength \in Nat
        /\ writer \in [Writers -> {"idle", "blocked", "ready"}]
        /\ \A w \in Writers : writer[w] = "ready" => pending[w] \in Chars
    BY LenProperties, ConstantTypes DEF Inv, TypeOK
  <2>b. ASSUME UNCHANGED <<writer, xCharsForTx>> PROVE NoWriterForgotten'
    BY <2>b DEF NoWriterForgotten, In
  <2>c. ASSUME TxFull, xCharsForTx' = xCharsForTx,
               \/ In("ready")' = In("ready")
               \/ \E w \in In("ready") : In("ready")' = In("ready") \ {w}
        PROVE  NoWriterForgotten'
    <3>1. Cardinality(In("ready")') >= 0
      BY <2>c, ReadyCount
    <3>2. txLength - Len(xCharsForTx') = 0
      BY <2>a, <2>c DEF TxFull
    <3> QED
      BY <3>1, <3>2 DEF NoWriterForgotten
  <2>1. ASSUME NEW w \in Writers, NEW c \in Chars, PutDirect(w, c)
        PROVE  NoWriterForgotten'
    BY <2>1, <2>b DEF PutDirect, taskVars
  <2>2. ASSUME NEW w \in Writers, NEW c \in Chars, PutQueued(w, c)
        PROVE  NoWriterForgotten'
    <3>1. Len(xCharsForTx') = Len(xCharsForTx) + 1 /\ writer' = writer
      BY <2>2, <2>a, AppendProperties DEF PutQueued, taskVars
    <3> QED
      BY <2>a, <3>1, ReadyCount DEF NoWriterForgotten, In
  <2>3. ASSUME NEW w \in Writers, NEW c \in Chars, PutBlock(w, c)
        PROVE  NoWriterForgotten'
    <3>1. In("ready")' = In("ready")
      BY <2>3, <2>a DEF PutBlock, In
    <3> QED
      BY <2>3, <2>c, <3>1 DEF PutBlock, txVars
  <2>4. ASSUME NEW w \in Writers, ResumeBlock(w) PROVE NoWriterForgotten'
    <3>1. In("ready")' = In("ready") \ {w} /\ w \in In("ready")
      BY <2>4, <2>a DEF ResumeBlock, In
    <3> QED
      BY <2>4, <2>c, <3>1 DEF ResumeBlock, txVars
  <2>5. ASSUME NEW w \in Writers, ResumeQueued(w) PROVE NoWriterForgotten'
    <3>1. /\ In("ready")' = In("ready") \ {w} /\ w \in In("ready")
          /\ In("blocked")' = In("blocked")
      BY <2>5, <2>a DEF ResumeQueued, In
    <3>2. Len(xCharsForTx') = Len(xCharsForTx) + 1
      BY <2>5, <2>a, AppendProperties DEF ResumeQueued
    <3> QED
      BY <2>a, <3>1, <3>2, ReadyCount DEF NoWriterForgotten
  <2>6. ASSUME NEW w \in Writers, ResumeRestart(w) PROVE NoWriterForgotten'
    <3> DEFINE wr == [writer EXCEPT ![w] = "idle"]
    <3>1. xCharsForTx = <<>> /\ xCharsForTx' = <<>>
      BY <2>6, <2>a, OneCharacter DEF ResumeRestart, Inv, IdleIsTrue
    <3>2. w \in In("ready") /\ wr[w] = "idle"
      BY <2>6, <2>a DEF ResumeRestart, In
    <3>3. /\ {v \in Writers : wr[v] = "blocked"} = In("blocked")
          /\ {v \in Writers : wr[v] = "ready"} = In("ready") \ {w}
      BY <2>a, <3>2 DEF In
    <3>4. WakeSender(wr)
      BY <2>6 DEF ResumeRestart
    <3>5. CASE In("blocked") = {}
      <4>1. In("blocked")' = {}
        BY <3>3, <3>4, <3>5 DEF WakeSender, In
      <4> QED
        BY <4>1 DEF NoWriterForgotten
    <3>6. CASE In("blocked") # {}
      <4>1. PICK v \in In("blocked") : writer' = [wr EXCEPT ![v] = "ready"]
        BY <3>3, <3>4, <3>6 DEF WakeSender
      <4>2. In("ready")' = (In("ready") \ {w}) \cup {v} /\ v \notin In("ready")
        BY <2>a, <3>2, <4>1 DEF In
      <4>3. Cardinality(In("ready")') = Cardinality(In("ready"))
        BY <3>2, <4>2, ReadyCount
      <4> QED
        BY <3>1, <3>6, <4>3 DEF NoWriterForgotten
    <3> QED
      BY <3>5, <3>6
  <2>7. CASE GetChar
    BY <2>7, <2>b DEF GetChar, txVars, taskVars
  <2>8. CASE ThreISRSend
    <3>1. Len(xCharsForTx') = Len(xCharsForTx) - 1
      BY <2>8, <2>a, HeadTailProperties DEF ThreISRSend
    <3>2. WakeSender(writer)
      BY <2>8 DEF ThreISRSend
    <3>3. CASE In("blocked") = {}
      <4>1. In("blocked")' = {}
        BY <3>2, <3>3 DEF WakeSender, In
      <4> QED
        BY <4>1 DEF NoWriterForgotten
    <3>4. CASE In("blocked") # {}
      <4>1. PICK v \in In("blocked") : writer' = [writer EXCEPT ![v] = "ready"]
        BY <3>2, <3>4 DEF WakeSender, In
      <4>2. In("ready")' = In("ready") \cup {v} /\ v \notin In("ready")
        BY <2>a, <4>1 DEF In
      <4>3. Cardinality(In("ready")') = Cardinality(In("ready")) + 1
        BY <4>2, ReadyCount
      <4> QED
        BY <2>a, <3>1, <3>4, <4>3, ReadyCount DEF NoWriterForgotten
    <3> QED
      BY <3>3, <3>4
  <2>9. CASE ThreISRIdle
    BY <2>9, <2>b DEF ThreISRIdle, taskVars
  <2>10. CASE RxISR
    BY <2>10, <2>b DEF RxISR, txVars, taskVars
  <2>11. CASE Transmit
    BY <2>11, <2>b DEF Transmit, taskVars
  <2>12. CASE Receive
    BY <2>12, <2>b DEF Receive, txVars, taskVars
  <2>13. CASE UNCHANGED vars
    BY <2>13, <2>b DEF vars, txVars, taskVars
  <2> QED
    BY <2>1, <2>2, <2>3, <2>4, <2>5, <2>6, <2>7, <2>8, <2>9, <2>10, <2>11,
       <2>12, <2>13 DEF Next, PutChar, Resume, ThreISR
<1> QED
  BY <1>1, <1>2, DriverInv, PTL DEF Spec
=============================================================================
