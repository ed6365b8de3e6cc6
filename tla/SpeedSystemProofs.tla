-------------------------- MODULE SpeedSystemProofs --------------------------
(***************************************************************************)
(* Proofs about SpeedSystem for every length of its queues and any number  *)
(* of rotations.                                                           *)
(***************************************************************************)
EXTENDS SpeedSystem, SequenceTheorems, TLAPS

LEMMA ConstantTypes ==
  /\ timeStoreLength \in Nat /\ timeStoreLength > 0
  /\ LCDQLength \in Nat /\ LCDQLength > 0
  /\ HORIZONTAL_SIZE \in Nat /\ HORIZONTAL_SIZE > 1
  /\ MaxRotations \in Nat
BY SystemAssumption

(* Texts and messages, and what they are made of.                          *)
LEMMA TextProperties ==
  ASSUME NEW t \in Kinds, NEW n \in Numbers
  PROVE  Text(t, n) \in Texts /\ Text(t, n).text = t /\ Text(t, n).of = n
BY DEF Text, Texts

LEMMA MessageProperties ==
  ASSUME NEW y \in Lines, NEW t \in Texts
  PROVE  Message(y, t) \in Messages /\ Message(y, t).y = y
         /\ Message(y, t).text = t
BY DEF Message, Messages

LEMMA MessageParts ==
  ASSUME NEW m \in Messages
  PROVE  m.y \in Lines /\ m.text \in Texts
BY DEF Messages

LEMMA GreetingMessage ==
  /\ Greeting \in Messages /\ Greeting.y = 1
  /\ Greeting.text \in Texts
  /\ Greeting.text.text = "greeting" /\ Greeting.text.of = 0
<1>1. 0 \in Numbers /\ "greeting" \in Kinds
  BY ConstantTypes DEF Numbers, Kinds
<1>2. /\ Text("greeting", 0) \in Texts
      /\ Text("greeting", 0).text = "greeting" /\ Text("greeting", 0).of = 0
  BY <1>1, TextProperties
<1>3. 1 \in Lines
  BY DEF Lines
<1> QED
  BY <1>2, <1>3, MessageProperties DEF Greeting

LEMMA LeftoverText ==
  /\ Blank \in Texts /\ Blank.of = 0 /\ Blank.text = "blank"
  /\ \A t \in Leftover : t \in Texts /\ t.of = 0
  /\ Cleared \in [Lines -> [Columns -> Texts]]
  /\ \A y \in Lines, c \in Columns : Cleared[y][c] = Blank
<1>1. 0 \in Numbers /\ "blank" \in Kinds /\ "earlier" \in Kinds
  BY ConstantTypes DEF Numbers, Kinds
<1>2. Blank \in Texts /\ Blank.of = 0 /\ Blank.text = "blank"
  BY <1>1, TextProperties DEF Blank
<1>3. Text("earlier", 0) \in Texts /\ Text("earlier", 0).of = 0
  BY <1>1, TextProperties
<1> QED
  BY <1>2, <1>3 DEF Leftover, Cleared

(* A text has all columns, or all but the last.                            *)
LEMMA LengthProperties ==
  ASSUME NEW t
  PROVE  /\ Length(t) \in Nat /\ Length(t) \in Columns
         /\ Length(t) <= HORIZONTAL_SIZE
         /\ HORIZONTAL_SIZE \in Columns
         /\ Fills(t) \/ Length(t) = HORIZONTAL_SIZE - 1
         /\ Fills(t) <=> t.text # "units"
BY ConstantTypes DEF Length, Fills, Columns

(* What a call of HD44780_StrShow, given up or not, leaves of its line.    *)
LEMMA ShowParts ==
  ASSUME TypeOK, Show
  PROVE  /\ toShow.y \in Lines /\ toShow.text \in Texts
         /\ asked' = [asked EXCEPT ![toShow.y] = toShow.text]
         /\ \A y \in Lines : y # toShow.y =>
              /\ display'[y] = display[y] /\ missed'[y] = missed[y]
              /\ asked'[y] = asked[y]
         /\ asked'[toShow.y] = toShow.text
         /\ \E n \in 0 .. Length(toShow.text) :
              /\ display'[toShow.y] =
                   [c \in Columns |->
                      IF c <= n THEN toShow.text ELSE display[toShow.y][c]]
              /\ missed'[toShow.y] =
                   (missed[toShow.y] \ (1 .. n))
                     \cup (n + 1 .. Length(toShow.text))
         /\ display' \in [Lines -> [Columns -> Texts]]
         /\ missed' \in [Lines -> SUBSET Columns]
<1>1. toShow.y \in Lines /\ toShow.text \in Texts
  BY MessageParts DEF TypeOK
<1>2. /\ display \in [Lines -> [Columns -> Texts]]
      /\ asked \in [Lines -> Texts] /\ missed \in [Lines -> SUBSET Columns]
  BY DEF TypeOK
<1>3. asked' = [asked EXCEPT ![toShow.y] = toShow.text]
  BY DEF Show
<1>4. PICK n \in 0 .. Length(toShow.text) :
        /\ display' = [display EXCEPT ![toShow.y] =
                        [c \in Columns |->
                           IF c <= n THEN toShow.text ELSE @[c]]]
        /\ missed' = [missed EXCEPT ![toShow.y] =
                       (@ \ (1 .. n)) \cup (n + 1 .. Length(toShow.text))]
  BY DEF Show
<1>5. n + 1 .. Length(toShow.text) \subseteq Columns
  BY LengthProperties DEF Columns
<1>6. display'[toShow.y] =
        [c \in Columns |->
           IF c <= n THEN toShow.text ELSE display[toShow.y][c]]
  BY <1>1, <1>2, <1>4
<1>7. missed'[toShow.y] = (missed[toShow.y] \ (1 .. n))
                            \cup (n + 1 .. Length(toShow.text))
  BY <1>1, <1>2, <1>4
<1>8. \A y \in Lines : y # toShow.y =>
        /\ display'[y] = display[y] /\ missed'[y] = missed[y]
        /\ asked'[y] = asked[y]
  BY <1>1, <1>2, <1>3, <1>4
<1>9. asked'[toShow.y] = toShow.text
  BY <1>1, <1>2, <1>3
<1>10. display' \in [Lines -> [Columns -> Texts]]
  BY <1>1, <1>2, <1>4
<1>11. missed' \in [Lines -> SUBSET Columns]
  BY <1>1, <1>2, <1>4, <1>5
<1> QED
  BY <1>1, <1>3, <1>6, <1>7, <1>8, <1>9, <1>10, <1>11

(* A queue of one element of S.                                            *)
LEMMA OneElement ==
  ASSUME NEW S, NEW e \in S
  PROVE  /\ Append(<<>>, e) \in Seq(S)
         /\ Len(Append(<<>>, e)) = 1
         /\ Append(<<>>, e) # <<>>
         /\ Head(Append(<<>>, e)) = e
         /\ Tail(Append(<<>>, e)) = <<>>
<1>1. <<>> \in Seq(S) /\ Len(<<>>) = 0
  BY EmptySeq
<1> QED
  BY <1>1, AppendProperties, HeadTailProperties, EmptySeq

(* Every variable's value stays in its type.                               *)
THEOREM TypeCorrect == Spec => []TypeOK
<1>1. Init => TypeOK
  <2> SUFFICES ASSUME Init PROVE TypeOK
    OBVIOUS
  <2>1. 0 \in Numbers
    BY ConstantTypes DEF Numbers
  <2>2. /\ timeStore \in Seq(Numbers) /\ Len(timeStore) <= timeStoreLength
        /\ LCDQ \in Seq(Messages) /\ Len(LCDQ) <= LCDQLength
    <3>1. timeStore = <<>> /\ LCDQ = <<>>
      BY DEF Init
    <3> QED
      BY <3>1, EmptySeq, ConstantTypes
  <2>3. line1 \in Texts /\ line2 \in Texts /\ lastFull \in Texts
    BY <2>1, TextProperties, GreetingMessage DEF Init, Kinds
  <2>4. toShow \in Messages
    BY GreetingMessage DEF Init
  <2>5. /\ display \in [Lines -> [Columns -> Texts]]
        /\ asked \in [Lines -> Texts] /\ missed \in [Lines -> SUBSET Columns]
    <3>1. /\ display \in [Lines -> [Columns -> Leftover]]
          /\ asked = [y \in Lines |-> Blank] /\ missed = [y \in Lines |-> {}]
      BY DEF Init
    <3> QED
      BY <3>1, LeftoverText
  <2> QED
    <3>1. /\ speed \in {"receive", "update", "line1", "line2"}
          /\ lcd \in {"power up", "greet", "receive", "show"}
          /\ rotations \in Numbers /\ tse_buf \in Numbers
      BY <2>1, Zenon DEF Init
    <3> QED
      BY <2>2, <2>3, <2>4, <2>5, <3>1, Zenon DEF TypeOK
<1>2. TypeOK /\ [Next]_vars => TypeOK'
  <2> SUFFICES ASSUME TypeOK, [Next]_vars PROVE TypeOK'
    OBVIOUS
  <2>1. CASE Rotation
    <3>1. rotations' \in Numbers
      <4>1. rotations \in Numbers /\ rotations < MaxRotations
            /\ rotations' = rotations + 1
        BY <2>1 DEF Rotation, TypeOK
      <4> QED
        BY <4>1, ConstantTypes DEF Numbers
    <3>2. timeStore' \in Seq(Numbers) /\ Len(timeStore') <= timeStoreLength
      <4>1. timeStore \in Seq(Numbers) /\ Len(timeStore) <= timeStoreLength
        BY DEF TypeOK
      <4>2. timeStore' = IF Len(timeStore) < timeStoreLength
                         THEN Append(timeStore, rotations') ELSE timeStore
        BY <2>1 DEF Rotation
      <4> QED
        BY <3>1, <4>1, <4>2, AppendProperties, LenProperties, ConstantTypes
    <3> QED
      BY <2>1, <3>1, <3>2, Zenon
      DEF Rotation, TypeOK, speedVars, lcdVars, displayVars
  <2>2. CASE Receive
    <3>1. /\ tse_buf' \in Numbers
          /\ timeStore' \in Seq(Numbers) /\ Len(timeStore') <= timeStoreLength
      <4>1. timeStore \in Seq(Numbers) /\ Len(timeStore) <= timeStoreLength
            /\ timeStore # <<>>
        BY <2>2 DEF Receive, TypeOK
      <4>2. tse_buf' = Head(timeStore) /\ timeStore' = Tail(timeStore)
        BY <2>2 DEF Receive
      <4> QED
        BY <4>1, <4>2, HeadTailProperties, LenProperties, ConstantTypes
    <3> QED
      BY <2>2, <3>1, Zenon DEF Receive, TypeOK, lcdVars, displayVars
  <2>3. CASE Timeout
    <3>1. line1' \in Texts /\ lastFull' \in Texts
      BY <2>3, TextProperties DEF Timeout, SetLine1, TypeOK, Kinds
    <3> QED
      BY <2>3, <3>1, Zenon DEF Timeout, TypeOK, lcdVars, displayVars
  <2>4. CASE Update
    <3>1. line1' \in Texts /\ lastFull' \in Texts /\ line2' \in Texts
      <4>1. tse_buf \in Numbers
            /\ lastFull \in Texts /\ Results \subseteq Kinds
        BY DEF TypeOK, Kinds
      <4>2. PICK t \in Results : SetLine1(t)
        BY <2>4 DEF Update
      <4>3. /\ line1' = Text(t, tse_buf)
            /\ lastFull' = line1' \/ lastFull' = lastFull
            /\ line2' = Text("result", tse_buf) /\ "result" \in Results
        BY <2>4, <4>2 DEF Update, SetLine1, Results
      <4> QED
        BY <4>1, <4>2, <4>3, TextProperties
    <3> QED
      BY <2>4, <3>1, Zenon DEF Update, TypeOK, lcdVars, displayVars
  <2>5. ASSUME NEW m \in Messages, SendLCDQ(m)
        PROVE  LCDQ' \in Seq(Messages) /\ Len(LCDQ') <= LCDQLength
    <3>1. LCDQ \in Seq(Messages)
      BY DEF TypeOK
    <3>2. Len(LCDQ) < LCDQLength /\ LCDQ' = Append(LCDQ, m)
      BY <2>5 DEF SendLCDQ
    <3> QED
      BY <3>1, <3>2, AppendProperties, LenProperties, ConstantTypes
  <2>6. CASE SendLine1
    <3>1. Message(1, line1) \in Messages
      BY MessageProperties DEF TypeOK, Lines
    <3>2. LCDQ' \in Seq(Messages) /\ Len(LCDQ') <= LCDQLength
      BY <2>5, <2>6, <3>1 DEF SendLine1
    <3> QED
      BY <2>6, <3>2, Zenon DEF SendLine1, TypeOK, lcdVars, displayVars
  <2>7. CASE SendLine2
    <3>1. Message(2, line2) \in Messages
      BY MessageProperties DEF TypeOK, Lines
    <3>2. LCDQ' \in Seq(Messages) /\ Len(LCDQ') <= LCDQLength
      BY <2>5, <2>7, <3>1 DEF SendLine2
    <3> QED
      BY <2>7, <3>2, Zenon DEF SendLine2, TypeOK, lcdVars, displayVars
  <2>8. CASE PowerUp
    BY <2>8, LeftoverText, Zenon DEF PowerUp, TypeOK, speedVars
  <2>9. CASE Greet
    <3>1. LCDQ' \in Seq(Messages) /\ Len(LCDQ') <= LCDQLength
      BY <2>5, <2>9 DEF Greet, TypeOK
    <3> QED
      BY <2>9, <3>1, Zenon DEF Greet, TypeOK, speedVars, displayVars
  <2>10. CASE LcdReceive
    <3>1. /\ toShow' \in Messages
          /\ LCDQ' \in Seq(Messages) /\ Len(LCDQ') <= LCDQLength
      <4>1. LCDQ \in Seq(Messages) /\ Len(LCDQ) <= LCDQLength /\ LCDQ # <<>>
        BY <2>10 DEF LcdReceive, TypeOK
      <4>2. toShow' = Head(LCDQ) /\ LCDQ' = Tail(LCDQ)
        BY <2>10 DEF LcdReceive
      <4> QED
        BY <4>1, <4>2, HeadTailProperties, LenProperties, ConstantTypes
    <3> QED
      BY <2>10, <3>1, Zenon DEF LcdReceive, TypeOK, speedVars, displayVars
  <2>11. CASE Show
    <3>1. /\ display' \in [Lines -> [Columns -> Texts]]
          /\ missed' \in [Lines -> SUBSET Columns]
          /\ asked' = [asked EXCEPT ![toShow.y] = toShow.text]
          /\ toShow.y \in Lines /\ toShow.text \in Texts
      BY <2>11, ShowParts
    <3>2. asked' \in [Lines -> Texts]
      BY <3>1 DEF TypeOK
    <3> QED
      BY <2>11, <3>1, <3>2, Zenon DEF Show, TypeOK, speedVars
  <2>12. CASE UNCHANGED vars
    BY <2>12, Zenon DEF vars, TypeOK, speedVars, lcdVars, displayVars
  <2> QED
    BY <2>1, <2>2, <2>3, <2>4, <2>6, <2>7, <2>8, <2>9, <2>10, <2>11, <2>12
    DEF Next, SpeedTask, LcdTask
<1> QED
  BY <1>1, <1>2, PTL DEF Spec

-----------------------------------------------------------------------------
(* What priorities do to LCDQ.  Until the LCD task waits for messages the  *)
(* speed task has not run; while the speed task is between its receive and *)
(* its first send, or the LCD task shows a line, the queue is empty.       *)
QueueInv ==
  /\ lcd \in {"power up", "greet"} =>
       /\ LCDQ = <<>>
       /\ speed = "receive"
       /\ tse_buf = 0
       /\ line1 = Text("---", 0) /\ line2 = Text("===", 0)
       /\ toShow = Greeting
       /\ lastFull = Greeting.text
       /\ asked[1] = Blank /\ asked[2] = Blank
       /\ \A c \in Columns : display[2][c].of = 0
  /\ lcd = "greet" => display = Cleared
  /\ lcd = "show" => LCDQ = <<>>
  /\ speed \in {"update", "line1"} => lcd = "receive" /\ LCDQ = <<>>
  /\ LCDQ = <<>> \/ \E m \in Messages : LCDQ = Append(<<>>, m)

LEMMA SpeedRunsAlone ==
  ASSUME QueueInv, SpeedRuns
  PROVE  lcd = "receive" /\ LCDQ = <<>>
<1>1. lcd = "greet" => LCDQ = <<>>
  BY DEF QueueInv
<1>2. Len(<<>>) = 0
  BY EmptySeq
<1>3. 0 # LCDQLength
  BY ConstantTypes
<1> QED
  BY <1>1, <1>2, <1>3 DEF SpeedRuns, LcdBlocked

LEMMA QueueCorrect == Spec => []QueueInv
<1>1. Init => QueueInv
  <2>1. ASSUME Init PROVE \A c \in Columns : display[2][c].of = 0
    <3>1. display \in [Lines -> [Columns -> Leftover]] /\ 2 \in Lines
      BY <2>1 DEF Init, Lines
    <3> QED
      BY <3>1, LeftoverText
  <2>2. ASSUME Init PROVE asked[1] = Blank /\ asked[2] = Blank
    BY <2>2 DEF Init, Lines
  <2> QED
    BY <2>1, <2>2 DEF Init, QueueInv
<1>2. TypeOK /\ QueueInv /\ [Next]_vars => QueueInv'
  <2> SUFFICES ASSUME TypeOK, QueueInv, [Next]_vars PROVE QueueInv'
    OBVIOUS
  <2>1. CASE Rotation
    BY <2>1, Zenon DEF Rotation, QueueInv, speedVars, lcdVars, displayVars
  <2>2. CASE SpeedTask
    <3>1. lcd = "receive" /\ LCDQ = <<>> /\ lcd' = lcd
      BY <2>2, SpeedRunsAlone, Zenon
      DEF SpeedTask, Receive, Timeout, Update, SendLine1, SendLine2, lcdVars,
          displayVars
    <3>2. CASE Receive \/ Timeout \/ Update
      <4>1. LCDQ' = LCDQ
        BY <3>2, Zenon DEF Receive, Timeout, Update
      <4> QED
        BY <3>1, <4>1 DEF QueueInv
    <3>3. CASE SendLine1
      <4>1. Message(1, line1) \in Messages
        BY MessageProperties DEF TypeOK, Lines
      <4>2. LCDQ' = Append(<<>>, Message(1, line1)) /\ speed' = "line2"
        BY <3>1, <3>3, Zenon DEF SendLine1, SendLCDQ
      <4> QED
        BY <3>1, <4>1, <4>2 DEF QueueInv
    <3>4. CASE SendLine2
      <4>1. Message(2, line2) \in Messages
        BY MessageProperties DEF TypeOK, Lines
      <4>2. LCDQ' = Append(<<>>, Message(2, line2)) /\ speed' = "receive"
        BY <3>1, <3>4, Zenon DEF SendLine2, SendLCDQ
      <4> QED
        BY <3>1, <4>1, <4>2 DEF QueueInv
    <3> QED
      BY <2>2, <3>2, <3>3, <3>4 DEF SpeedTask
  <2>3. CASE PowerUp
    <3>1. \A c \in Columns : Cleared[2][c].of = 0
      BY LeftoverText DEF Lines
    <3>2. /\ lcd = "power up" /\ lcd' = "greet" /\ display' = Cleared
          /\ UNCHANGED <<speed, tse_buf, line1, line2, lastFull, LCDQ, toShow,
                         asked>>
      BY <2>3, Zenon DEF PowerUp, speedVars
    <3> QED
      BY <3>1, <3>2 DEF QueueInv
  <2>4. CASE Greet
    <3>1. LCDQ = <<>> /\ speed = "receive"
      BY <2>4 DEF Greet, QueueInv
    <3>2. LCDQ' = Append(<<>>, toShow) /\ lcd' = "receive" /\ speed' = speed
      BY <2>4, <3>1, Zenon DEF Greet, SendLCDQ, speedVars
    <3>3. toShow \in Messages
      BY DEF TypeOK
    <3> QED
      BY <3>1, <3>2, <3>3 DEF QueueInv
  <2>5. CASE LcdReceive
    <3>1. PICK m \in Messages : LCDQ = Append(<<>>, m)
      BY <2>5 DEF LcdReceive, QueueInv
    <3>2. LCDQ' = <<>>
      BY <2>5, <3>1, OneElement DEF LcdReceive
    <3>3. lcd' = "show" /\ speed' = speed /\ LCDQ # <<>>
      BY <2>5, Zenon DEF LcdReceive, speedVars
    <3> QED
      BY <3>2, <3>3 DEF QueueInv
  <2>6. CASE Show
    <3>1. lcd = "show" /\ lcd' = "receive" /\ speed' = speed /\ LCDQ' = LCDQ
      BY <2>6, Zenon DEF Show, speedVars
    <3> QED
      BY <3>1 DEF QueueInv
  <2>7. CASE UNCHANGED vars
    BY <2>7, Zenon DEF vars, QueueInv, speedVars, lcdVars, displayVars
  <2> QED
    BY <2>1, <2>2, <2>3, <2>4, <2>5, <2>6, <2>7 DEF Next, LcdTask
<1> QED
  BY <1>1, <1>2, TypeCorrect, PTL DEF Spec

(* LCDQ never holds more than one message, and none when one is sent,      *)
(* whatever its length: no task waits for room in it.                      *)
THEOREM QueueNeverFills == Spec => []LCDQHoldsOne
<1>1. ASSUME QueueInv PROVE LCDQHoldsOne
  <2>1. Len(LCDQ) <= 1
    <3>1. CASE LCDQ = <<>>
      BY <3>1, EmptySeq
    <3>2. CASE \E m \in Messages : LCDQ = Append(<<>>, m)
      BY <3>2, OneElement
    <3> QED
      BY <1>1, <3>1, <3>2 DEF QueueInv
  <2>2. LcdBlocked => LCDQ = <<>>
    BY <1>1, SpeedRunsAlone DEF SpeedRuns
  <2>3. lcd = "greet" => LCDQ = <<>>
    BY <1>1 DEF QueueInv
  <2> QED
    BY <2>1, <2>2, <2>3 DEF LCDQHoldsOne
<1> QED
  BY <1>1, QueueCorrect, PTL

-----------------------------------------------------------------------------
(* What line y is asked to show, once the message on its way is received.  *)
Arriving(y) ==
  IF LCDQ # <<>> /\ Head(LCDQ).y = y THEN Head(LCDQ).text
  ELSE IF lcd = "show" /\ toShow.y = y THEN toShow.text
  ELSE asked[y]

NothingSent ==
  /\ tse_buf = 0 /\ line1.text = "---"
  /\ \/ lcd \in {"power up", "greet"}
     \/ Arriving(1) = Greeting.text /\ Arriving(2) = Blank

(* The lines are on their way as soon as they are sent, and line 1 is so   *)
(* before line 2.                                                          *)
LinesInv ==
  /\ speed = "receive" =>
       NothingSent \/ (Arriving(1) = line1 /\ Arriving(2) = line2)
  /\ speed = "line2" => Arriving(1) = line1

(* What each kind of step does to the lines on their way.                  *)
LEMMA SpeedTaskArriving ==
  ASSUME TypeOK, QueueInv, SpeedTask
  PROVE  /\ lcd = "receive" /\ lcd' = "receive" /\ UNCHANGED displayVars
         /\ \A y \in Lines : Arriving(y) = asked[y]
         /\ \A y \in Lines :
              Arriving(y)' = IF SendLine1 /\ y = 1 THEN line1
                             ELSE IF SendLine2 /\ y = 2 THEN line2
                             ELSE asked[y]
<1>1. lcd = "receive" /\ LCDQ = <<>> /\ lcd' = lcd /\ UNCHANGED displayVars
  BY SpeedRunsAlone, Zenon
  DEF SpeedTask, Receive, Timeout, Update, SendLine1, SendLine2, lcdVars
<1>2. \A y \in Lines : Arriving(y) = asked[y]
  BY <1>1 DEF Arriving, displayVars
<1>3. ASSUME NEW y \in Lines
      PROVE  Arriving(y)' = IF SendLine1 /\ y = 1 THEN line1
                            ELSE IF SendLine2 /\ y = 2 THEN line2
                            ELSE asked[y]
  <2>1. CASE Receive \/ Timeout \/ Update
    <3>1. LCDQ' = <<>> /\ ~SendLine1 /\ ~SendLine2
      BY <1>1, <2>1 DEF Receive, Timeout, Update, SendLine1, SendLine2
    <3> QED
      BY <1>1, <3>1 DEF Arriving, displayVars
  <2>2. CASE SendLine1
    <3>1. LCDQ' = Append(<<>>, Message(1, line1)) /\ ~SendLine2
      BY <1>1, <2>2, Zenon DEF SendLine1, SendLine2, SendLCDQ
    <3>2. Message(1, line1) \in Messages /\ Message(1, line1).y = 1
          /\ Message(1, line1).text = line1
      BY MessageProperties DEF TypeOK, Lines
    <3>3. LCDQ' # <<>> /\ Head(LCDQ') = Message(1, line1)
      BY <3>1, <3>2, OneElement
    <3> QED
      BY <1>1, <2>2, <3>1, <3>2, <3>3 DEF Arriving, displayVars
  <2>3. CASE SendLine2
    <3>1. LCDQ' = Append(<<>>, Message(2, line2)) /\ ~SendLine1
      BY <1>1, <2>3, Zenon DEF SendLine1, SendLine2, SendLCDQ
    <3>2. Message(2, line2) \in Messages /\ Message(2, line2).y = 2
          /\ Message(2, line2).text = line2
      BY MessageProperties DEF TypeOK, Lines
    <3>3. LCDQ' # <<>> /\ Head(LCDQ') = Message(2, line2)
      BY <3>1, <3>2, OneElement
    <3> QED
      BY <1>1, <2>3, <3>1, <3>2, <3>3 DEF Arriving, displayVars
  <2> QED
    BY <2>1, <2>2, <2>3 DEF SpeedTask
<1> QED
  BY <1>1, <1>2, <1>3

(* The LCD task changes nothing that is on its way, but for its greeting.  *)
LEMMA LcdTaskArriving ==
  ASSUME TypeOK, QueueInv, LcdReceive \/ Show
  PROVE  /\ lcd \notin {"power up", "greet"}
         /\ \A y \in Lines : Arriving(y)' = Arriving(y)
<1>1. ASSUME LcdReceive, NEW y \in Lines PROVE Arriving(y)' = Arriving(y)
  <2>1. PICK m \in Messages : LCDQ = Append(<<>>, m)
    BY <1>1 DEF LcdReceive, QueueInv
  <2>2. LCDQ # <<>> /\ Head(LCDQ) = m /\ LCDQ' = <<>> /\ toShow' = m
    BY <1>1, <2>1, OneElement DEF LcdReceive
  <2>3. lcd = "receive" /\ lcd' = "show" /\ asked' = asked
    BY <1>1, Zenon DEF LcdReceive, displayVars
  <2> QED
    BY <2>2, <2>3 DEF Arriving
<1>2. ASSUME Show, NEW y \in Lines PROVE Arriving(y)' = Arriving(y)
  <2>1. LCDQ = <<>> /\ LCDQ' = <<>> /\ lcd = "show" /\ lcd' = "receive"
    BY <1>2, Zenon DEF Show, QueueInv
  <2>4. asked'[y] = IF y = toShow.y THEN toShow.text ELSE asked[y]
    BY <1>2, ShowParts
  <2> QED
    BY <2>1, <2>4 DEF Arriving
<1>3. lcd \notin {"power up", "greet"}
  BY DEF LcdReceive, Show
<1> QED
  BY <1>1, <1>2, <1>3

LEMMA GreetArriving ==
  ASSUME TypeOK, QueueInv, Greet
  PROVE  /\ Arriving(1)' = Greeting.text /\ Arriving(2)' = Blank
         /\ LCDQ' # <<>> /\ Head(LCDQ') = Greeting
<1>1. LCDQ = <<>> /\ toShow = Greeting /\ asked[2] = Blank
  BY DEF Greet, QueueInv
<1>2. LCDQ' = Append(<<>>, Greeting) /\ lcd' = "receive" /\ asked' = asked
  BY <1>1, Zenon DEF Greet, SendLCDQ, displayVars
<1>3. LCDQ' # <<>> /\ Head(LCDQ') = Greeting
  BY <1>2, GreetingMessage, OneElement
<1> QED
  BY <1>1, <1>2, <1>3, GreetingMessage DEF Arriving

LEMMA LinesInvariant == Spec => []LinesInv
<1>1. Init => LinesInv
  <2> SUFFICES ASSUME Init PROVE LinesInv
    OBVIOUS
  <2>1. lcd = "power up" /\ speed = "receive" /\ tse_buf = 0
        /\ line1 = Text("---", 0)
    BY DEF Init
  <2>2. Text("---", 0).text = "---"
    BY DEF Text
  <2> QED
    BY <2>1, <2>2 DEF LinesInv, NothingSent
<1>2. TypeOK /\ QueueInv /\ LinesInv /\ [Next]_vars => LinesInv'
  <2> SUFFICES ASSUME TypeOK, QueueInv, LinesInv, [Next]_vars
               PROVE  LinesInv'
    OBVIOUS
  <2>1. CASE Rotation
    BY <2>1
    DEF Rotation, LinesInv, NothingSent, Arriving, speedVars, lcdVars,
        displayVars
  <2>2. CASE SpeedTask
    <3>1. /\ lcd = "receive" /\ lcd' = "receive"
          /\ Arriving(1) = asked[1] /\ Arriving(2) = asked[2]
          /\ Arriving(1)' = IF SendLine1 THEN line1 ELSE asked[1]
          /\ Arriving(2)' = IF SendLine2 THEN line2 ELSE asked[2]
      BY <2>2, SpeedTaskArriving DEF Lines
    <3>2. CASE Receive \/ Timeout \/ Update
      BY <3>2 DEF Receive, Timeout, Update, LinesInv
    <3>3. CASE SendLine1
      <4>1. speed' = "line2" /\ line1' = line1
        BY <3>3 DEF SendLine1
      <4> QED
        BY <3>1, <3>3, <4>1 DEF LinesInv
    <3>4. CASE SendLine2
      <4>1. speed = "line2" /\ speed' = "receive"
            /\ line1' = line1 /\ line2' = line2
        BY <3>4 DEF SendLine2
      <4>2. ~SendLine1
        BY <4>1 DEF SendLine1
      <4> QED
        BY <3>1, <3>4, <4>1, <4>2 DEF LinesInv
    <3> QED
      BY <2>2, <3>2, <3>3, <3>4 DEF SpeedTask
  <2>3. CASE PowerUp
    <3>1. /\ lcd' = "greet" /\ speed' = "receive" /\ tse_buf' = 0
          /\ line1' = Text("---", 0)
      BY <2>3 DEF PowerUp, QueueInv, speedVars
    <3>2. Text("---", 0).text = "---"
      BY DEF Text
    <3> QED
      BY <3>1, <3>2 DEF LinesInv, NothingSent
  <2>4. CASE Greet
    <3>1. Arriving(1)' = Greeting.text /\ Arriving(2)' = Blank
      BY <2>4, GreetArriving
    <3>2. speed' = "receive" /\ tse_buf' = 0 /\ line1' = Text("---", 0)
      BY <2>4 DEF Greet, QueueInv, speedVars
    <3>3. Text("---", 0).text = "---"
      BY DEF Text
    <3> QED
      BY <3>1, <3>2, <3>3 DEF LinesInv, NothingSent
  <2>5. CASE LcdReceive \/ Show
    <3>1. /\ lcd \notin {"power up", "greet"}
          /\ Arriving(1)' = Arriving(1) /\ Arriving(2)' = Arriving(2)
      BY <2>5, LcdTaskArriving DEF Lines
    <3>2. UNCHANGED <<speed, tse_buf, line1, line2>>
      BY <2>5, Zenon DEF LcdReceive, Show, speedVars
    <3> QED
      BY <3>1, <3>2 DEF LinesInv, NothingSent
  <2>6. CASE UNCHANGED vars
    BY <2>6
    DEF vars, LinesInv, NothingSent, Arriving, speedVars, lcdVars, displayVars
  <2> QED
    BY <2>1, <2>2, <2>3, <2>4, <2>5, <2>6 DEF Next, LcdTask
<1> QED
  BY <1>1, <1>2, TypeCorrect, QueueCorrect, PTL DEF Spec

-----------------------------------------------------------------------------
(* What is on its way to line 2 is of the rotation received last ...       *)
LineParts ==
  /\ speed # "update" => line2.of = tse_buf
  /\ speed = "receive" => Arriving(2).of = tse_buf
  /\ speed = "line2" => Arriving(2) = asked[2]

(* ... and the rotations in timeStore are later ones, in order.            *)
QueueParts ==
  /\ \A i \in 1 .. Len(timeStore) :
       tse_buf < timeStore[i] /\ timeStore[i] <= rotations
  /\ \A i, j \in 1 .. Len(timeStore) : i < j => timeStore[i] < timeStore[j]
  /\ tse_buf <= rotations

RotationsInv == LineParts /\ QueueParts

LEMMA RotationsInvariant == Spec => []RotationsInv
<1>1. Init => RotationsInv
  <2> SUFFICES ASSUME Init PROVE RotationsInv
    OBVIOUS
  <2>1. lcd = "power up" /\ LCDQ = <<>> /\ speed = "receive" /\ tse_buf = 0
        /\ line2 = Text("===", 0) /\ timeStore = <<>> /\ rotations = 0
        /\ asked[2] = Blank
    BY DEF Init, Lines
  <2>2. Arriving(2).of = 0
    BY <2>1, LeftoverText DEF Arriving
  <2>3. Text("===", 0).of = 0
    BY DEF Text
  <2>4. Len(timeStore) = 0
    BY <2>1, EmptySeq
  <2> QED
    <3>1. LineParts
      BY <2>1, <2>2, <2>3 DEF LineParts
    <3>2. QueueParts
      <4>1. tse_buf = 0 /\ rotations = 0
        BY <2>1
      <4> QED
        BY <2>4, <4>1 DEF QueueParts
    <3> QED
      BY <3>1, <3>2 DEF RotationsInv
<1>2. TypeOK /\ QueueInv /\ RotationsInv /\ [Next]_vars => RotationsInv'
  <2> SUFFICES ASSUME TypeOK, QueueInv, RotationsInv, [Next]_vars
               PROVE  RotationsInv'
    OBVIOUS
  <2>a. /\ rotations \in Nat /\ tse_buf \in Nat
        /\ timeStore \in Seq(Nat) /\ Len(timeStore) \in Nat
    <3>1. Numbers \subseteq Nat
      BY ConstantTypes DEF Numbers
    <3>2. rotations \in Numbers /\ tse_buf \in Numbers
          /\ timeStore \in Seq(Numbers)
      BY DEF TypeOK
    <3>3. timeStore \in Seq(Nat)
      BY <3>1, <3>2, SeqMonotonic
    <3> QED
      BY <3>1, <3>2, <3>3, LenProperties
  <2>b. LineParts /\ QueueParts
    BY DEF RotationsInv
  <2>c. ASSUME UNCHANGED <<rotations, timeStore, tse_buf>> PROVE QueueParts'
    BY <2>b, <2>c DEF QueueParts
  <2>1. CASE Rotation
    <3>1. LineParts'
      BY <2>1, <2>b
      DEF LineParts, Rotation, Arriving, speedVars, lcdVars, displayVars
    <3>2. QueueParts'
      <4>1. rotations' = rotations + 1 /\ tse_buf' = tse_buf
            /\ timeStore' \in {timeStore, Append(timeStore, rotations')}
        BY <2>1 DEF Rotation, speedVars
      <4>2. rotations' \in Nat
        BY <2>a, <4>1
      <4>3. /\ Len(Append(timeStore, rotations')) = Len(timeStore) + 1
            /\ \A i \in 1 .. Len(timeStore) :
                 Append(timeStore, rotations')[i] = timeStore[i]
            /\ Append(timeStore, rotations')[Len(timeStore) + 1] = rotations'
        BY <2>a, <4>2, AppendProperties
      <4>4. \A i \in 1 .. Len(timeStore) : timeStore[i] \in Nat
        BY <2>a
      <4>5. CASE timeStore' = timeStore
        BY <2>a, <2>b, <4>1, <4>4, <4>5 DEF QueueParts
      <4>6. CASE timeStore' = Append(timeStore, rotations')
        BY <2>a, <2>b, <4>1, <4>3, <4>4, <4>6 DEF QueueParts
      <4> QED
        BY <4>1, <4>5, <4>6
    <3> QED
      BY <3>1, <3>2 DEF RotationsInv
  <2>2. CASE Receive
    <3>1. speed' = "update" /\ timeStore # <<>> /\ tse_buf' = Head(timeStore)
          /\ timeStore' = Tail(timeStore) /\ rotations' = rotations
      BY <2>2 DEF Receive
    <3>2. /\ Len(timeStore) > 0 /\ Head(timeStore) = timeStore[1]
          /\ Len(Tail(timeStore)) = Len(timeStore) - 1
          /\ \A i \in 1 .. Len(Tail(timeStore)) :
               Tail(timeStore)[i] = timeStore[i + 1]
      BY <2>a, <3>1, HeadTailProperties, EmptySeq
    <3>3. QueueParts'
      BY <2>a, <2>b, <3>1, <3>2 DEF QueueParts
    <3> QED
      BY <3>1, <3>3 DEF RotationsInv, LineParts
  <2>3. CASE Timeout
    <3>1. speed' = "line1" /\ speed = "receive" /\ line2' = line2
          /\ UNCHANGED <<rotations, timeStore, tse_buf>>
      BY <2>3, Zenon DEF Timeout
    <3> QED
      BY <2>b, <2>c, <3>1 DEF RotationsInv, LineParts
  <2>4. CASE Update
    <3>1. speed' = "line1" /\ line2' = Text("result", tse_buf)
          /\ UNCHANGED <<rotations, timeStore, tse_buf>>
      BY <2>4, Zenon DEF Update
    <3>2. line2'.of = tse_buf'
      BY <3>1 DEF Text
    <3> QED
      BY <2>c, <3>1, <3>2 DEF RotationsInv, LineParts
  <2>5. CASE SendLine1
    <3>1. speed = "line1" /\ speed' = "line2" /\ line2' = line2
          /\ UNCHANGED <<rotations, timeStore, tse_buf>>
      BY <2>5, Zenon DEF SendLine1
    <3>2. ~SendLine2
      BY <3>1 DEF SendLine2
    <3>3. Arriving(2)' = asked'[2]
      <4>1. asked' = asked
        BY <2>5, Zenon DEF SendLine1, lcdVars, displayVars
      <4> QED
        BY <2>5, <3>2, <4>1, SpeedTaskArriving DEF SpeedTask, Lines
    <3> QED
      BY <2>b, <2>c, <3>1, <3>3 DEF RotationsInv, LineParts
  <2>6. CASE SendLine2
    <3>1. speed = "line2" /\ speed' = "receive" /\ line2' = line2
          /\ UNCHANGED <<rotations, timeStore, tse_buf>>
      BY <2>6, Zenon DEF SendLine2
    <3>2. Arriving(2)' = line2
      BY <2>6, <3>1, SpeedTaskArriving DEF SpeedTask, Lines
    <3> QED
      BY <2>b, <2>c, <3>1, <3>2 DEF RotationsInv, LineParts
  <2>7. CASE PowerUp
    <3>1. /\ UNCHANGED <<rotations, timeStore, speed, tse_buf, line2>>
          /\ speed = "receive" /\ tse_buf = 0
          /\ LCDQ' = <<>> /\ lcd' = "greet"
          /\ asked' = asked /\ asked[2] = Blank
      BY <2>7, Zenon DEF PowerUp, QueueInv, speedVars
    <3>2. Arriving(2)'.of = 0
      BY <3>1, LeftoverText DEF Arriving
    <3> QED
      BY <2>b, <2>c, <3>1, <3>2 DEF RotationsInv, LineParts
  <2>8. CASE Greet
    <3>1. UNCHANGED <<rotations, timeStore, speed, tse_buf, line2>>
          /\ speed = "receive" /\ tse_buf = 0
      BY <2>8, Zenon DEF Greet, QueueInv, speedVars
    <3>2. Arriving(2)'.of = 0
      BY <2>8, GreetArriving, LeftoverText
    <3> QED
      BY <2>b, <2>c, <3>1, <3>2 DEF RotationsInv, LineParts
  <2>9. CASE LcdReceive \/ Show
    <3>1. Arriving(2)' = Arriving(2)
      BY <2>9, LcdTaskArriving DEF Lines
    <3>2. UNCHANGED <<rotations, timeStore, speed, tse_buf, line2>>
      BY <2>9, Zenon DEF LcdReceive, Show, speedVars
    <3>3. speed = "line2" => asked'[2] = asked[2]
      <4>1. CASE LcdReceive
        BY <4>1, Zenon DEF LcdReceive, displayVars
      <4>2. ASSUME Show, speed = "line2" PROVE asked'[2] = asked[2]
        <5>1. Arriving(2) = asked[2] /\ lcd = "show" /\ LCDQ = <<>>
          BY <2>b, <4>2 DEF Show, QueueInv, LineParts
        <5>2. toShow.y = 2 => toShow.text = asked[2]
          BY <5>1 DEF Arriving
        <5> QED
          BY <4>2, <5>2, ShowParts DEF Lines
      <4> QED
        BY <2>9, <4>1, <4>2
    <3> QED
      BY <2>b, <2>c, <3>1, <3>2, <3>3 DEF RotationsInv, LineParts
  <2>10. CASE UNCHANGED vars
    BY <2>10, <2>b
    DEF vars, RotationsInv, LineParts, QueueParts, Arriving, speedVars,
        lcdVars, displayVars
  <2> QED
    BY <2>1, <2>2, <2>3, <2>4, <2>5, <2>6, <2>7, <2>8, <2>9, <2>10
    DEF Next, SpeedTask, LcdTask
<1> QED
  BY <1>1, <1>2, TypeCorrect, QueueCorrect, PTL DEF Spec

-----------------------------------------------------------------------------
(* Where no call was given up, a line shows the text it was last asked to  *)
(* show, as far as that text goes.                                         *)
ShownInv ==
  lcd # "power up" =>
    \A y \in Lines : \A c \in 1 .. Length(asked[y]) :
      c \in missed[y] \/ display[y][c] = asked[y]

LEMMA ShownInvariant == Spec => []ShownInv
<1>1. Init => ShownInv
  BY DEF Init, ShownInv
<1>2. TypeOK /\ QueueInv /\ ShownInv /\ [Next]_vars => ShownInv'
  <2> SUFFICES ASSUME TypeOK, QueueInv, ShownInv, [Next]_vars
               PROVE  ShownInv'
    OBVIOUS
  <2>1. CASE Show
    <3> SUFFICES ASSUME NEW y \in Lines, NEW c \in 1 .. Length(asked'[y])
                 PROVE  c \in missed'[y] \/ display'[y][c] = asked'[y]
      BY DEF ShownInv
    <3>1. lcd # "power up"
      BY <2>1 DEF Show
    <3>2. CASE y = toShow.y
      <4>1. PICK n \in 0 .. Length(toShow.text) :
              /\ display'[y] =
                   [d \in Columns |->
                      IF d <= n THEN toShow.text ELSE display[y][d]]
              /\ missed'[y] =
                   (missed[y] \ (1 .. n)) \cup (n + 1 .. Length(toShow.text))
        BY <2>1, <3>2, ShowParts
      <4>2. asked'[y] = toShow.text
        BY <2>1, <3>2, ShowParts
      <4>3. c \in Columns /\ c \in Nat /\ Length(toShow.text) \in Nat
        BY <4>2, LengthProperties, ConstantTypes DEF Columns
      <4> QED
        BY <4>1, <4>2, <4>3
    <3>3. CASE y # toShow.y
      <4>1. /\ display'[y] = display[y] /\ missed'[y] = missed[y]
            /\ asked'[y] = asked[y]
        BY <2>1, <3>3, ShowParts
      <4>2. c \in 1 .. Length(asked[y])
        BY <4>1
      <4> QED
        BY <3>1, <4>1, <4>2 DEF ShownInv
    <3> QED
      BY <3>2, <3>3
  <2>2. CASE PowerUp
    <3>1. asked[1] = Blank /\ asked[2] = Blank
      BY <2>2 DEF PowerUp, QueueInv
    <3>2. display' = Cleared /\ asked' = asked
      BY <2>2 DEF PowerUp
    <3>3. 1 .. Length(Blank) \subseteq Columns
      BY LengthProperties, ConstantTypes DEF Columns
    <3> QED
      <4>1. \A y \in Lines : asked'[y] = Blank
        BY <3>1, <3>2 DEF Lines
      <4>2. \A y \in Lines : \A c \in 1 .. Length(Blank) :
              display'[y][c] = Blank
        BY <3>2, <3>3, LeftoverText
      <4> QED
        <5> SUFFICES ASSUME NEW y \in Lines, NEW c \in 1 .. Length(asked'[y])
                     PROVE  display'[y][c] = asked'[y]
          BY DEF ShownInv
        <5>1. asked'[y] = Blank
          BY <4>1
        <5>2. c \in 1 .. Length(Blank)
          BY <5>1
        <5> QED
          BY <4>2, <5>1, <5>2
  <2>3. CASE UNCHANGED displayVars /\ (lcd # "power up" \/ lcd' = lcd)
    BY <2>3 DEF ShownInv, displayVars
  <2>4. \/ Show \/ PowerUp
        \/ UNCHANGED displayVars /\ (lcd # "power up" \/ lcd' = lcd)
    <3>1. "greet" # "power up" /\ "receive" # "power up"
      OBVIOUS
    <3> QED
      BY <3>1, Zenon
      DEF Next, SpeedTask, LcdTask, Rotation, Receive, Timeout, Update,
          SendLine1, SendLine2, Greet, LcdReceive, vars, lcdVars
  <2> QED
    BY <2>1, <2>2, <2>3, <2>4
<1> QED
  BY <1>1, <1>2, TypeCorrect, QueueCorrect, PTL DEF Spec

(* The last column of line 1 is of the last text that has it, unless that  *)
(* text is still on its way; no other such text is.                        *)
OnItsWay(t) ==
  \/ speed = "line1" /\ t = line1
  \/ LCDQ # <<>> /\ Head(LCDQ).y = 1 /\ t = Head(LCDQ).text
  \/ lcd = "show" /\ toShow.y = 1 /\ t = toShow.text

FullInv ==
  /\ Fills(lastFull)
  /\ \A t \in Texts : OnItsWay(t) /\ Fills(t) => t = lastFull
  /\ \/ lcd \in {"power up", "greet"}
     \/ OnItsWay(lastFull)
     \/ HORIZONTAL_SIZE \in missed[1]
     \/ display[1][HORIZONTAL_SIZE] = lastFull

LEMMA SpeedTaskOnItsWay ==
  ASSUME TypeOK, QueueInv, SpeedTask, NEW t
  PROVE  /\ lcd = "receive" /\ LCDQ = <<>>
         /\ OnItsWay(t) <=> speed = "line1" /\ t = line1
         /\ Receive \/ SendLine2 => ~OnItsWay(t)'
         /\ Timeout \/ Update \/ SendLine1 => (OnItsWay(t)' <=> t = line1')
<1>1. lcd = "receive" /\ LCDQ = <<>> /\ lcd' = "receive"
  BY SpeedTaskArriving, SpeedRunsAlone, Zenon
  DEF SpeedTask, Receive, Timeout, Update, SendLine1, SendLine2
<1>2. OnItsWay(t) <=> speed = "line1" /\ t = line1
  BY <1>1 DEF OnItsWay
<1>3. CASE Receive
  <2>1. LCDQ' = <<>> /\ speed' = "update"
        /\ ~Timeout /\ ~Update /\ ~SendLine1
    BY <1>1, <1>3 DEF Receive, Timeout, Update, SendLine1
  <2> QED
    BY <1>1, <1>2, <2>1 DEF OnItsWay
<1>4. CASE Timeout \/ Update
  <2>1. LCDQ' = <<>> /\ speed' = "line1" /\ ~Receive /\ ~SendLine2
    BY <1>1, <1>4 DEF Receive, Timeout, Update, SendLine2
  <2> QED
    BY <1>1, <1>2, <2>1 DEF OnItsWay
<1>5. CASE SendLine1
  <2>1. /\ LCDQ' = Append(<<>>, Message(1, line1)) /\ speed' = "line2"
        /\ line1' = line1 /\ ~Receive /\ ~SendLine2
    BY <1>1, <1>5, Zenon DEF SendLine1, SendLCDQ, Receive, SendLine2
  <2>2. Message(1, line1) \in Messages /\ Message(1, line1).y = 1
        /\ Message(1, line1).text = line1
    BY MessageProperties DEF TypeOK, Lines
  <2>3. LCDQ' # <<>> /\ Head(LCDQ') = Message(1, line1)
    BY <2>1, <2>2, OneElement
  <2> QED
    BY <1>1, <1>2, <2>1, <2>2, <2>3 DEF OnItsWay
<1>6. CASE SendLine2
  <2>1. /\ LCDQ' = Append(<<>>, Message(2, line2)) /\ speed' = "receive"
        /\ ~Timeout /\ ~Update /\ ~SendLine1
    BY <1>1, <1>6, Zenon
    DEF SendLine2, SendLCDQ, Timeout, Update, SendLine1
  <2>2. Message(2, line2) \in Messages /\ Message(2, line2).y = 2
    BY MessageProperties DEF TypeOK, Lines
  <2>3. LCDQ' # <<>> /\ Head(LCDQ') = Message(2, line2)
    BY <2>1, <2>2, OneElement
  <2> QED
    BY <1>1, <1>2, <2>1, <2>2, <2>3 DEF OnItsWay
<1> QED
  BY <1>1, <1>2, <1>3, <1>4, <1>5, <1>6 DEF SpeedTask

LEMMA FullInvariant == Spec => []FullInv
<1>a. Fills(Greeting.text)
  BY GreetingMessage, LengthProperties
<1>1. Init => FullInv
  BY <1>a DEF Init, FullInv, OnItsWay
<1>2. TypeOK /\ QueueInv /\ FullInv /\ [Next]_vars => FullInv'
  <2> SUFFICES ASSUME TypeOK, QueueInv, FullInv, [Next]_vars
               PROVE  FullInv'
    OBVIOUS
  <2>1. CASE Rotation
    BY <2>1, Zenon
    DEF Rotation, FullInv, OnItsWay, speedVars, lcdVars, displayVars
  <2>2. CASE SpeedTask
    <3>1. lcd' = "receive" /\ UNCHANGED displayVars /\ lcd = "receive"
      BY <2>2, SpeedTaskArriving
    <3>2. CASE Receive \/ SendLine2
      <4>1. speed # "line1" /\ lastFull' = lastFull
        BY <3>2 DEF Receive, SendLine2
      <4>2. \A t : ~OnItsWay(t) /\ ~OnItsWay(t)'
        BY <2>2, <3>2, <4>1, SpeedTaskOnItsWay
      <4> QED
        BY <3>1, <4>1, <4>2 DEF FullInv, displayVars
    <3>3. CASE SendLine1
      <4>1. speed = "line1" /\ lastFull' = lastFull /\ line1' = line1
        BY <3>3 DEF SendLine1
      <4>2. \A t : OnItsWay(t) <=> OnItsWay(t)'
        BY <2>2, <3>3, <4>1, SpeedTaskOnItsWay
      <4> QED
        BY <3>1, <4>1, <4>2 DEF FullInv, displayVars
    <3>4. CASE Timeout \/ Update
      <4>1. speed # "line1"
            /\ lastFull' = IF Fills(line1') THEN line1' ELSE lastFull
        BY <3>4 DEF Timeout, Update, SetLine1
      <4>2. \A t : ~OnItsWay(t) /\ (OnItsWay(t)' <=> t = line1')
        BY <2>2, <3>4, <4>1, SpeedTaskOnItsWay
      <4>3. Fills(lastFull)' <=> Fills(lastFull')
        BY DEF Fills, Length
      <4>4. \A t : Fills(t)' <=> Fills(t)
        BY DEF Fills, Length
      <4> QED
        BY <3>1, <4>1, <4>2, <4>3, <4>4 DEF FullInv, displayVars
    <3> QED
      BY <2>2, <3>2, <3>3, <3>4 DEF SpeedTask
  <2>3. CASE PowerUp
    <3>1. /\ lcd = "power up" /\ lcd' = "greet" /\ LCDQ = <<>>
          /\ speed = "receive"
          /\ UNCHANGED <<speed, line1, lastFull, LCDQ, toShow>>
      BY <2>3, Zenon DEF PowerUp, QueueInv, speedVars
    <3> QED
      BY <3>1 DEF FullInv, OnItsWay
  <2>4. CASE Greet
    <3>1. /\ lcd' = "receive" /\ speed = "receive" /\ speed' = speed
          /\ lastFull = Greeting.text /\ lastFull' = lastFull
      BY <2>4, Zenon DEF Greet, QueueInv, speedVars
    <3>2. LCDQ' # <<>> /\ Head(LCDQ') = Greeting
      BY <2>4, GreetArriving
    <3>3. \A t : OnItsWay(t)' <=> t = Greeting.text
      BY <3>1, <3>2, GreetingMessage DEF OnItsWay
    <3> QED
      BY <3>1, <3>3 DEF FullInv
  <2>5. CASE LcdReceive
    <3>1. PICK m \in Messages : LCDQ = Append(<<>>, m)
      BY <2>5 DEF LcdReceive, QueueInv
    <3>2. LCDQ # <<>> /\ Head(LCDQ) = m /\ LCDQ' = <<>> /\ toShow' = m
      BY <2>5, <3>1, OneElement DEF LcdReceive
    <3>3. /\ lcd = "receive" /\ lcd' = "show"
          /\ UNCHANGED <<speed, line1, lastFull, displayVars>>
      BY <2>5, Zenon DEF LcdReceive, speedVars
    <3>4. \A t : OnItsWay(t)' <=> OnItsWay(t)
      BY <3>2, <3>3 DEF OnItsWay
    <3> QED
      BY <3>3, <3>4 DEF FullInv, displayVars
  <2>6. CASE Show
    <3>1. /\ lcd = "show" /\ lcd' = "receive" /\ LCDQ = <<>> /\ LCDQ' = <<>>
          /\ UNCHANGED <<speed, line1, lastFull>>
      BY <2>6, Zenon DEF Show, QueueInv, speedVars
    <3>2. speed # "line1"
      BY <3>1 DEF QueueInv
    <3>3. \A t : /\ OnItsWay(t) <=> toShow.y = 1 /\ t = toShow.text
                 /\ ~OnItsWay(t)'
      BY <3>1, <3>2 DEF OnItsWay
    <3>4. \/ HORIZONTAL_SIZE \in missed'[1]
          \/ display'[1][HORIZONTAL_SIZE] = lastFull
      <4>1. CASE toShow.y # 1
        BY <2>6, <3>1, <3>3, <4>1, ShowParts DEF FullInv, Lines
      <4>2. CASE toShow.y = 1
        <5>1. PICK n \in 0 .. Length(toShow.text) :
                /\ display'[1] =
                     [d \in Columns |->
                        IF d <= n THEN toShow.text ELSE display[1][d]]
                /\ missed'[1] = (missed[1] \ (1 .. n))
                                  \cup (n + 1 .. Length(toShow.text))
          BY <2>6, <4>2, ShowParts
        <5>2. /\ HORIZONTAL_SIZE \in Columns /\ HORIZONTAL_SIZE \in Nat
              /\ Length(toShow.text) \in Nat
              /\ Fills(toShow.text)
                   \/ Length(toShow.text) = HORIZONTAL_SIZE - 1
              /\ toShow.text \in Texts
          BY <2>6, LengthProperties, ConstantTypes, ShowParts
        <5>3. CASE Fills(toShow.text)
          <6>1. toShow.text = lastFull /\ Length(toShow.text) = HORIZONTAL_SIZE
            BY <3>3, <4>2, <5>2, <5>3 DEF FullInv, Fills
          <6> QED
            BY <5>1, <5>2, <6>1
        <5>4. CASE ~Fills(toShow.text)
          <6>1. toShow.text # lastFull
            BY <5>4 DEF FullInv
          <6>2. \/ HORIZONTAL_SIZE \in missed[1]
                \/ display[1][HORIZONTAL_SIZE] = lastFull
            BY <3>1, <3>3, <6>1 DEF FullInv
          <6>3. ~(HORIZONTAL_SIZE <= n)
            BY <5>2, <5>4
          <6> QED
            BY <5>1, <5>2, <6>2, <6>3
        <5> QED
          BY <5>3, <5>4
      <4> QED
        BY <4>1, <4>2
    <3> QED
      BY <3>1, <3>3, <3>4 DEF FullInv
  <2>7. CASE UNCHANGED vars
    BY <2>7, Zenon
    DEF vars, FullInv, OnItsWay, speedVars, lcdVars, displayVars
  <2> QED
    BY <2>1, <2>2, <2>3, <2>4, <2>5, <2>6, <2>7 DEF Next, LcdTask
<1> QED
  BY <1>1, <1>2, TypeCorrect, QueueCorrect, PTL DEF Spec

(* What comes to the display is of the rotation received last, so that     *)
(* what is written is never older than what is left of a line.             *)
Coming(m) ==
  \/ LCDQ # <<>> /\ m = Head(LCDQ)
  \/ lcd = "show" /\ m = toShow

Older(t) == t.text # "earlier" /\ t.of <= tse_buf

SetParts ==
  /\ line1.text # "earlier"
  /\ speed = "line1" => line1.of = tse_buf
  /\ line2.text \notin {"earlier", "units"}

ComingParts ==
  \A m \in Messages :
    Coming(m) => m.text.text # "earlier" /\ m.text.of = tse_buf

ShownParts ==
  /\ asked[2].of <= tse_buf
  /\ lcd # "power up" =>
       \A y \in Lines, c \in Columns :
         /\ Older(display[y][c])
         /\ \A b \in 1 .. c : display[y][c].of <= display[y][b].of

AgeInv == SetParts /\ ComingParts /\ ShownParts

LEMMA AgeInvariant == Spec => []AgeInv
<1>1. Init => AgeInv
  <2> SUFFICES ASSUME Init PROVE AgeInv
    OBVIOUS
  <2>1. /\ line1 = Text("---", 0) /\ line2 = Text("===", 0)
        /\ speed = "receive" /\ lcd = "power up" /\ LCDQ = <<>>
        /\ asked[2] = Blank /\ tse_buf = 0
    BY DEF Init, Lines
  <2>2. Text("---", 0).text = "---" /\ Text("===", 0).text = "==="
    BY DEF Text
  <2>3. SetParts
    BY <2>1, <2>2 DEF SetParts
  <2>4. ComingParts
    BY <2>1 DEF ComingParts, Coming
  <2>5. ShownParts
    <3>1. asked[2].of = 0
      BY <2>1, LeftoverText
    <3>2. \A i, j \in Nat : i = j => i <= j
      OBVIOUS
    <3>3. asked[2].of <= tse_buf
      BY <2>1, <3>1, <3>2
    <3> QED
      BY <2>1, <3>3, Zenon DEF ShownParts
  <2> QED
    BY <2>3, <2>4, <2>5 DEF AgeInv
<1>2. TypeOK /\ QueueInv /\ RotationsInv /\ AgeInv /\ [Next]_vars => AgeInv'
  <2> SUFFICES ASSUME TypeOK, QueueInv, RotationsInv, AgeInv, [Next]_vars
               PROVE  AgeInv'
    OBVIOUS
  <2>a. tse_buf \in Nat /\ \A t \in Texts : t.of \in Nat
    <3>1. Numbers \subseteq Nat
      BY ConstantTypes DEF Numbers
    <3>2. tse_buf \in Numbers
      BY DEF TypeOK
    <3> QED
      BY <3>1, <3>2 DEF Texts
  <2>b. SetParts /\ ComingParts /\ ShownParts
    BY DEF AgeInv
  <2>c. ASSUME UNCHANGED <<tse_buf, display, asked>>,
               lcd # "power up" \/ lcd' = lcd
        PROVE  ShownParts'
    BY <2>b, <2>c DEF ShownParts, Older
  <2>1. CASE Rotation
    BY <2>1, <2>b, Zenon
    DEF Rotation, AgeInv, SetParts, ComingParts, ShownParts, Coming, Older,
        speedVars, lcdVars, displayVars
  <2>2. CASE SpeedTask
    <3>1. /\ lcd = "receive" /\ lcd' = "receive" /\ LCDQ = <<>>
          /\ UNCHANGED <<display, asked>>
      BY <2>2, SpeedTaskArriving, SpeedTaskOnItsWay, Zenon DEF displayVars
    <3>2. CASE Receive
      <4>1. /\ speed' = "update" /\ LCDQ' = LCDQ /\ line1' = line1
            /\ line2' = line2 /\ tse_buf' = Head(timeStore)
            /\ timeStore # <<>>
        BY <3>2, Zenon DEF Receive
      <4>2. tse_buf' \in Nat /\ tse_buf < tse_buf'
        <5>1. timeStore \in Seq(Nat)
          <6>1. Numbers \subseteq Nat
            BY ConstantTypes DEF Numbers
          <6>2. timeStore \in Seq(Numbers)
            BY DEF TypeOK
          <6> QED
            BY <6>1, <6>2, SeqMonotonic
        <5>2. Head(timeStore) = timeStore[1] /\ 1 \in 1 .. Len(timeStore)
              /\ Head(timeStore) \in Nat
          BY <4>1, <5>1, HeadTailProperties, EmptySeq, LenProperties
        <5> QED
          BY <4>1, <5>2 DEF RotationsInv, QueueParts
      <4>3. SetParts'
        BY <2>b, <4>1 DEF SetParts
      <4>4. ComingParts'
        BY <3>1, <4>1 DEF ComingParts, Coming
      <4>5. asked[2] \in Texts /\ \A y \in Lines, c \in Columns :
              display[y][c] \in Texts
        BY DEF TypeOK, Lines
      <4>6. ShownParts'
        BY <2>a, <2>b, <3>1, <4>2, <4>5 DEF ShownParts, Older
      <4> QED
        BY <4>3, <4>4, <4>6 DEF AgeInv
    <3>3. CASE Timeout \/ Update
      <4>1. LCDQ' = LCDQ /\ tse_buf' = tse_buf
        BY <3>3, Zenon DEF Timeout, Update
      <4>2. SetParts'
        <5>1. \E t : t # "earlier" /\ line1' = Text(t, tse_buf)
          BY <3>3 DEF Timeout, Update, SetLine1, Results
        <5>2. line2' = line2 \/ line2' = Text("result", tse_buf)
          BY <3>3 DEF Timeout, Update
        <5> QED
          BY <2>b, <4>1, <5>1, <5>2 DEF SetParts, Text
      <4>3. ComingParts'
        BY <3>1, <4>1 DEF ComingParts, Coming
      <4> QED
        BY <2>c, <3>1, <4>1, <4>2, <4>3 DEF AgeInv
    <3>4. ASSUME NEW y \in Lines, NEW t \in Texts,
                 LCDQ' = Append(<<>>, Message(y, t)), lcd' = "receive",
                 tse_buf' = tse_buf, t.text # "earlier", t.of = tse_buf
          PROVE  ComingParts'
      <4>1. Message(y, t) \in Messages /\ Message(y, t).text = t
        BY MessageProperties
      <4>2. LCDQ' # <<>> /\ Head(LCDQ') = Message(y, t)
        BY <3>4, <4>1, OneElement
      <4> QED
        BY <3>4, <4>1, <4>2 DEF ComingParts, Coming
    <3>5. CASE SendLine1
      <4>1. /\ LCDQ' = Append(<<>>, Message(1, line1))
            /\ speed = "line1" /\ speed' = "line2"
            /\ UNCHANGED <<tse_buf, line1, line2>>
        BY <3>1, <3>5, Zenon DEF SendLine1, SendLCDQ
      <4>2. line1 \in Texts /\ line1.text # "earlier" /\ line1.of = tse_buf
        BY <2>b, <4>1 DEF TypeOK, SetParts
      <4>3. ComingParts'
        BY <3>1, <3>4, <4>1, <4>2 DEF Lines
      <4>4. SetParts'
        BY <2>b, <4>1 DEF SetParts
      <4> QED
        BY <2>c, <3>1, <4>1, <4>3, <4>4 DEF AgeInv
    <3>6. CASE SendLine2
      <4>1. /\ LCDQ' = Append(<<>>, Message(2, line2))
            /\ speed = "line2" /\ speed' = "receive"
            /\ UNCHANGED <<tse_buf, line1, line2>>
        BY <3>1, <3>6, Zenon DEF SendLine2, SendLCDQ
      <4>2. line2 \in Texts /\ line2.text # "earlier" /\ line2.of = tse_buf
        BY <2>b, <4>1 DEF TypeOK, SetParts, RotationsInv, LineParts
      <4>3. ComingParts'
        BY <3>1, <3>4, <4>1, <4>2 DEF Lines
      <4>4. SetParts'
        BY <2>b, <4>1 DEF SetParts
      <4> QED
        BY <2>c, <3>1, <4>1, <4>3, <4>4 DEF AgeInv
    <3> QED
      BY <2>2, <3>2, <3>3, <3>5, <3>6 DEF SpeedTask
  <2>3. CASE PowerUp
    <3>1. /\ LCDQ = <<>> /\ lcd' = "greet" /\ display' = Cleared
          /\ tse_buf = 0
          /\ UNCHANGED <<speed, tse_buf, line1, line2, LCDQ, toShow, asked>>
      BY <2>3, Zenon DEF PowerUp, QueueInv, speedVars
    <3>2. SetParts' /\ ComingParts'
      BY <2>b, <3>1 DEF SetParts, ComingParts, Coming
    <3>3. \A y \in Lines, c \in Columns :
            /\ display'[y][c] = Blank
            /\ \A b \in 1 .. c : b \in Columns
      BY <3>1, LeftoverText, ConstantTypes DEF Columns
    <3>4. ShownParts'
      <4>1. Blank.of = 0 /\ Blank.text = "blank"
        BY LeftoverText
      <4>2. \A y \in Lines, c \in Columns :
              /\ display'[y][c].text # "earlier" /\ display'[y][c].of = 0
              /\ \A b \in 1 .. c : display'[y][b].of = 0
        BY <3>3, <4>1
      <4> QED
        <5>1. asked'[2].of <= tse_buf'
          BY <2>b, <3>1 DEF ShownParts
        <5>2. tse_buf' = 0
          BY <3>1
        <5>3. \A y \in Lines, c \in Columns :
                /\ Older(display[y][c])'
                /\ \A b \in 1 .. c : display'[y][c].of <= display'[y][b].of
          BY <4>2, <5>2 DEF Older
        <5> QED
          BY <5>1, <5>3 DEF ShownParts
    <3> QED
      BY <3>2, <3>4 DEF AgeInv
  <2>4. CASE Greet
    <3>1. /\ lcd = "greet" /\ lcd' = "receive" /\ tse_buf = 0
          /\ UNCHANGED <<speed, tse_buf, line1, line2, display, asked>>
      BY <2>4, Zenon DEF Greet, QueueInv, speedVars, displayVars
    <3>2. LCDQ' # <<>> /\ Head(LCDQ') = Greeting
      BY <2>4, GreetArriving
    <3>3. ComingParts'
      BY <3>1, <3>2, GreetingMessage DEF ComingParts, Coming
    <3>4. SetParts'
      BY <2>b, <3>1 DEF SetParts
    <3> QED
      BY <2>c, <3>1, <3>3, <3>4 DEF AgeInv
  <2>5. CASE LcdReceive
    <3>1. PICK m \in Messages : LCDQ = Append(<<>>, m)
      BY <2>5 DEF LcdReceive, QueueInv
    <3>2. LCDQ # <<>> /\ Head(LCDQ) = m /\ LCDQ' = <<>> /\ toShow' = m
      BY <2>5, <3>1, OneElement DEF LcdReceive
    <3>3. /\ lcd = "receive" /\ lcd' = "show"
          /\ UNCHANGED <<speed, tse_buf, line1, line2, display, asked>>
      BY <2>5, Zenon DEF LcdReceive, speedVars, displayVars
    <3>4. ComingParts'
      BY <2>b, <3>2, <3>3 DEF ComingParts, Coming
    <3>5. SetParts'
      BY <2>b, <3>3 DEF SetParts
    <3> QED
      BY <2>c, <3>3, <3>4, <3>5 DEF AgeInv
  <2>6. CASE Show
    <3>1. /\ lcd = "show" /\ lcd' = "receive" /\ LCDQ' = <<>>
          /\ UNCHANGED <<speed, tse_buf, line1, line2>>
      BY <2>6, Zenon DEF Show, QueueInv, speedVars
    <3>2. /\ toShow \in Messages /\ toShow.text.text # "earlier"
          /\ toShow.text.of = tse_buf
      BY <2>b, <3>1 DEF TypeOK, ComingParts, Coming
    <3>3. SetParts' /\ ComingParts'
      BY <2>b, <3>1 DEF SetParts, ComingParts, Coming
    <3>4. asked'[2].of <= tse_buf
      <4>1. CASE toShow.y = 2
        <5>1. asked'[2] = toShow.text
          BY <2>6, <4>1, ShowParts
        <5> QED
          BY <2>a, <3>2, <5>1
      <4>2. CASE toShow.y # 2
        <5>1. asked'[2] = asked[2]
          BY <2>6, <4>2, ShowParts DEF Lines
        <5> QED
          BY <2>b, <5>1 DEF ShownParts
      <4> QED
        BY <4>1, <4>2
    <3>5. ASSUME NEW y \in Lines, NEW c \in Columns
          PROVE  /\ Older(display'[y][c])
                 /\ \A b \in 1 .. c : display'[y][c].of <= display'[y][b].of
      <4>1. /\ Older(display[y][c])
            /\ \A b \in 1 .. c :
                 b \in Columns /\ display[y][c].of <= display[y][b].of
        BY <2>b, <3>1, ConstantTypes DEF ShownParts, Columns
      <4>2. CASE y # toShow.y
        <5>1. display'[y] = display[y]
          BY <2>6, <4>2, ShowParts
        <5> QED
          BY <4>1, <5>1
      <4>3. CASE y = toShow.y
        <5>1. PICK n \in 0 .. Length(toShow.text) :
                display'[y] =
                  [d \in Columns |->
                     IF d <= n THEN toShow.text ELSE display[y][d]]
          BY <2>6, <4>3, ShowParts
        <5>2. /\ c \in Nat /\ Length(toShow.text) \in Nat
              /\ \A b \in 1 .. c : b \in Nat /\ b <= c
          BY LengthProperties, ConstantTypes DEF Columns
        <5>3. CASE c <= n
          <6>1. display'[y][c] = toShow.text
            BY <5>1, <5>3
          <6>2. \A b \in 1 .. c : display'[y][b] = toShow.text
            BY <4>1, <5>1, <5>2, <5>3
          <6> QED
            BY <2>a, <3>2, <6>1, <6>2 DEF Older
        <5>4. CASE ~(c <= n)
          <6>1. display'[y][c] = display[y][c]
            BY <5>1, <5>4
          <6>2. \A b \in 1 .. c : \/ display'[y][b] = toShow.text
                                  \/ display'[y][b] = display[y][b]
            BY <4>1, <5>1
          <6> QED
            BY <3>2, <4>1, <6>1, <6>2 DEF Older
        <5> QED
          BY <5>3, <5>4
      <4> QED
        BY <4>2, <4>3
    <3>6. ShownParts'
      <4>1. \A t : Older(t)' <=> Older(t)
        BY <3>1 DEF Older
      <4> QED
        BY <3>1, <3>4, <3>5, <4>1 DEF ShownParts
    <3> QED
      BY <3>3, <3>6 DEF AgeInv
  <2>7. CASE UNCHANGED vars
    BY <2>7, <2>b, Zenon
    DEF vars, AgeInv, SetParts, ComingParts, ShownParts, Coming, Older,
        speedVars, lcdVars, displayVars
  <2> QED
    BY <2>1, <2>2, <2>3, <2>4, <2>5, <2>6, <2>7 DEF Next, LcdTask
<1> QED
  BY <1>1, <1>2, TypeCorrect, QueueCorrect, RotationsInvariant, PTL DEF Spec

(* Whenever both tasks wait, the two lines of the display belong together, *)
(* but for the columns that a call given up left out.                      *)
THEOREM LinesCorrect == Spec => []LinesTogether
<1>1. LinesInv /\ ShownInv /\ FullInv /\ AgeInv => LinesTogether
  <2> SUFFICES ASSUME LinesInv, ShownInv, FullInv, AgeInv,
                      speed = "receive", lcd = "receive", LCDQ = <<>>
               PROVE  LinesTogether
    BY DEF LinesTogether
  <2>1. \A y \in Lines : Arriving(y) = asked[y]
    BY DEF Arriving
  <2>2. ASSUME NEW t PROVE ~OnItsWay(t)
    BY DEF OnItsWay
  <2>3. ASSUME NEW y \in Lines, NEW c \in Columns
        PROVE  /\ c <= Length(asked[y]) =>
                    c \in missed[y] \/ display[y][c] = asked[y]
               /\ display[y][c].text # "earlier"
               /\ \A b \in 1 .. c : display[y][c].of <= display[y][b].of
    <3>1. c \in Nat /\ c >= 1 /\ Length(asked[y]) \in Nat
      BY LengthProperties, ConstantTypes DEF Columns
    <3> QED
      BY <3>1 DEF ShownInv, AgeInv, ShownParts, Older
  <2>4. CASE asked[1] = line1 /\ asked[2] = line2
    <3>1. ASSUME NEW y \in Lines, NEW c \in Columns
          PROVE  c \in missed[y] \/ display[y][c] = Belongs(y, c)
      <4>1. CASE y = 2
        <5>1. c <= Length(line2)
          <6>1. Fills(line2)
            BY LengthProperties DEF AgeInv, SetParts
          <6> QED
            BY <6>1, ConstantTypes DEF Fills, Columns
        <5> QED
          BY <2>3, <2>4, <4>1, <5>1 DEF Belongs
      <4>2. CASE y = 1 /\ c <= Length(line1)
        BY <2>3, <2>4, <4>2 DEF Belongs
      <4>3. CASE y = 1 /\ ~(c <= Length(line1))
        <5>1. c = HORIZONTAL_SIZE
          BY <4>3, LengthProperties, ConstantTypes DEF Columns, Fills
        <5>2. Belongs(y, c) = lastFull
          BY <4>3 DEF Belongs
        <5> QED
          BY <2>2, <4>3, <5>1, <5>2 DEF FullInv
      <4> QED
        BY <4>1, <4>2, <4>3 DEF Lines
    <3> QED
      BY <2>3, <3>1 DEF LinesTogether
  <2>5. CASE /\ asked[1] = Greeting.text /\ asked[2] = Blank
             /\ tse_buf = 0 /\ line1.text = "---"
    <3>1. \A y \in Lines : asked[y] = Greeted(y)
      BY <2>5 DEF Lines, Greeted
    <3>2. ASSUME NEW y \in Lines, NEW c \in Columns
          PROVE  c <= Length(asked[y])
      <4>1. Fills(asked[y])
        BY <2>5, GreetingMessage, LeftoverText, LengthProperties DEF Lines
      <4> QED
        BY <4>1, ConstantTypes DEF Fills, Columns
    <3> QED
      BY <2>3, <2>5, <3>1, <3>2 DEF LinesTogether
  <2> QED
    BY <2>1, <2>4, <2>5 DEF LinesInv, NothingSent, Lines
<1> QED
  BY <1>1, LinesInvariant, ShownInvariant, FullInvariant, AgeInvariant, PTL

-----------------------------------------------------------------------------
(* One element in front of a sequence.                                     *)
LEMMA InFront ==
  ASSUME NEW S, NEW b \in S, NEW s \in Seq(S)
  PROVE  /\ <<b>> \o s \in Seq(S) /\ <<b>> \o s # <<>>
         /\ Len(<<b>> \o s) = Len(s) + 1
         /\ Head(<<b>> \o s) = b
         /\ Tail(<<b>> \o s) = s
         /\ \A i \in 1 .. Len(s) + 1 :
              (<<b>> \o s)[i] = IF i = 1 THEN b ELSE s[i - 1]
         /\ \A e \in S : <<b>> \o Append(s, e) = Append(<<b>> \o s, e)
<1>1. <<b>> \in Seq(S) /\ Len(<<b>>) = 1
  OBVIOUS
<1>2. /\ <<b>> \o s \in Seq(S) /\ Len(<<b>> \o s) = Len(s) + 1
      /\ Len(s) \in Nat
      /\ \A i \in 1 .. Len(s) + 1 :
           (<<b>> \o s)[i] = IF i <= 1 THEN <<b>>[i] ELSE s[i - 1]
  BY <1>1, ConcatProperties, LenProperties
<1>3. <<b>> \o s # <<>>
  BY <1>2, EmptySeq
<1>4. Head(<<b>> \o s) = b
  BY <1>2, <1>3
<1>5. Tail(<<b>> \o s) = s
  <2>1. /\ Tail(<<b>> \o s) \in Seq(S) /\ Len(Tail(<<b>> \o s)) = Len(s)
        /\ \A i \in 1 .. Len(s) : Tail(<<b>> \o s)[i] = (<<b>> \o s)[i + 1]
    BY <1>2, <1>3, HeadTailProperties
  <2>2. \A i \in 1 .. Len(s) : Tail(<<b>> \o s)[i] = s[i]
    BY <1>2, <2>1
  <2> QED
    BY <1>2, <2>1, <2>2, SeqEqual
<1>6. ASSUME NEW e \in S
      PROVE  <<b>> \o Append(s, e) = Append(<<b>> \o s, e)
  <2>1. <<e>> \in Seq(S)
    OBVIOUS
  <2>2. Append(s, e) = s \o <<e>>
    BY AppendIsConcat
  <2>3. Append(<<b>> \o s, e) = (<<b>> \o s) \o <<e>>
    BY <1>2, AppendIsConcat
  <2> QED
    BY <1>1, <2>1, <2>2, <2>3, ConcatAssociative
<1> QED
  BY <1>2, <1>3, <1>4, <1>5, <1>6

(* Every rotation that finds room in timeStore is written to the display,  *)
(* once and in its turn; that it is so in the end is left to TLC.          *)
THEOREM PathImplemented == Spec => Path!PathSafe
<1> DEFINE final == asked[2].of
           pipe == OnTheWay
           row == [c \in Columns |-> display[2][c].of]
           Carried == 1 .. MaxRotations
<1>1. Init => Path!PathInit
  <2> SUFFICES ASSUME Init PROVE pipe = <<>> /\ final = 0
                                 /\ row = [c \in Columns |-> 0]
    BY DEF Path!PathInit
  <2>1. /\ display[2] \in [Columns -> Leftover] /\ asked[2] = Blank
        /\ tse_buf = 0 /\ timeStore = <<>>
    BY DEF Init, Lines
  <2>2. final = 0 /\ row = [c \in Columns |-> 0]
    BY <2>1, LeftoverText
  <2>3. pipe = <<>> \o <<>>
    BY <2>1, <2>2 DEF OnTheWay
  <2> QED
    BY <2>2, <2>3, EmptySeq, ConcatEmptySeq
<1>2. TypeOK /\ QueueInv /\ RotationsInv /\ AgeInv /\ [Next]_vars
        => [Path!PathNext]_<<pipe, final, row>>
  <2> SUFFICES ASSUME TypeOK, QueueInv, RotationsInv, AgeInv, [Next]_vars
               PROVE  Path!PathNext \/ UNCHANGED <<pipe, final, row>>
    OBVIOUS
  <2>a. /\ MaxRotations \in Nat /\ rotations \in 0 .. MaxRotations
        /\ tse_buf \in 0 .. MaxRotations
        /\ timeStore \in Seq(0 .. MaxRotations)
        /\ Len(timeStore) \in Nat /\ Len(timeStore) <= timeStoreLength
        /\ final \in 0 .. MaxRotations
    <3>1. asked[2] \in Texts
      BY DEF TypeOK, Lines
    <3> QED
      BY <3>1, ConstantTypes, LenProperties DEF TypeOK, Numbers, Texts
  <2>b. pipe = IF tse_buf = final THEN timeStore
               ELSE <<tse_buf>> \o timeStore
    BY <2>a, ConcatEmptySeq DEF OnTheWay
  <2>c. timeStore' \in Seq(0 .. MaxRotations) =>
          pipe' = IF tse_buf' = final' THEN timeStore'
                  ELSE <<tse_buf'>> \o timeStore'
    BY ConcatEmptySeq DEF OnTheWay
  <2>d. ASSUME UNCHANGED <<tse_buf, timeStore, display, asked>>
        PROVE  UNCHANGED <<pipe, final, row>>
    BY <2>d DEF OnTheWay
  <2>e. final <= tse_buf /\ tse_buf <= rotations
        /\ \A i \in 1 .. Len(timeStore) : timeStore[i] <= rotations
    BY DEF AgeInv, ShownParts, RotationsInv, QueueParts
  <2> HIDE DEF pipe, final, row
  <2>1. CASE Rotation
    <3>1. /\ rotations < MaxRotations /\ rotations' = rotations + 1
          /\ tse_buf' = tse_buf /\ final' = final /\ row' = row
      BY <2>1, Zenon
      DEF Rotation, speedVars, lcdVars, displayVars, final, row
    <3>2. CASE Len(timeStore) < timeStoreLength
      <4> DEFINE S == 0 .. MaxRotations
      <4>1. timeStore' = Append(timeStore, rotations')
        BY <2>1, <3>2 DEF Rotation
      <4>2. rotations' \in Carried /\ rotations' \in S
        BY <2>a, <3>1
      <4>3. /\ timeStore' \in Seq(S) /\ timeStore \in Seq(S)
            /\ tse_buf \in S
        BY <2>a, <4>1, <4>2, AppendProperties
      <4>4. pipe' = IF tse_buf = final THEN Append(timeStore, rotations')
                    ELSE <<tse_buf>> \o Append(timeStore, rotations')
        BY <2>c, <3>1, <4>1, <4>3, Zenon
      <4>5. /\ Len(<<tse_buf>> \o timeStore) = Len(timeStore) + 1
            /\ \A i \in 1 .. Len(timeStore) + 1 :
                 (<<tse_buf>> \o timeStore)[i] =
                    IF i = 1 THEN tse_buf ELSE timeStore[i - 1]
            /\ <<tse_buf>> \o Append(timeStore, rotations')
                 = Append(<<tse_buf>> \o timeStore, rotations')
        <5> HIDE DEF S
        <5> QED
          BY <4>2, <4>3, InFront
      <4>6. pipe' = Append(pipe, rotations')
        BY <2>b, <4>4, <4>5
      <4>7. /\ Len(pipe) < timeStoreLength + 1
            /\ \A i \in 1 .. Len(pipe) : pipe[i] < rotations'
        <5>1. CASE tse_buf = final
          BY <2>a, <2>b, <2>e, <3>1, <3>2, <5>1, ConstantTypes
        <5>2. CASE tse_buf # final
          <6>1. pipe = <<tse_buf>> \o timeStore
            BY <2>b, <5>2
          <6>2. Len(pipe) = Len(timeStore) + 1
            BY <4>5, <6>1
          <6>3. ASSUME NEW i \in 1 .. Len(timeStore) + 1
                PROVE  pipe[i] < rotations'
            <7>1. CASE i = 1
              BY <2>a, <2>e, <3>1, <4>5, <6>1, <7>1
            <7>2. CASE i # 1
              <8>1. i - 1 \in 1 .. Len(timeStore)
                BY <2>a, <7>2
              <8>2. pipe[i] = timeStore[i - 1]
                BY <4>5, <6>1, <7>2
              <8> QED
                BY <2>a, <2>e, <3>1, <8>1, <8>2
            <7> QED
              BY <7>1, <7>2
          <6> QED
            BY <2>a, <3>2, <6>2, <6>3, ConstantTypes
        <5> QED
          BY <5>1, <5>2
      <4>8. final < rotations'
        BY <2>a, <2>e, <3>1
      <4>9. Path!TakeIn(rotations')
        BY <3>1, <4>6, <4>7, <4>8 DEF Path!TakeIn, pipe, final, row
      <4> QED
        BY <4>2, <4>9 DEF Path!PathNext
    <3>3. CASE ~(Len(timeStore) < timeStoreLength)
      BY <2>1, <2>d, <3>3 DEF Rotation, speedVars, lcdVars, displayVars
    <3> QED
      BY <3>2, <3>3
  <2>2. CASE Receive
    <3>1. /\ speed = "receive" /\ timeStore # <<>>
          /\ tse_buf' = Head(timeStore) /\ timeStore' = Tail(timeStore)
          /\ UNCHANGED <<display, asked>>
      BY <2>2, Zenon DEF Receive, lcdVars, displayVars
    <3>2. final = tse_buf
      <4>1. Arriving(2) = asked[2]
        BY <2>2, SpeedTaskArriving DEF SpeedTask, Lines
      <4> QED
        BY <3>1, <4>1 DEF RotationsInv, LineParts, final
    <3>3. final' = final /\ row' = row
      BY <3>1 DEF final, row
    <3>4. /\ Head(timeStore) = timeStore[1] /\ 1 \in 1 .. Len(timeStore)
          /\ Head(timeStore) \in 0 .. MaxRotations
          /\ Tail(timeStore) \in Seq(0 .. MaxRotations)
      BY <2>a, <3>1, HeadTailProperties, EmptySeq
    <3>5. tse_buf' # final'
      BY <2>a, <3>1, <3>2, <3>3, <3>4 DEF RotationsInv, QueueParts
    <3>6. <<Head(timeStore)>> \o Tail(timeStore) = timeStore
      BY <2>a, <3>1, HeadTailProperties
    <3>7. pipe' = pipe
      BY <2>b, <2>c, <3>1, <3>2, <3>4, <3>5, <3>6
    <3> QED
      BY <3>3, <3>7 DEF pipe, final, row
  <2>3. CASE Timeout \/ Update \/ SendLine1 \/ SendLine2
    BY <2>3, <2>d, Zenon
    DEF Timeout, Update, SendLine1, SendLine2, lcdVars, displayVars
  <2>4. CASE Greet \/ LcdReceive
    BY <2>4, <2>d, Zenon DEF Greet, LcdReceive, speedVars, displayVars
  <2>5. CASE PowerUp
    <3>1. /\ UNCHANGED <<tse_buf, timeStore, asked>>
          /\ \A c \in Columns : display[2][c].of = 0
          /\ display' = Cleared
      BY <2>5, Zenon DEF PowerUp, QueueInv, speedVars
    <3>2. final' = final
      BY <3>1 DEF final
    <3>3. row' = row
      BY <3>1, LeftoverText DEF row, Lines
    <3>4. pipe' = pipe
      BY <2>a, <2>b, <2>c, <3>1, <3>2
    <3> QED
      BY <3>2, <3>3, <3>4 DEF pipe, final, row
  <2>6. CASE Show
    <3>1. /\ lcd = "show" /\ tse_buf' = tse_buf /\ timeStore' = timeStore
      BY <2>6, Zenon DEF Show, speedVars
    <3>2. CASE toShow.y # 2
      <4>1. display'[2] = display[2] /\ asked'[2] = asked[2]
        BY <2>6, <3>2, ShowParts DEF Lines
      <4>2. final' = final /\ row' = row
        BY <4>1 DEF final, row
      <4>3. pipe' = pipe
        BY <2>a, <2>b, <2>c, <3>1, <4>2
      <4> QED
        BY <4>2, <4>3 DEF pipe, final, row
    <3>3. CASE toShow.y = 2
      <4>1. toShow.text.of = tse_buf
        BY <3>1 DEF TypeOK, AgeInv, ComingParts, Coming
      <4>2. final' = tse_buf
        BY <2>6, <3>3, <4>1, ShowParts DEF final
      <4>3. PICK n \in 0 .. Length(toShow.text) :
              display'[2] =
                [c \in Columns |->
                   IF c <= n THEN toShow.text ELSE display[2][c]]
        BY <2>6, <3>3, ShowParts
      <4>4. row' = [c \in Columns |-> IF c <= n THEN tse_buf ELSE row[c]]
        BY <4>1, <4>3 DEF row
      <4>5. n \in {0} \cup Columns
        BY LengthProperties, ConstantTypes DEF Columns
      <4>6. Path!Write(tse_buf)
        BY <4>2, <4>4, <4>5 DEF Path!Write, final, row
      <4>7. CASE tse_buf = final
        <5>1. pipe' = pipe
          BY <2>a, <2>b, <2>c, <3>1, <4>2, <4>7
        <5>2. Path!WriteAgain
          <6>1. Path!Write(final)
            BY <4>2, <4>4, <4>5, <4>7 DEF Path!Write, final, row
          <6> QED
            BY <5>1, <6>1 DEF Path!WriteAgain, pipe, final
        <5> QED
          BY <5>2 DEF Path!PathNext
      <4>8. CASE tse_buf # final
        <5>1. pipe = <<tse_buf>> \o timeStore /\ pipe' = timeStore
          BY <2>a, <2>b, <2>c, <3>1, <4>2, <4>8
        <5>2. pipe # <<>> /\ Head(pipe) = tse_buf /\ Tail(pipe) = timeStore
          BY <2>a, <5>1, InFront
        <5>3. Path!WriteNext
          <6>1. Path!Write(Head(pipe))
            BY <4>2, <4>4, <4>5, <5>2 DEF Path!Write, final, row
          <6> QED
            BY <5>1, <5>2, <6>1 DEF Path!WriteNext, pipe
        <5> QED
          BY <5>3 DEF Path!PathNext
      <4> QED
        BY <4>7, <4>8
    <3> QED
      BY <3>2, <3>3
  <2>7. CASE UNCHANGED vars
    BY <2>7, <2>d, Zenon DEF vars, speedVars, lcdVars, displayVars
  <2> QED
    BY <2>1, <2>2, <2>3, <2>4, <2>5, <2>6, <2>7 DEF Next, SpeedTask, LcdTask
<1> QED
  BY <1>1, <1>2, TypeCorrect, QueueCorrect, RotationsInvariant,
     AgeInvariant, PTL
  DEF Spec, Path!PathSafe, Path!pathVars
=============================================================================
