-------------------------- MODULE LcdScreenProofs --------------------------
(***************************************************************************)
(* LcdDriver implements Screen, for every size of the display and of its   *)
(* patterns, and every set of strings.                                     *)
(***************************************************************************)
EXTENDS LcdDriverProofs

(* How a memory looks as a screen. *)

LEMMA PlaceAddress ==
  ASSUME NEW p \in {1, 2} \X (0 .. MAX_LINE1_ADD)
  PROVE  /\ LineStart(p[1]) + p[2] \in DDAddresses
         /\ PlaceOf(LineStart(p[1]) + p[2]) = p
<1>1. p[1] \in {1, 2} /\ p[2] \in 0 .. MAX_LINE1_ADD /\ p = <<p[1], p[2]>>
  OBVIOUS
<1> DEFINE y == p[1]
           c == p[2]
<1> HIDE DEF y, c
<1>2. /\ LineStart(y) + c \in DDAddresses
      /\ PlaceOf(LineStart(y) + c) = <<y, c>>
  <2>1. y \in {1, 2} /\ c \in 0 .. MAX_LINE1_ADD
    BY <1>1 DEF y, c
  <2>2. CASE y = 1
    BY <2>1, <2>2, ConstantTypes DEF LineStart, PlaceOf, Column, DDAddresses, Line
  <2>3. CASE y = 2
    BY <2>1, <2>3, ConstantTypes DEF LineStart, PlaceOf, Column, DDAddresses, Line
  <2> QED
    BY <2>1, <2>2, <2>3
<1> QED
  BY <1>1, <1>2 DEF y, c

LEMMA PlaceType ==
  ASSUME NEW a \in DDAddresses
  PROVE  PlaceOf(a) \in Display!Places
BY ConstantTypes DEF PlaceOf, Column, DDAddresses, Line, Display!Places

(* A pattern's row has an address of its own. *)
LEMMA RowAddress ==
  ASSUME NEW r \in (0 .. Glyphs - 1) \X (1 .. Rows),
         NEW k \in 0 .. Glyphs - 1, NEW n \in 0 .. Rows - 1
  PROVE  /\ r[1] * Rows + r[2] - 1 \in CGAddresses
         /\ r[1] * Rows + r[2] - 1 = GlyphAdd(k) + n <=> r = <<k, n + 1>>
<1>0. Rows \in Nat \ {0} /\ Glyphs \in Nat \ {0}
  BY ConstantTypes
<1> DEFINE a == r[1] * Rows + r[2] - 1
<1>1. /\ r[1] \in 0 .. Glyphs - 1 /\ r[2] \in 1 .. Rows /\ r = <<r[1], r[2]>>
      /\ r[2] - 1 \in 0 .. Rows - 1
  BY <1>0
<1>2. r[1] * Rows \in Int /\ k * Rows \in Int
  BY <1>0, <1>1
<1>3. a = GlyphAdd(r[1]) + (r[2] - 1)
  BY <1>1, <1>2 DEF GlyphAdd
<1>4. a \in CGAddresses /\ a \div Rows = r[1]
  BY <1>1, <1>3, GlyphRows, Zenon
<1>5. (GlyphAdd(k) + n) \div Rows = k
  BY GlyphRows, Zenon
<1> HIDE DEF a
<1>6. ASSUME a = GlyphAdd(k) + n PROVE r = <<k, n + 1>>
  <2>1. r[1] = k
    BY <1>4, <1>5, <1>6, Zenon
  <2>2. GlyphAdd(k) + (r[2] - 1) = GlyphAdd(k) + n
    BY <1>3, <1>6, <2>1, Zenon
  <2>3. GlyphAdd(k) \in Int /\ r[2] \in Int /\ n \in Int
    BY <1>1, <1>2 DEF GlyphAdd
  <2>4. r[2] = n + 1
    BY <2>2, <2>3
  <2> QED
    BY <1>1, <2>1, <2>4, Zenon
<1>7. ASSUME r = <<k, n + 1>> PROVE a = GlyphAdd(k) + n
  <2>1. r[1] = k /\ r[2] - 1 = n
    BY <1>7
  <2> QED
    BY <1>3, <2>1, Zenon
<1> QED
  BY <1>4, <1>6, <1>7 DEF a

(* A memory of blanks is no text, and no pattern.                          *)
LEMMA BlankMemory ==
  /\ Text([a \in DDAddresses |-> Blank]) = Display!NoText
  /\ Pattern([a \in CGAddresses |-> Blank]) = [r \in Display!PatternRows |-> Blank]
<1>1. Text([a \in DDAddresses |-> Blank]) = Display!NoText
  <2>1. Display!Places = {1, 2} \X (0 .. MAX_LINE1_ADD)
    BY ConstantTypes DEF Display!Places
  <2> QED
    BY <2>1, PlaceAddress DEF Text, Display!NoText
<1>2. Pattern([a \in CGAddresses |-> Blank]) = [r \in Display!PatternRows |-> Blank]
  <2>1. 0 \in 0 .. Glyphs - 1 /\ 0 \in 0 .. Rows - 1
    BY ConstantTypes
  <2>2. \A r \in (0 .. Glyphs - 1) \X (1 .. Rows) :
          r[1] * Rows + r[2] - 1 \in CGAddresses
    BY <2>1, RowAddress
  <2> QED
    BY <2>2 DEF Pattern, Display!PatternRows
<1> QED
  BY <1>1, <1>2

-----------------------------------------------------------------------------
(* What a call looks like as a task. *)

LEMMA TaskCases ==
  ASSUME NEW c
  PROVE  /\ c.op = "StrShow" =>
              Task(c) = [op |-> "show", x |-> c.x - 1, y |-> c.y, s |-> c.s,
                         n |-> c.n]
         /\ c.op = "WrCGRAM" =>
              Task(c) = [op |-> "draw", k |-> c.k, p |-> c.p, n |-> c.n]
         /\ c.op = "RdCGRAM" => Task(c) = [op |-> "read"]
         /\ c.op = "DisplayShift" =>
              Task(c) = [op |-> "slide", left |-> c.left, todo |-> c.todo]
         /\ c.op = "CursorPosSet" =>
              Task(c) = [op |-> "cursor", m |-> c.m, p |-> PlaceOf(c.add),
                         moved |-> c.set]
         /\ c.op = "none" => Task(c) = c
BY DEF Task

LEMMA FreeTask == Idle /\ Inv => Display!Free
<1> SUFFICES ASSUME Idle, Inv PROVE Task(call).op = "none"
  BY DEF Display!Free
<1> QED
  BY TaskCases DEF Idle

LEMMA OverTask ==
  ASSUME NEW r, Return(r)
  PROVE  Display!Over(r)
<1>1. call' = NoCall /\ res' = r
  BY DEF Return
<1>2. Task(NoCall) = NoCall
  BY TaskCases DEF NoCall
<1> QED
  BY <1>1, <1>2, Zenon DEF Display!Over, Display!NoTask, NoCall

LEMMA ProceedTask ==
  ASSUME NEW c, BusyCheck(c), NEW t, t = Task(c)
  PROVE  Display!Proceed(t)
<1>1. CASE call' = c /\ UNCHANGED res
  BY <1>1, Zenon DEF Display!Proceed
<1>2. CASE Return("error")
  BY <1>2, OverTask, Zenon DEF Display!Proceed
<1> QED
  BY <1>1, <1>2, Zenon DEF BusyCheck

LEMMA Strays ==
  ASSUME MemoryOK', shift' = shift, cursor' = cursor
  PROVE  Display!CursorStrays
<1>1. CursorPlace(call', space', ac') \in Display!Places \cup {Display!Nowhere}
  <2>1. CASE /\ call'.op # "StrShow" /\ space' # "CGRAM" /\ ac' \in DDAddresses
    BY <2>1, PlaceType, Zenon DEF CursorPlace
  <2>2. CASE ~ /\ call'.op # "StrShow" /\ space' # "CGRAM"
               /\ ac' \in DDAddresses
    BY <2>2, Zenon DEF CursorPlace, Display!Nowhere
  <2> QED
    BY <2>1, <2>2
<1> QED
  BY <1>1 DEF Display!CursorStrays

LEMMA SameContent ==
  ASSUME ddram' = ddram, cgram' = cgram
  PROVE  UNCHANGED Display!content
BY DEF Display!content

LEMMA SameView ==
  ASSUME UNCHANGED <<shift, cursor, ac, space>>,
         call.op # "StrShow", call'.op # "StrShow"
  PROVE  UNCHANGED Display!view
<1>1. CursorPlace(call', space', ac') = CursorPlace(call, space, ac)
  BY Zenon DEF CursorPlace
<1> QED
  BY <1>1 DEF Display!view

(* Steps the screen does not see. *)
Unseen == UNCHANGED Display!ScreenVars

-----------------------------------------------------------------------------
(* Strings. *)

LEMMA ShowImplemented ==
  ASSUME Inv, NEW x \in 1 .. LineLength, NEW y \in {1, 2}, NEW s \in Strings,
         StrShow(x, y, s)
  PROVE  Display!Free /\ Display!Request
<1>1. Idle /\ Display!Free
  BY FreeTask, Zenon DEF StrShow
<1>2. CASE GetDDRamAdd(x, y) = Refused
  <2>1. Return("error") /\ UNCHANGED lcdVars
    BY <1>2, Zenon DEF StrShow
  <2>2. call'.op = "none" /\ call.op = "none"
    BY <1>1, <2>1 DEF Return, NoCall, Idle
  <2>3. UNCHANGED Display!view
    BY <2>1, <2>2, SameView DEF lcdVars
  <2>4. UNCHANGED Display!content
    BY <2>1, SameContent DEF lcdVars
  <2>5. Display!Over("error")
    BY <2>1, OverTask
  <2> QED
    BY <1>1, <2>3, <2>4, <2>5 DEF Display!Request, Display!Refuse
<1>3. CASE GetDDRamAdd(x, y) # Refused
  <2> DEFINE c == [op |-> "StrShow", x |-> x, y |-> y, s |-> s, n |-> 0,
                   add |-> ac', err |-> "ok"]
             t == [op |-> "show", x |-> x - 1, y |-> y, s |-> s, n |-> 0]
  <2>1. BusyCheck(c) /\ UNCHANGED <<shift, cursor>>
    BY <1>3, Zenon DEF StrShow
  <2>2. MemoryOK' /\ ddram' = ddram /\ cgram' = cgram
    BY StrShowStep, InvParts, Zenon
  <2>3. Task(c) = t
    BY TaskCases
  <2>4. Display!Proceed(t)
    BY <2>1, <2>3, ProceedTask, Zenon
  <2>5. Display!CursorStrays /\ UNCHANGED Display!content
    BY <2>1, <2>2, Strays, SameContent, Zenon
  <2>6. Display!Show(x - 1, y, s)
    BY <1>1, <2>4, <2>5, Zenon DEF Display!Show
  <2>7. x - 1 \in 0 .. LineLength - 1
    BY ConstantTypes
  <2> QED
    BY <1>1, <2>6, <2>7, Zenon DEF Display!Request
<1> QED
  BY <1>2, <1>3

LEMMA PutCharImplemented ==
  ASSUME Inv, TextInv, StrShowChar
  PROVE  Display!PutChar
<1>1. /\ call.op = "StrShow" /\ ~Crossed /\ call.n < Len(call.s) /\ Unmoved
  BY Zenon DEF StrShowChar
<1>2. /\ call \in ShowCalls /\ call.n \in Nat
      /\ call.x \in 1 .. LineLength /\ call.y \in {1, 2}
      /\ ac = Cell(call.x, call.y, call.n + 1)
  BY <1>1, ShowCall, CellHere
<1>3. /\ MemoryOK'
      /\ ddram' = [ddram EXCEPT ![ac] = call.s[call.n + 1]] /\ cgram' = cgram
  BY StrShowCharStep, InvParts, Zenon
<1> DEFINE t == [op |-> "show", x |-> call.x - 1, y |-> call.y, s |-> call.s,
                 n |-> call.n]
           col == (call.x - 1 + call.n) % LineLength
<1>4. Task(call) = t
  BY <1>1, TaskCases
<1> DEFINE d == call.s[call.n + 1]
           q == <<call.y, col>>
<1>5. Text(ddram') = [Text(ddram) EXCEPT ![q] = d]
  <2> DEFINE P == {1, 2} \X (0 .. MAX_LINE1_ADD)
             A(p) == LineStart(p[1]) + p[2]
  <2>1. col \in 0 .. MAX_LINE1_ADD
    <3>1. call.x - 1 + call.n \in Nat
      BY <1>2, ConstantTypes
    <3>2. col \in 0 .. LineLength - 1
      BY <3>1, ConstantTypes, DivMod
    <3> HIDE DEF col
    <3> QED
      BY <3>2, ConstantTypes
  <2>2. ac = LineStart(call.y) + col
    <3>1. call.x + (call.n + 1) - 2 = call.x - 1 + call.n
      BY <1>2
    <3> QED
      BY <1>2, <3>1, Zenon DEF Cell
  <2>3. q \in P /\ A(q) = ac
    <3> HIDE DEF col
    <3> QED
      BY <1>2, <2>1, <2>2
  <2>4. \A p \in P : A(p) \in DDAddresses /\ PlaceOf(A(p)) = p
    BY PlaceAddress
  <2>5. Text(ddram') = [p \in P |-> ddram'[A(p)]]
        /\ Text(ddram) = [p \in P |-> ddram[A(p)]]
    BY DEF Text
  <2>6. ddram \in [DDAddresses -> Chars \cup {Blank}]
    BY DEF Inv, TypeOK
  <2> HIDE DEF A, P, q, d
  <2>7. \A p \in P : A(p) = ac <=> p = q
    BY <2>3, <2>4, Zenon
  <2>8. ddram' = [ddram EXCEPT ![ac] = d]
    BY <1>3, Zenon DEF d
  <2>9. \A p \in P : ddram'[A(p)] = IF p = q THEN d ELSE ddram[A(p)]
    BY <2>4, <2>6, <2>7, <2>8
  <2> QED
    BY <2>3, <2>5, <2>9
<1>6. Display!Proceed([t EXCEPT !.n = @ + 1])
  <2> DEFINE err == IF CheckVisual(call.add) = "ok" THEN call.err
                    ELSE CheckVisual(call.add)
             c == [call EXCEPT !.n = @ + 1, !.add = ac', !.err = err]
  <2>1. BusyCheck(c)
    BY Zenon DEF StrShowChar
  <2> HIDE DEF err
  <2>2. /\ c.op = "StrShow" /\ c.x = call.x /\ c.y = call.y /\ c.s = call.s
        /\ c.n = call.n + 1
    BY <1>1, <1>2 DEF ShowCalls
  <2> HIDE DEF c
  <2>3. Task(c) = [op |-> "show", x |-> call.x - 1, y |-> call.y,
                   s |-> call.s, n |-> call.n + 1]
    BY <2>2, TaskCases
  <2>4. Task(c) = [t EXCEPT !.n = @ + 1]
    BY <2>3
  <2> QED
    BY <2>1, <2>4, ProceedTask, Zenon
<1>7. Display!CursorStrays /\ Pattern(cgram') = Pattern(cgram)
  BY <1>1, <1>3, Strays DEF Unmoved
<1>8. /\ Task(call).op = "show" /\ Task(call).n = call.n
      /\ Task(call).s = call.s /\ Task(call).y = call.y
      /\ Task(call).x = call.x - 1
  BY <1>4
<1> HIDE DEF t, col, q, d
<1> QED
  BY <1>1, <1>4, <1>5, <1>6, <1>7, <1>8, Zenon
  DEF Display!PutChar, col, q, d

(* Giving up, once the call is over with an error.                         *)
LEMMA GivesUp ==
  ASSUME call.op \in {"StrShow", "WrCGRAM", "RdCGRAM"}, Return("error"),
         MemoryOK', Unmoved, ddram' = ddram, cgram' = cgram
  PROVE  Display!GiveUp
<1>1. Task(call).op \in {"show", "draw", "read"}
  BY TaskCases
<1>2. Display!Over("error") /\ UNCHANGED Display!content
  BY OverTask, SameContent
<1>3. Display!CursorStrays
  BY Strays DEF Unmoved
<1> QED
  BY <1>1, <1>2, <1>3, Zenon DEF Display!GiveUp

LEMMA WrapUnseen ==
  ASSUME Inv, StrShowWrap
  PROVE  Unseen \/ Display!GiveUp
<1> DEFINE c == [call EXCEPT !.add = ac']
<1>1. call.op = "StrShow" /\ BusyCheck(c) /\ Unmoved
  BY Zenon DEF StrShowWrap
<1>2. MemoryOK' /\ ddram' = ddram /\ cgram' = cgram
  BY StrShowWrapStep, InvParts, Zenon
<1>3. CASE call' = c /\ res' = res
  <2>1. call \in ShowCalls
    BY <1>1, ShowCall
  <2>2. /\ c.op = "StrShow" /\ c.x = call.x /\ c.y = call.y /\ c.s = call.s
        /\ c.n = call.n
    BY <1>1, <2>1 DEF ShowCalls
  <2> HIDE DEF c
  <2>3. Task(c) = Task(call)
    BY <1>1, <2>2, TaskCases
  <2>4. CursorPlace(call', space', ac') = CursorPlace(call, space, ac)
    BY <1>1, <1>3, <2>2, Zenon DEF CursorPlace
  <2>5. shift' = shift /\ cursor' = cursor
    BY <1>1 DEF Unmoved
  <2> QED
    BY <1>2, <1>3, <2>3, <2>4, <2>5
    DEF Unseen, Display!ScreenVars, Display!content, Display!view
<1>4. CASE Return("error")
  BY <1>1, <1>2, <1>4, GivesUp
<1> QED
  BY <1>1, <1>3, <1>4, Zenon DEF BusyCheck

LEMMA ShownImplemented ==
  ASSUME Inv, StrShowEnd
  PROVE  Display!Shown \/ Display!GiveUp
<1>1. /\ call.op = "StrShow" /\ call.n = Len(call.s) /\ Return(call.err)
      /\ Unmoved
  BY Zenon DEF StrShowEnd, Unmoved, lcdVars
<1>2. MemoryOK' /\ ddram' = ddram /\ cgram' = cgram
  BY StrShowEndStep, InvParts, Zenon
<1>3. call.err \in {"ok", "error", "outOfVisual"}
  BY <1>1, ShowCall DEF ShowCalls, Results
<1>4. CASE call.err = "error"
  BY <1>1, <1>2, <1>4, GivesUp
<1>5. CASE call.err # "error"
  <2>1. Display!Over("ok") \/ Display!Over("outOfVisual")
    BY <1>1, <1>3, <1>5, OverTask
  <2>2. /\ Task(call).op = "show" /\ Task(call).n = call.n
        /\ Task(call).s = call.s
    BY <1>1, TaskCases
  <2>3. Display!CursorStrays /\ UNCHANGED Display!content
    BY <1>1, <1>2, Strays, SameContent DEF Unmoved
  <2> QED
    BY <1>1, <2>1, <2>2, <2>3, Zenon DEF Display!Shown
<1> QED
  BY <1>4, <1>5

-----------------------------------------------------------------------------
(* Character patterns. *)

(* What comes of opening CGRAM for the call c at address a.                *)
LEMMA OpenImplemented ==
  ASSUME Inv, NEW c, NEW a \in CGAddresses, OpenCGRAM(c, a),
         NEW t, t = Task(c)
  PROVE  /\ Display!Free /\ Display!Proceed(t)
         /\ Display!CursorStrays /\ UNCHANGED Display!content
<1>1. Idle /\ Unmoved /\ Display!Free
  BY FreeTask, Zenon DEF OpenCGRAM
<1>2. MemoryOK
  BY InvParts, Zenon
<1>3. CASE Return("error") /\ UNCHANGED <<ac, space, ddram, cgram>>
  <2>1. Display!Proceed(t)
    BY <1>3, OverTask, Zenon DEF Display!Proceed
  <2>2. MemoryOK' /\ ddram' = ddram /\ cgram' = cgram
    BY <1>2, <1>3, UnchangedMemory
  <2>3. Display!CursorStrays /\ UNCHANGED Display!content
    BY <1>1, <2>2, Strays, SameContent DEF Unmoved
  <2> QED
    BY <1>1, <2>1, <2>3
<1>4. CASE SetCGRamAdd(a) /\ BusyCheck(c)
  <2>1. Display!Proceed(t)
    BY <1>4, ProceedTask, Zenon
  <2>2. MemoryOK' /\ ddram' = ddram /\ cgram' = cgram
    BY <1>2, <1>4, SetCGRamAddType, Zenon
  <2>3. Display!CursorStrays /\ UNCHANGED Display!content
    BY <1>1, <2>2, Strays, SameContent DEF Unmoved
  <2> QED
    BY <1>1, <2>1, <2>3
<1> QED
  BY <1>3, <1>4, Zenon DEF OpenCGRAM

LEMMA FirstRows ==
  ASSUME NEW k \in 0 .. Glyphs - 1
  PROVE  k \in CGAddresses /\ GlyphAdd(k) \in CGAddresses
<1>1. /\ k \in Nat /\ Rows \in Nat /\ Rows >= 1 /\ Glyphs \in Nat /\ k < Glyphs
  BY ConstantTypes
<1>2. Glyphs * 1 <= Glyphs * Rows /\ Glyphs * Rows \in Nat /\ k * Rows \in Int
  BY <1>1
<1>3. k \in CGAddresses
  BY <1>1, <1>2 DEF CGAddresses
<1>4. 0 \in 0 .. Rows - 1
  BY <1>1
<1>5. GlyphAdd(k) + 0 \in CGAddresses
  BY <1>4, GlyphRows, Zenon
<1>6. GlyphAdd(k) + 0 = GlyphAdd(k)
  BY <1>2 DEF GlyphAdd
<1> QED
  BY <1>3, <1>5, <1>6, Zenon

LEMMA DrawImplemented ==
  ASSUME Inv, NEW k \in 0 .. Glyphs - 1, NEW p \in Patterns, WrCGRAM(k, p)
  PROVE  Display!Free /\ Display!Request
<1> DEFINE c == [op |-> "WrCGRAM", k |-> k, p |-> p, n |-> 0, hold |-> ac,
                 broken |-> FALSE]
           t == [op |-> "draw", k |-> k, p |-> p, n |-> 0]
<1>1. OpenCGRAM(c, GlyphAdd(k))
  BY Zenon DEF WrCGRAM
<1>2. t = Task(c)
  BY TaskCases
<1>3. GlyphAdd(k) \in CGAddresses
  BY FirstRows
<1> HIDE DEF c
<1>4. /\ Display!Free /\ Display!Proceed(t)
      /\ Display!CursorStrays /\ UNCHANGED Display!content
  BY <1>1, <1>2, <1>3, OpenImplemented, Zenon
<1>5. Display!Draw(k, p)
  BY <1>4, Zenon DEF Display!Draw
<1> QED
  BY <1>4, <1>5, Zenon DEF Display!Request

LEMMA ReadImplemented ==
  ASSUME Inv, NEW k \in 0 .. Glyphs - 1, RdCGRAM(k)
  PROVE  Display!Free /\ Display!Request
<1> DEFINE c == [op |-> "RdCGRAM", k |-> k, p |-> <<>>, n |-> 0, hold |-> ac,
                 broken |-> FALSE]
           t == [op |-> "read"]
<1>1. OpenCGRAM(c, k)
  BY Zenon DEF RdCGRAM
<1>2. t = Task(c)
  BY TaskCases
<1>3. k \in CGAddresses
  BY FirstRows
<1> HIDE DEF c
<1>4. /\ Display!Free /\ Display!Proceed(t)
      /\ Display!CursorStrays /\ UNCHANGED Display!content
  BY <1>1, <1>2, <1>3, OpenImplemented, Zenon
<1>5. Display!Read
  BY <1>4, Zenon DEF Display!Read
<1> QED
  BY <1>4, <1>5, Zenon DEF Display!Request

LEMMA PutRowImplemented ==
  ASSUME Inv, WrCGRAMRow
  PROVE  Display!PutRow
<1>1. /\ call.op = "WrCGRAM" /\ call.n < Rows /\ Unmoved
      /\ WriteData(call.p[call.n + 1]) /\ Loop([call EXCEPT !.n = @ + 1])
  BY Zenon DEF WrCGRAMRow
<1>2. call \in WrCalls
  BY <1>1, CallTypes, Zenon DEF Inv
<1>3. call.k \in 0 .. Glyphs - 1 /\ call.n \in 0 .. Rows - 1
  BY <1>1, <1>2, ConstantTypes DEF WrCalls, GlyphCalls
<1>4. space = "CGRAM" /\ ac = GlyphAdd(call.k) + call.n
  BY <1>1, Zenon DEF Inv, GlyphInv
<1>5. MemoryOK' /\ ddram' = ddram
  BY WrCGRAMRowStep, InvParts, Zenon
<1> DEFINE d == call.p[call.n + 1]
           q == <<call.k, call.n + 1>>
<1>6. Pattern(cgram') = [Pattern(cgram) EXCEPT ![q] = d]
  <2> DEFINE P == (0 .. Glyphs - 1) \X (1 .. Rows)
             A(r) == r[1] * Rows + r[2] - 1
  <2>1. q \in P
    BY <1>3, ConstantTypes
  <2>2. \A r \in P : A(r) \in CGAddresses /\ (A(r) = ac <=> r = q)
    BY <1>3, <1>4, RowAddress
  <2>3. Pattern(cgram') = [r \in P |-> cgram'[A(r)]]
        /\ Pattern(cgram) = [r \in P |-> cgram[A(r)]]
    BY DEF Pattern
  <2>4. cgram \in [CGAddresses -> Chars \cup {Blank}]
    BY DEF Inv, TypeOK
  <2> HIDE DEF A, P, q, d
  <2>5. cgram' = [cgram EXCEPT ![ac] = d]
    BY <1>1, <1>4, Zenon DEF WriteData, d
  <2>6. \A r \in P : cgram'[A(r)] = IF r = q THEN d ELSE cgram[A(r)]
    BY <2>2, <2>4, <2>5
  <2> QED
    BY <2>1, <2>3, <2>6
<1> DEFINE t == [op |-> "draw", k |-> call.k, p |-> call.p, n |-> call.n]
<1>7. Task(call) = t
  BY <1>1, TaskCases
<1>8. Display!Proceed([t EXCEPT !.n = @ + 1])
  <2>1. /\ call'.op = "WrCGRAM" /\ call'.k = call.k /\ call'.p = call.p
        /\ call'.n = call.n + 1 /\ res' = res
    BY <1>1, <1>2 DEF Loop, WrCalls, GlyphCalls
  <2>2. Task(call') = [op |-> "draw", k |-> call.k, p |-> call.p,
                       n |-> call.n + 1]
    BY <2>1, TaskCases
  <2>3. Task(call') = [t EXCEPT !.n = @ + 1]
    BY <2>2
  <2> QED
    BY <2>1, <2>3, Zenon DEF Display!Proceed
<1>9. Display!CursorStrays /\ Text(ddram') = Text(ddram)
  BY <1>1, <1>5, Strays DEF Unmoved
<1>10. /\ Task(call).op = "draw" /\ Task(call).n = call.n
       /\ Task(call).k = call.k /\ Task(call).p = call.p
  BY <1>7
<1> HIDE DEF t, q, d
<1> QED
  BY <1>1, <1>6, <1>7, <1>8, <1>9, <1>10, Zenon
  DEF Display!PutRow, q, d

LEMMA ReadRowUnseen ==
  ASSUME Inv, RdCGRAMRow
  PROVE  Unseen
<1>1. /\ call.op = "RdCGRAM" /\ Unmoved /\ ReadData
      /\ Loop([call EXCEPT !.n = @ + 1, !.p = Append(@, cgram[ac])])
  BY Zenon DEF RdCGRAMRow
<1>2. call \in RdCalls
  BY <1>1, CallTypes, Zenon DEF Inv
<1>3. call'.op = "RdCGRAM" /\ res' = res
  BY <1>1, <1>2 DEF Loop, RdCalls, GlyphCalls
<1>4. Task(call') = Task(call)
  BY <1>1, <1>3, TaskCases
<1>5. space = "CGRAM" /\ space' = "CGRAM" /\ ddram' = ddram /\ cgram' = cgram
  BY <1>1 DEF Inv, GlyphInv, ReadData
<1>6. CursorPlace(call', space', ac') = CursorPlace(call, space, ac)
  BY <1>5 DEF CursorPlace
<1>7. shift' = shift /\ cursor' = cursor
  BY <1>1 DEF Unmoved
<1> QED
  BY <1>3, <1>4, <1>5, <1>6, <1>7
  DEF Unseen, Display!ScreenVars, Display!content, Display!view

LEMMA CloseImplemented ==
  ASSUME Inv, CloseCGRAM
  PROVE  Display!Drawn \/ Display!HasRead \/ Display!GiveUp
<1>1. /\ call.op \in {"WrCGRAM", "RdCGRAM"} /\ Unmoved
      /\ call.n = Rows \/ call.broken
      /\ Return("error") \/ (~call.broken /\ Return("ok"))
  BY Zenon DEF CloseCGRAM
<1>2. MemoryOK' /\ ddram' = ddram /\ cgram' = cgram
  BY CloseCGRAMStep, InvParts, Zenon
<1>3. CASE Return("error")
  BY <1>1, <1>2, <1>3, GivesUp
<1>4. CASE ~call.broken /\ Return("ok")
  <2>1. Display!Over("ok") /\ call.n = Rows
    BY <1>1, <1>4, OverTask, Zenon
  <2>2. Display!CursorStrays /\ UNCHANGED Display!content
    BY <1>1, <1>2, Strays, SameContent DEF Unmoved
  <2>3. CASE call.op = "WrCGRAM"
    <3>1. Task(call).op = "draw" /\ Task(call).n = Rows
      BY <2>1, <2>3, TaskCases
    <3> QED
      BY <2>1, <2>2, <3>1, Zenon DEF Display!Drawn
  <2>4. CASE call.op = "RdCGRAM"
    <3>1. Task(call).op = "read"
      BY <2>4, TaskCases
    <3> QED
      BY <2>1, <2>2, <3>1, Zenon DEF Display!HasRead
  <2> QED
    BY <1>1, <2>3, <2>4
<1> QED
  BY <1>1, <1>3, <1>4

-----------------------------------------------------------------------------
(* Sliding the lines, the beginning, and the cursor. *)

LEMMA SlideImplemented ==
  ASSUME Inv, NEW d \in Shifts, DisplayShift(d)
  PROVE  Display!Free /\ Display!Request
<1>1. Idle /\ Display!Free /\ UNCHANGED <<ac, space, ddram, cgram, shift, cursor>>
  BY FreeTask DEF DisplayShift, lcdVars
<1>2. UNCHANGED Display!content
  BY <1>1, SameContent
<1>3. UNCHANGED Display!view
  <2>1. call.op # "StrShow" /\ call'.op # "StrShow"
    BY <1>1 DEF DisplayShift, Return, NoCall, Idle
  <2> QED
    BY <1>1, <2>1, SameView
<1>4. CASE Return("error")
  <2>1. Display!Refuse
    BY <1>1, <1>2, <1>3, <1>4, OverTask DEF Display!Refuse
  <2> QED
    BY <1>1, <2>1, Zenon DEF Display!Request
<1> DEFINE c == [op |-> "DisplayShift", left |-> d < 0,
                 todo |-> IF d < 0 THEN -d ELSE d]
           t == [op |-> "slide", left |-> d < 0,
                 todo |-> IF d < 0 THEN -d ELSE d]
<1>5. CASE call' = c /\ res' = res
  <2>1. Task(c) = t
    BY TaskCases
  <2>2. Display!Proceed(t)
    BY <1>5, <2>1, Zenon DEF Display!Proceed
  <2>3. Display!Slide(d)
    BY <1>1, <1>2, <1>3, <2>2, Zenon DEF Display!Slide
  <2> QED
    BY <1>1, <2>3, Zenon DEF Display!Request
<1> QED
  BY <1>4, <1>5, Zenon DEF DisplayShift

LEMMA SlideOnceImplemented ==
  ASSUME Inv, ShiftOnce
  PROVE  Display!SlideOnce
<1>1. /\ call.op = "DisplayShift" /\ call.todo > 0
      /\ shift' = (shift + (IF call.left THEN 1 ELSE LineLength - 1)) % LineLength
      /\ UNCHANGED <<ac, space, ddram, cgram, cursor, CursorMode>>
      /\ \/ call' = [call EXCEPT !.todo = @ - 1] /\ res' = res
         \/ Return("error")
  BY Zenon DEF ShiftOnce
<1>2. call \in ShiftCalls
  BY <1>1, CallTypes, Zenon DEF Inv
<1> DEFINE t == [op |-> "slide", left |-> call.left, todo |-> call.todo]
<1>3. Task(call) = t
  BY <1>1, TaskCases
<1>4. Display!Proceed([t EXCEPT !.todo = @ - 1])
  <2>1. CASE call' = [call EXCEPT !.todo = @ - 1] /\ res' = res
    <3>1. /\ call'.op = "DisplayShift" /\ call'.left = call.left
          /\ call'.todo = call.todo - 1
      BY <1>1, <1>2, <2>1 DEF ShiftCalls
    <3>2. Task(call') = [op |-> "slide", left |-> call.left,
                         todo |-> call.todo - 1]
      BY <3>1, TaskCases
    <3>3. Task(call') = [t EXCEPT !.todo = @ - 1]
      BY <3>2
    <3> QED
      BY <2>1, <3>3, Zenon DEF Display!Proceed
  <2>2. CASE Return("error")
    BY <2>2, OverTask, Zenon DEF Display!Proceed
  <2> QED
    BY <1>1, <2>1, <2>2, Zenon
<1>5. CursorPlace(call', space', ac') = CursorPlace(call, space, ac)
  <2>1. call.op # "StrShow" /\ call'.op # "StrShow"
    BY <1>1, <1>2 DEF ShiftCalls, Return, NoCall
  <2> QED
    BY <1>1, <2>1, Zenon DEF CursorPlace
<1>6. UNCHANGED Display!content
  BY <1>1, SameContent
<1>7. /\ Task(call).op = "slide" /\ Task(call).todo = call.todo
      /\ Task(call).left = call.left
  BY <1>3
<1> HIDE DEF t
<1> QED
  BY <1>1, <1>3, <1>4, <1>5, <1>6, <1>7 DEF Display!SlideOnce

LEMMA SlidImplemented ==
  ASSUME Inv, DisplayShiftEnd
  PROVE  Display!Slid
<1>1. /\ call.op = "DisplayShift" /\ call.todo = 0 /\ Return("ok")
      /\ UNCHANGED <<ac, space, ddram, cgram, shift, cursor>>
  BY DEF DisplayShiftEnd, lcdVars
<1>2. Task(call).op = "slide" /\ Task(call).todo = 0
  BY <1>1, TaskCases
<1>3. call'.op # "StrShow"
  BY <1>1 DEF Return, NoCall
<1>4. UNCHANGED Display!view /\ UNCHANGED Display!content
  BY <1>1, <1>3, SameView, SameContent
<1> QED
  BY <1>1, <1>2, <1>4, OverTask, Zenon DEF Display!Slid

(* Address 0 is the beginning of the text.                                 *)
LEMMA Beginning ==
  ASSUME NEW c, c.op # "StrShow"
  PROVE  CursorPlace(c, "DDRAM", 0) = <<1, 0>>
<1>1. 0 \in DDAddresses /\ ~(0 >= MIN_LINE2_ADD)
  BY ConstantTypes DEF DDAddresses, Line
<1> QED
  BY <1>1 DEF CursorPlace, PlaceOf, Column

LEMMA HomeImplemented ==
  ASSUME Inv, ReturnToHome \/ ClearDisplay
  PROVE  Display!Free /\ Display!Request
<1>1. /\ Idle /\ Display!Free
      /\ shift' = 0 /\ ac' = 0 /\ space' = "DDRAM"
      /\ Return("ok") \/ Return("error")
      /\ cgram' = cgram /\ cursor' = cursor
  BY FreeTask DEF ReturnToHome, ClearDisplay, Home
<1>2. CursorPlace(call', space', ac') = <<1, 0>>
  <2>1. call'.op # "StrShow"
    BY <1>1 DEF Return, NoCall
  <2> QED
    BY <1>1, <2>1, Beginning
<1>3. Display!Over("ok") \/ Display!Over("error")
  BY <1>1, OverTask
<1>4. CASE ReturnToHome
  <2>1. Text(ddram') = Text(ddram)
    BY <1>4 DEF ReturnToHome
  <2>2. Display!Home
    BY <1>1, <1>2, <1>3, <2>1 DEF Display!Home, Display!Begin
  <2> QED
    BY <1>1, <2>2, Zenon DEF Display!Request
<1>5. CASE ClearDisplay
  <2>1. Text(ddram') = Display!NoText
    BY <1>5, BlankMemory DEF ClearDisplay
  <2>2. Display!Clear
    BY <1>1, <1>2, <1>3, <2>1 DEF Display!Clear, Display!Begin
  <2> QED
    BY <1>1, <2>2, Zenon DEF Display!Request
<1> QED
  BY <1>4, <1>5

(* The mode the driver keeps is the controller's.                          *)
ModeInv == cursor = CursorMode

LEMMA ModeInvCorrect == Spec => []ModeInv
<1>1. Init => ModeInv
  BY DEF Init, ModeInv
<1>2. ModeInv /\ [Next]_vars => ModeInv'
  <2> SUFFICES ASSUME ModeInv, [Next]_vars PROVE ModeInv'
    OBVIOUS
  <2>1. ASSUME UNCHANGED <<cursor, CursorMode>> PROVE ModeInv'
    BY <2>1 DEF ModeInv
  <2>2. ASSUME Unmoved PROVE ModeInv'
    BY <2>1, <2>2 DEF Unmoved, ctrlVars
  <2>3. ASSUME NEW x \in 1 .. LineLength, NEW y \in {1, 2}, NEW s \in Strings,
               StrShow(x, y, s)
        PROVE  ModeInv'
    BY <2>1, <2>3 DEF StrShow, lcdVars, ctrlVars
  <2>4. ASSUME NEW k \in 0 .. Glyphs - 1,
               RdCGRAM(k) \/ \E p \in Patterns : WrCGRAM(k, p)
        PROVE  ModeInv'
    BY <2>2, <2>4, Zenon DEF RdCGRAM, WrCGRAM, OpenCGRAM
  <2>5. ASSUME NEW d \in Shifts, DisplayShift(d) PROVE ModeInv'
    BY <2>1, <2>5 DEF DisplayShift, lcdVars, ctrlVars
  <2>6. CASE ReturnToHome \/ ClearDisplay
    BY <2>1, <2>6 DEF ReturnToHome, ClearDisplay, Home
  <2>7. ASSUME NEW m \in CursorModes, NEW x \in 1 .. LineLength, NEW y \in {1, 2},
               CursorPosSet(m, x, y)
        PROVE  ModeInv'
    BY <2>1, <2>7 DEF CursorPosSet, ModeInv
  <2>8. CASE CursorPosSetMode
    BY <2>8 DEF CursorPosSetMode, ModeInv
  <2>9. CASE StrShowChar \/ StrShowWrap \/ WrCGRAMRow \/ RdCGRAMRow
             \/ CursorPosSetAdd \/ CloseCGRAM
    BY <2>2, <2>9, Zenon DEF StrShowChar, StrShowWrap, WrCGRAMRow, RdCGRAMRow,
                             CursorPosSetAdd, CloseCGRAM
  <2>10. CASE ShiftOnce
    BY <2>1, <2>10 DEF ShiftOnce
  <2>11. CASE StrShowEnd \/ DisplayShiftEnd
    BY <2>1, <2>11 DEF StrShowEnd, DisplayShiftEnd, lcdVars, ctrlVars
  <2>12. CASE UNCHANGED vars
    BY <2>1, <2>12 DEF vars, lcdVars, ctrlVars
  <2> QED
    BY <2>3, <2>4, <2>5, <2>6, <2>7, <2>8, <2>9, <2>10, <2>11, <2>12, Zenon
    DEF Next, Continue, Finish
<1> QED
  BY <1>1, <1>2, PTL DEF Spec

LEMMA SetCursorImplemented ==
  ASSUME Inv, ModeInv, NEW m \in CursorModes,
         NEW x \in 1 .. LineLength, NEW y \in {1, 2}, CursorPosSet(m, x, y)
  PROVE  Display!Free /\ Display!Request
<1>1. /\ Idle /\ Display!Free /\ UNCHANGED <<ac, space, ddram, cgram, shift>>
  BY FreeTask DEF CursorPosSet
<1>2. UNCHANGED Display!content
  BY <1>1, SameContent
<1>3. CASE GetDDRamAdd(x, y) = Refused
  <2>1. Return("error") /\ cursor' = cursor
    BY <1>3, Zenon DEF CursorPosSet
  <2>2. UNCHANGED Display!view
    <3>1. call.op # "StrShow" /\ call'.op # "StrShow"
      BY <1>1, <2>1 DEF Return, NoCall, Idle
    <3> QED
      BY <1>1, <2>1, <3>1, SameView
  <2>3. Display!Refuse
    BY <1>1, <1>2, <2>1, <2>2, OverTask DEF Display!Refuse
  <2> QED
    BY <1>1, <2>3, Zenon DEF Display!Request
<1>4. CASE GetDDRamAdd(x, y) # Refused
  <2> DEFINE a == GetDDRamAdd(x, y)
             p == PlaceOf(a)
             c == [op |-> "CursorPosSet", m |-> m, set |-> FALSE, add |-> a]
             t == [op |-> "cursor", m |-> m, p |-> p, moved |-> FALSE]
  <2>1. BusyCheck(c) /\ cursor' = [cursor EXCEPT !.on = FALSE]
    BY <1>4, Zenon DEF CursorPosSet, ModeInv
  <2>2. p \in Display!Places
    BY <1>4, GetDDRamAddType, PlaceType, Zenon
  <2> HIDE DEF a
  <2>3. Task(c) = t
    <3>1. c.op = "CursorPosSet" /\ c.m = m /\ c.set = FALSE /\ c.add = a
      OBVIOUS
    <3> HIDE DEF c
    <3>2. Task(c) = [op |-> "cursor", m |-> c.m, p |-> PlaceOf(c.add),
                     moved |-> c.set]
      BY <3>1, TaskCases, Zenon
    <3> QED
      BY <3>1, <3>2, Zenon
  <2>4. Display!Proceed(t)
    BY <2>1, <2>3, ProceedTask, Zenon
  <2>5. CursorPlace(call', space', ac') = CursorPlace(call, space, ac)
    <3>1. call' = c \/ call' = NoCall
      BY <2>1 DEF BusyCheck, Return
    <3>2. call.op # "StrShow" /\ call'.op # "StrShow"
      BY <1>1, <3>1 DEF NoCall, Idle
    <3> QED
      BY <1>1, <3>2, Zenon DEF CursorPlace
  <2> HIDE DEF p
  <2>6. Display!SetCursor(m, p)
    BY <1>1, <1>2, <2>1, <2>4, <2>5 DEF Display!SetCursor
  <2>7. m \in Display!Modes
    BY DEF CursorModes, Display!Modes
  <2> QED
    BY <1>1, <2>2, <2>6, <2>7, Zenon DEF Display!Request
<1> QED
  BY <1>3, <1>4

LEMMA MoveCursorImplemented ==
  ASSUME Inv, CursorPosSetAdd
  PROVE  Display!MoveCursor
<1> DEFINE c == [call EXCEPT !.set = TRUE]
           t == [op |-> "cursor", m |-> call.m, p |-> PlaceOf(call.add),
                 moved |-> call.set]
<1>1. /\ call.op = "CursorPosSet" /\ ~call.set /\ BusyCheck(c)
      /\ SetDDRamAdd(call.add) /\ Unmoved
  BY Zenon DEF CursorPosSetAdd
<1>2. call \in CursorCalls
  BY <1>1, CallTypes, Zenon DEF Inv
<1>3. /\ c.op = "CursorPosSet" /\ c.m = call.m /\ c.add = call.add
      /\ c.set = TRUE
  BY <1>1, <1>2 DEF CursorCalls
<1>4. Task(call) = t
  BY <1>1, TaskCases
<1>5. Display!Proceed([t EXCEPT !.moved = TRUE])
  <2> DEFINE set == c.set
  <2> HIDE DEF c
  <2>1. Task(c) = [op |-> "cursor", m |-> call.m, p |-> PlaceOf(call.add),
                   moved |-> set]
    BY <1>3, TaskCases
  <2> HIDE DEF set
  <2>2. Task(c) = [t EXCEPT !.moved = set]
    BY <2>1
  <2>3. Display!Proceed([t EXCEPT !.moved = set])
    BY <1>1, <2>2, ProceedTask, Zenon
  <2>4. set = TRUE
    BY <1>3, Zenon DEF set
  <2> QED
    BY <2>3, <2>4, Zenon
<1>6. CursorPlace(call', space', ac') = PlaceOf(call.add)
  <2>1. call' = c \/ call' = NoCall
    BY <1>1, Zenon DEF BusyCheck, Return
  <2>2. call'.op # "StrShow"
    <3> HIDE DEF c
    <3> QED
      BY <1>3, <2>1 DEF NoCall
  <2>3. call.add \in DDAddresses /\ ac' = call.add /\ space' = "DDRAM"
    BY <1>1, <1>2 DEF SetDDRamAdd, CursorCalls
  <2> QED
    BY <2>2, <2>3 DEF CursorPlace
<1>7. UNCHANGED Display!content /\ UNCHANGED <<shift, cursor>>
  BY <1>1, SameContent DEF SetDDRamAdd, Unmoved
<1>8. /\ Task(call).op = "cursor" /\ Task(call).moved = call.set
      /\ Task(call).p = PlaceOf(call.add)
  BY <1>4
<1> HIDE DEF t, c
<1> QED
  BY <1>1, <1>4, <1>5, <1>6, <1>7, <1>8 DEF Display!MoveCursor

LEMMA ShowCursorImplemented ==
  ASSUME Inv, CursorPosSetMode
  PROVE  Display!ShowCursor
<1>1. /\ call.op = "CursorPosSet" /\ call.set /\ cursor' = call.m
      /\ Return("ok") \/ Return("error")
      /\ UNCHANGED <<ac, space, ddram, cgram, shift>>
  BY DEF CursorPosSetMode
<1>2. /\ Task(call).op = "cursor" /\ Task(call).moved = call.set
      /\ Task(call).m = call.m
  <2>1. Task(call) = [op |-> "cursor", m |-> call.m, p |-> PlaceOf(call.add),
                      moved |-> call.set]
    BY <1>1, TaskCases, Zenon
  <2> QED
    BY <2>1
<1>3. CursorPlace(call', space', ac') = CursorPlace(call, space, ac)
  <2>1. call.op # "StrShow" /\ call'.op # "StrShow"
    BY <1>1 DEF Return, NoCall
  <2> QED
    BY <1>1, <2>1, Zenon DEF CursorPlace
<1>4. Display!Over("ok") \/ Display!Over("error")
  BY <1>1, OverTask
<1>5. UNCHANGED Display!content
  BY <1>1, SameContent
<1> QED
  BY <1>1, <1>2, <1>3, <1>4, <1>5 DEF Display!ShowCursor

-----------------------------------------------------------------------------
LEMMA ScreenStep ==
  ASSUME Inv, TextInv, ModeInv, [Next]_vars
  PROVE  [Display!ScreenNext]_(Display!ScreenVars)
<1> DEFINE Goal == Display!ScreenNext \/ Unseen
<1> SUFFICES Goal
  BY DEF Unseen
<1>1. ASSUME Display!Free /\ Display!Request PROVE Goal
  BY <1>1, Zenon DEF Display!ScreenNext
<1>2. ASSUME Display!Work PROVE Goal
  BY <1>2, Zenon DEF Display!ScreenNext
<1>3. ASSUME Unseen PROVE Goal
  BY <1>3, Zenon
<1> HIDE DEF Goal
<1>4. ASSUME NEW x \in 1 .. LineLength, NEW y \in {1, 2}, NEW s \in Strings,
             StrShow(x, y, s)
      PROVE  Goal
  BY <1>1, <1>4, ShowImplemented, Zenon
<1>5. ASSUME NEW k \in 0 .. Glyphs - 1, NEW p \in Patterns, WrCGRAM(k, p)
      PROVE  Goal
  BY <1>1, <1>5, DrawImplemented, Zenon
<1>6. ASSUME NEW k \in 0 .. Glyphs - 1, RdCGRAM(k) PROVE Goal
  BY <1>1, <1>6, ReadImplemented, Zenon
<1>7. ASSUME NEW d \in Shifts, DisplayShift(d) PROVE Goal
  BY <1>1, <1>7, SlideImplemented, Zenon
<1>8. CASE ReturnToHome \/ ClearDisplay
  BY <1>1, <1>8, HomeImplemented, Zenon
<1>9. ASSUME NEW m \in CursorModes, NEW x \in 1 .. LineLength, NEW y \in {1, 2},
             CursorPosSet(m, x, y)
      PROVE  Goal
  BY <1>1, <1>9, SetCursorImplemented, Zenon
<1>10. CASE Continue
  <2>1. CASE StrShowChar
    BY <1>2, <2>1, PutCharImplemented, Zenon DEF Display!Work
  <2>2. CASE StrShowWrap
    BY <1>2, <1>3, <2>2, WrapUnseen, Zenon DEF Display!Work
  <2>3. CASE WrCGRAMRow
    BY <1>2, <2>3, PutRowImplemented, Zenon DEF Display!Work
  <2>4. CASE RdCGRAMRow
    BY <1>3, <2>4, ReadRowUnseen, Zenon
  <2>5. CASE ShiftOnce
    BY <1>2, <2>5, SlideOnceImplemented, Zenon DEF Display!Work
  <2>6. CASE CursorPosSetAdd
    BY <1>2, <2>6, MoveCursorImplemented, Zenon DEF Display!Work
  <2> QED
    BY <1>10, <2>1, <2>2, <2>3, <2>4, <2>5, <2>6, Zenon DEF Continue
<1>11. CASE Finish
  <2>1. CASE StrShowEnd
    BY <1>2, <2>1, ShownImplemented, Zenon DEF Display!Work
  <2>2. CASE CloseCGRAM
    BY <1>2, <2>2, CloseImplemented, Zenon DEF Display!Work
  <2>3. CASE DisplayShiftEnd
    BY <1>2, <2>3, SlidImplemented, Zenon DEF Display!Work
  <2>4. CASE CursorPosSetMode
    BY <1>2, <2>4, ShowCursorImplemented, Zenon DEF Display!Work
  <2> QED
    BY <1>11, <2>1, <2>2, <2>3, <2>4, Zenon DEF Finish
<1>12. CASE UNCHANGED vars
  BY <1>3, <1>12
  DEF vars, lcdVars, Unseen, Display!ScreenVars, Display!content, Display!view
<1> QED
  BY <1>4, <1>5, <1>6, <1>7, <1>8, <1>9, <1>10, <1>11, <1>12, Zenon DEF Next

LEMMA ScreenStart == Init => Display!ScreenInit
<1> SUFFICES ASSUME Init PROVE Display!ScreenInit
  OBVIOUS
<1>1. /\ Text(ddram) = Display!NoText
      /\ Pattern(cgram) = [r \in Display!PatternRows |-> Blank]
  BY BlankMemory DEF Init
<1>2. call.op = "none" /\ call = NoCall /\ space = "DDRAM" /\ ac = 0
  BY DEF Init, NoCall
<1>3. Task(call) = Display!NoTask
  BY <1>2, TaskCases DEF NoCall, Display!NoTask
<1>4. CursorPlace(call, space, ac) = <<1, 0>>
  BY <1>2, Beginning
<1>5. /\ shift = 0 /\ cursor = [on |-> FALSE, blink |-> FALSE] /\ res = "ok"
  BY DEF Init, CursorOff
<1> QED
  BY <1>1, <1>3, <1>4, <1>5 DEF Display!ScreenInit

(* The driver is a screen: whatever busy checks fail, in any order of      *)
(* operations and from wherever the last one left the address counter, a   *)
(* string, a pattern, a shift or a cursor position is carried out part by  *)
(* part as asked, nothing else changes, and no operation returns "ok" that *)
(* has not done it all.                                                    *)
THEOREM ScreenImplemented == Spec => ImplementsScreen
<1>1. Inv /\ TextInv /\ ModeInv /\ [Next]_vars
        => [Display!ScreenNext]_(Display!ScreenVars)
  BY ScreenStep
<1> QED
  BY <1>1, ScreenStart, DriverInv, TextInvCorrect, ModeInvCorrect, PTL
  DEF Spec, ImplementsScreen, Display!ScreenSpec
=============================================================================
