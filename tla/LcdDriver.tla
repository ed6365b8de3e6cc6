----------------------------- MODULE LcdDriver -----------------------------
(***************************************************************************)
(* drv_hd44780.c after power-up: the operations of the display driver on   *)
(* the controller's memory, address counter, display position and cursor.  *)
(*                                                                         *)
(* An operation is a sequence of commands, each followed by a busy check.  *)
(* One step is one command with its check, which passes or fails:          *)
(* HD44780_BusyCheck polls twice, 100 us apart, and not after its last     *)
(* delay, so one delay cut short (module TimerDelays) makes it fail though the  *)
(* controller carries the command out.  A failed check ends the operation  *)
(* where it is.                                                            *)
(***************************************************************************)
EXTENDS Integers, Sequences

CONSTANTS
  MAX_LINE1_ADD,    \* 0x27
  MIN_LINE2_ADD,    \* 0x40
  HORIZONTAL_SIZE,  \* 16, the characters of a line that are visible
  Glyphs,           \* 8 character patterns in CGRAM
  Rows,             \* of 8 rows each
  Chars, Blank,     \* what is written, and what clearing leaves
  Strings,          \* the strings shown
  Patterns,         \* the character patterns defined
  Shifts            \* the arguments of HD44780_DisplayShift

MAX_LINE2_ADD == MIN_LINE2_ADD + MAX_LINE1_ADD

LineLength == MAX_LINE1_ADD + 1

ASSUME LcdAssumption ==
  /\ MAX_LINE1_ADD \in Nat /\ MIN_LINE2_ADD \in Nat
  /\ MAX_LINE1_ADD < MIN_LINE2_ADD
  /\ HORIZONTAL_SIZE \in 1 .. LineLength
  /\ Glyphs \in Nat \ {0} /\ Rows \in Nat \ {0}
  /\ Strings \subseteq Seq(Chars)
  /\ Patterns \subseteq [1 .. Rows -> Chars]
  /\ Shifts \subseteq Int

VARIABLES
  (* The controller. *)
  ac,       \* address counter
  space,    \* what it addresses, "DDRAM" or "CGRAM"
  ddram, cgram,
  shift,    \* the leftmost visible address of line 1
  cursor,   \* its cursor mode
  (* HD4478_Ctrl. *)
  DisplayPos,
  CursorMode,  \* CursorOn and CursorBlink
  (* The operation under way and the result of the last one. *)
  call,
  res,
  shiftFailed  \* a shift has failed since the position was last reset

lcdVars == <<ac, space, ddram, cgram, shift, cursor>>
ctrlVars == <<DisplayPos, CursorMode>>
vars == <<lcdVars, ctrlVars, call, res, shiftFailed>>

Line(y) == IF y = 1 THEN 0 .. MAX_LINE1_ADD ELSE MIN_LINE2_ADD .. MAX_LINE2_ADD

DDAddresses == Line(1) \cup Line(2)

CGAddresses == 0 .. Glyphs * Rows - 1

CursorModes == [on : BOOLEAN, blink : BOOLEAN]

CursorOff == [on |-> FALSE, blink |-> FALSE]

NoCall == [op |-> "none"]

TypeOK ==
  /\ space \in {"DDRAM", "CGRAM"}
  /\ ac \in IF space = "CGRAM" THEN CGAddresses
            ELSE DDAddresses \cup CGAddresses
  /\ ddram \in [DDAddresses -> Chars \cup {Blank}]
  /\ cgram \in [CGAddresses -> Chars \cup {Blank}]
  /\ shift \in 0 .. MAX_LINE1_ADD
  /\ cursor \in CursorModes
  /\ DisplayPos \in 0 .. MAX_LINE1_ADD
  /\ CursorMode \in CursorModes
  /\ call.op \in {"none", "StrShow", "WrCGRAM", "RdCGRAM", "DisplayShift",
                  "CursorPosSet"}
  /\ res \in {"ok", "error", "outOfVisual"}
  /\ shiftFailed \in BOOLEAN

(* After HD44780_PowerUpInit. *)
Init ==
  /\ ac = 0 /\ space = "DDRAM"
  /\ ddram = [a \in DDAddresses |-> Blank]
  /\ cgram = [a \in CGAddresses |-> Blank]
  /\ shift = 0 /\ DisplayPos = 0
  /\ cursor = CursorOff /\ CursorMode = CursorOff
  /\ call = NoCall /\ res = "ok" /\ shiftFailed = FALSE

-----------------------------------------------------------------------------
(* The commands of the controller. *)

SetDDRamAdd(a) == ac' = a /\ space' = "DDRAM" /\ UNCHANGED <<ddram, cgram>>

SetCGRamAdd(a) == ac' = a /\ space' = "CGRAM" /\ UNCHANGED <<ddram, cgram>>

(* The address counter runs through both lines.                            *)
NextAdd ==
  IF space = "CGRAM" THEN (ac + 1) % (Glyphs * Rows)
  ELSE IF ac = MAX_LINE1_ADD THEN MIN_LINE2_ADD
  ELSE IF ac = MAX_LINE2_ADD THEN 0 ELSE ac + 1

WriteData(d) ==
  /\ IF space = "DDRAM"
     THEN ddram' = [ddram EXCEPT ![ac] = d] /\ UNCHANGED cgram
     ELSE cgram' = [cgram EXCEPT ![ac] = d] /\ UNCHANGED ddram
  /\ ac' = NextAdd
  /\ UNCHANGED space

ReadData == ac' = NextAdd /\ UNCHANGED <<space, ddram, cgram>>

-----------------------------------------------------------------------------
(* How an operation goes on. *)

Idle == call.op = "none"

Return(r) == call' = NoCall /\ res' = r

(* The busy check of a step: it goes on with c, or returns the error.      *)
BusyCheck(c) == (call' = c /\ UNCHANGED res) \/ Return("error")

(* HD44780_GetDDRamAdd and HD44780_CheckVisual. *)

Refused == -1

GetDDRamAdd(x, y) ==
  IF y > 2 \/ x > MAX_LINE1_ADD THEN Refused
  ELSE IF y = 2 THEN x - 1 + MIN_LINE2_ADD ELSE x - 1

(* A faulty check: the address is not taken as one of its line.            *)
CheckVisualLine1Only(a) ==
  LET last == DisplayPos + HORIZONTAL_SIZE
  IN  IF a \notin DDAddresses THEN "error"
      ELSE IF a < DisplayPos \/ a > IF last > MAX_LINE1_ADD
                                    THEN MAX_LINE1_ADD ELSE last
           THEN "outOfVisual" ELSE "ok"

CheckVisual(a) ==
  LET d    == IF a >= MIN_LINE2_ADD THEN a - MIN_LINE2_ADD ELSE a
      last == DisplayPos + HORIZONTAL_SIZE
  IN  IF a \notin DDAddresses THEN "error"
      ELSE IF \/ /\ last > MAX_LINE1_ADD
                 /\ d > MAX_LINE1_ADD - DisplayPos /\ d < DisplayPos
              \/ d < DisplayPos
              \/ d > IF last > MAX_LINE1_ADD THEN MAX_LINE1_ADD ELSE last
           THEN "outOfVisual" ELSE "ok"

-----------------------------------------------------------------------------
(* HD44780_StrShow.  n of the string's characters are written; add is the  *)
(* address counter as the last busy check read it.                         *)

Unmoved == UNCHANGED <<shift, cursor, ctrlVars, shiftFailed>>

StrShow(x, y, s) ==
  /\ Idle
  /\ IF GetDDRamAdd(x, y) = Refused
     THEN Return("error") /\ UNCHANGED lcdVars
     ELSE /\ SetDDRamAdd(GetDDRamAdd(x, y))
          /\ BusyCheck([op |-> "StrShow", x |-> x, y |-> y, s |-> s, n |-> 0,
                        add |-> ac', err |-> "ok"])
          /\ UNCHANGED <<shift, cursor>>
  /\ UNCHANGED <<ctrlVars, shiftFailed>>

(* A faulty test: line 1 is not looked at.                                 *)
CrossedLine2Only == call.y = 2 /\ call.add < MIN_LINE2_ADD

(* The address counter has left the line.                                  *)
Crossed ==
  \/ call.y = 1 /\ call.add > MAX_LINE1_ADD
  \/ call.y = 2 /\ call.add < MIN_LINE2_ADD

StrShowChar ==
  /\ call.op = "StrShow" /\ ~Crossed /\ call.n < Len(call.s)
  /\ WriteData(call.s[call.n + 1])
  /\ BusyCheck([call EXCEPT !.n = @ + 1, !.add = ac',
                  !.err = IF CheckVisual(call.add) = "ok" THEN @
                          ELSE CheckVisual(call.add)])
  /\ Unmoved

(* A faulty wrap: always to the start of line 1.                           *)
StrShowWrapLine1 ==
  /\ call.op = "StrShow" /\ Crossed
  /\ SetDDRamAdd(0)
  /\ BusyCheck([call EXCEPT !.add = ac'])
  /\ Unmoved

(* Back to the start of the line.                                          *)
StrShowWrap ==
  /\ call.op = "StrShow" /\ Crossed
  /\ SetDDRamAdd(IF call.y = 1 THEN 0 ELSE MIN_LINE2_ADD)
  /\ BusyCheck([call EXCEPT !.add = ac'])
  /\ Unmoved

StrShowEnd ==
  /\ call.op = "StrShow" /\ ~Crossed /\ call.n = Len(call.s)
  /\ Return(call.err)
  /\ UNCHANGED <<lcdVars, ctrlVars, shiftFailed>>

-----------------------------------------------------------------------------
(* HD44780_WrCGRAM and HD44780_RdCGRAM: the address counter is read, put   *)
(* into CGRAM, and put back at the end.                                    *)

OpenCGRAM(c, a) ==
  /\ Idle
  /\ \/ Return("error") /\ UNCHANGED <<ac, space, ddram, cgram>>
     \/ SetCGRamAdd(a) /\ BusyCheck(c)
  /\ Unmoved

(* A faulty address: it is not multiplied.                                 *)
GlyphAddUnscaled(k) == k

GlyphAdd(k) == k * Rows

WrCGRAM(k, p) ==
  OpenCGRAM([op |-> "WrCGRAM", k |-> k, p |-> p, n |-> 0, hold |-> ac,
             broken |-> FALSE],
            GlyphAdd(k))

(* A failed busy check breaks the loop.                                    *)
Loop(c) == call' \in {c, [c EXCEPT !.broken = TRUE]} /\ UNCHANGED res

WrCGRAMRow ==
  /\ call.op = "WrCGRAM" /\ call.n < Rows /\ ~call.broken
  /\ WriteData(call.p[call.n + 1])
  /\ Loop([call EXCEPT !.n = @ + 1])
  /\ Unmoved

RdCGRAM(k) ==
  OpenCGRAM([op |-> "RdCGRAM", k |-> k, p |-> <<>>, n |-> 0, hold |-> ac,
             broken |-> FALSE],
            k)

RdCGRAMRow ==
  /\ call.op = "RdCGRAM" /\ call.n < Rows /\ ~call.broken
  /\ ReadData
  /\ Loop([call EXCEPT !.n = @ + 1, !.p = Append(@, cgram[ac])])
  /\ Unmoved

CloseCGRAM ==
  /\ call.op \in {"WrCGRAM", "RdCGRAM"} /\ (call.n = Rows \/ call.broken)
  /\ SetDDRamAdd(call.hold)
  /\ Return("error") \/ (~call.broken /\ Return("ok"))
  /\ Unmoved

-----------------------------------------------------------------------------
(* HD44780_DisplayShift: right for d > 0, left for d < 0.                  *)

DisplayShift(d) ==
  /\ Idle
  /\ IF d > MAX_LINE1_ADD \/ d < -MAX_LINE2_ADD
     THEN Return("error")
     ELSE /\ call' = [op |-> "DisplayShift", left |-> d < 0,
                      todo |-> IF d < 0 THEN -d ELSE d]
          /\ UNCHANGED res
  /\ UNCHANGED <<lcdVars, ctrlVars, shiftFailed>>

(* A faulty position: it is not wrapped around on the right.               *)
MovedNoWrap(pos) == IF call.left THEN pos + 1 ELSE pos - 1

(* A faulty driver: left and right exchanged.                              *)
MovedOtherWay(pos) ==
  IF call.left THEN IF pos = 0 THEN MAX_LINE1_ADD ELSE pos - 1
               ELSE IF pos = MAX_LINE1_ADD THEN 0 ELSE pos + 1

Moved(pos) ==
  IF call.left THEN IF pos = MAX_LINE1_ADD THEN 0 ELSE pos + 1
               ELSE IF pos = 0 THEN MAX_LINE1_ADD ELSE pos - 1

ShiftOnce ==
  /\ call.op = "DisplayShift" /\ call.todo > 0
  /\ shift' = (shift + (IF call.left THEN 1 ELSE LineLength - 1)) % LineLength
  /\ \/ /\ DisplayPos' = Moved(DisplayPos)
        /\ call' = [call EXCEPT !.todo = @ - 1]
        /\ UNCHANGED <<res, shiftFailed>>
     \/ /\ Return("error")
        /\ shiftFailed' = TRUE
        /\ UNCHANGED DisplayPos
  /\ UNCHANGED <<ac, space, ddram, cgram, cursor, CursorMode>>

DisplayShiftEnd ==
  /\ call.op = "DisplayShift" /\ call.todo = 0
  /\ Return("ok")
  /\ UNCHANGED <<lcdVars, ctrlVars, shiftFailed>>

(* HD44780_ReturnToHome and HD44780_ClearDisplay. *)

Home ==
  /\ Idle
  /\ DisplayPos' = 0 /\ shift' = 0 /\ shiftFailed' = FALSE
  /\ ac' = 0 /\ space' = "DDRAM"
  /\ Return("ok") \/ Return("error")
  /\ UNCHANGED <<cgram, cursor, CursorMode>>

ReturnToHome == Home /\ UNCHANGED ddram

ClearDisplay == Home /\ ddram' = [a \in DDAddresses |-> Blank]

-----------------------------------------------------------------------------
(* HD44780_CursorPosSet: cursor off, the address, the cursor as asked for, *)
(* the first and the last by HD44780_SetMode.                              *)

CursorPosSet(m, x, y) ==
  /\ Idle
  /\ IF GetDDRamAdd(x, y) = Refused
     THEN Return("error") /\ UNCHANGED <<cursor, CursorMode>>
     ELSE /\ CursorMode' = [CursorMode EXCEPT !.on = FALSE]
          /\ cursor' = CursorMode'
          /\ BusyCheck([op |-> "CursorPosSet", m |-> m, set |-> FALSE,
                        add |-> GetDDRamAdd(x, y)])
  /\ UNCHANGED <<ac, space, ddram, cgram, shift, DisplayPos, shiftFailed>>

CursorPosSetAdd ==
  /\ call.op = "CursorPosSet" /\ ~call.set
  /\ SetDDRamAdd(call.add)
  /\ BusyCheck([call EXCEPT !.set = TRUE])
  /\ Unmoved

CursorPosSetMode ==
  /\ call.op = "CursorPosSet" /\ call.set
  /\ CursorMode' = call.m
  /\ cursor' = CursorMode'
  /\ Return("ok") \/ Return("error")
  /\ UNCHANGED <<ac, space, ddram, cgram, shift, DisplayPos, shiftFailed>>

-----------------------------------------------------------------------------
Continue ==
  \/ StrShowChar \/ StrShowWrap
  \/ WrCGRAMRow \/ RdCGRAMRow
  \/ ShiftOnce
  \/ CursorPosSetAdd

Finish == StrShowEnd \/ CloseCGRAM \/ DisplayShiftEnd \/ CursorPosSetMode

Next ==
  \/ \E x \in 1 .. LineLength, y \in {1, 2}, s \in Strings : StrShow(x, y, s)
  \/ \E k \in 0 .. Glyphs - 1, p \in Patterns : WrCGRAM(k, p)
  \/ \E k \in 0 .. Glyphs - 1 : RdCGRAM(k)
  \/ \E d \in Shifts : DisplayShift(d)
  \/ ReturnToHome
  \/ ClearDisplay
  \/ \E m \in CursorModes, x \in 1 .. LineLength, y \in {1, 2} :
       CursorPosSet(m, x, y)
  \/ Continue
  \/ Finish

(* An operation under way goes on as long as its busy checks pass; that    *)
(* one fails in the end is not assumed, nor that anyone starts one.        *)
Spec ==
  /\ Init /\ [][Next]_vars
  /\ WF_vars(Continue /\ ~Idle') /\ WF_vars(Finish)

-----------------------------------------------------------------------------
LineStart(y) == IF y = 1 THEN 0 ELSE MIN_LINE2_ADD

(* The address of the i-th character of a string shown at x, y: around the *)
(* end of the line to its start.                                           *)
Cell(x, y, i) == LineStart(y) + ((x + i - 2) % LineLength)

(* A string stands where it was asked for, character by character, until   *)
(* it runs into itself: the address counter, which may have been anywhere  *)
(* and runs from one line into the other, is always brought back.          *)
ShownAsAsked ==
  call.op = "StrShow" =>
    \A i \in 1 .. call.n :
      call.n - i < LineLength =>
        ddram[Cell(call.x, call.y, i)] = call.s[i]

(* Showing a string changes nothing outside its line, and no operation but *)
(* it and clearing changes the text, whatever busy checks fail.            *)
OtherTextKept ==
  [][\A a \in DDAddresses :
       \/ ddram'[a] = ddram[a]
       \/ call.op = "StrShow" /\ a \in Line(call.y)
       \/ ClearDisplay]_vars

(* A character pattern is written to its own rows only.                    *)
GlyphsApart ==
  [][\A a \in CGAddresses :
       \/ cgram'[a] = cgram[a]
       \/ call.op = "WrCGRAM" /\ a \div Rows = call.k]_vars

(* The position the driver keeps is the controller's, around both ends of  *)
(* the line, unless a shift's busy check failed.                           *)
PositionTracked == ~shiftFailed => DisplayPos = shift

(* Every operation ends, though the address counter, as it is read back,   *)
(* decides how often a string is wrapped.                                  *)
CallReturns == ~Idle ~> Idle

(* Where address a is in its line, from 0.                                 *)
Column(a) == IF a >= MIN_LINE2_ADD THEN a - MIN_LINE2_ADD ELSE a

(* The character at address a is among the visible ones.                   *)
Visible(a) == (Column(a) + LineLength - shift) % LineLength < HORIZONTAL_SIZE

(* While the visible part lies within the lines, HD44780_CheckVisual tells *)
(* the addresses the controller shows from the others, on both lines and   *)
(* after any shifts, but for the one right of the visible ones.            *)
VisualOffByOne ==
  ~shiftFailed /\ DisplayPos + HORIZONTAL_SIZE <= LineLength =>
    \A a \in DDAddresses :
      CheckVisual(a) = "ok"
        <=> Visible(a) \/ Column(a) = DisplayPos + HORIZONTAL_SIZE

-----------------------------------------------------------------------------
(* The screen the callers of the driver see.                               *)

Text(m) == [p \in {1, 2} \X (0 .. MAX_LINE1_ADD) |-> m[LineStart(p[1]) + p[2]]]

Pattern(m) ==
  [r \in (0 .. Glyphs - 1) \X (1 .. Rows) |-> m[r[1] * Rows + r[2] - 1]]

PlaceOf(a) == <<IF a >= MIN_LINE2_ADD THEN 2 ELSE 1, Column(a)>>

(* While a string is written the address counter, and with it the cursor,  *)
(* may be on the other line.                                               *)
CursorPlace(c, s, a) ==
  IF c.op = "StrShow" \/ s = "CGRAM" \/ a \notin DDAddresses
  THEN <<0, 0>> ELSE PlaceOf(a)

Task(c) ==
  CASE c.op = "StrShow" ->
         [op |-> "show", x |-> c.x - 1, y |-> c.y, s |-> c.s, n |-> c.n]
    [] c.op = "WrCGRAM" -> [op |-> "draw", k |-> c.k, p |-> c.p, n |-> c.n]
    [] c.op = "RdCGRAM" -> [op |-> "read"]
    [] c.op = "DisplayShift" ->
         [op |-> "slide", left |-> c.left, todo |-> c.todo]
    [] c.op = "CursorPosSet" ->
         [op |-> "cursor", m |-> c.m, p |-> PlaceOf(c.add), moved |-> c.set]
    [] OTHER -> c

Display == INSTANCE Screen WITH
  Columns <- LineLength,
  text <- Text(ddram),
  pattern <- Pattern(cgram),
  left <- shift,
  at <- CursorPlace(call, space, ac),
  task <- Task(call),
  result <- res

(* Whatever busy checks fail, and wherever they leave the address counter  *)
(* for the next operation, the driver does what a screen without one does: *)
(* each operation writes, slides or moves what it was asked to, in that    *)
(* order, and nothing else, and returns without an error only when it has  *)
(* done it all.                                                            *)
ImplementsScreen == Display!ScreenSpec
=============================================================================
