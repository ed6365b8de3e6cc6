-------------------------- MODULE LcdDriverProofs --------------------------
(***************************************************************************)
(* Proofs about LcdDriver for every size of the display and of its         *)
(* patterns, and every set of strings.                                     *)
(***************************************************************************)
EXTENDS LcdDriver, SequenceTheorems, TLAPS

LEMMA ConstantTypes ==
  /\ MAX_LINE1_ADD \in Nat /\ MIN_LINE2_ADD \in Nat
  /\ MAX_LINE1_ADD < MIN_LINE2_ADD
  /\ LineLength \in Nat \ {0} /\ LineLength = MAX_LINE1_ADD + 1
  /\ MAX_LINE2_ADD = MIN_LINE2_ADD + MAX_LINE1_ADD
  /\ HORIZONTAL_SIZE \in 1 .. LineLength
  /\ Glyphs \in Nat \ {0} /\ Rows \in Nat \ {0}
BY LcdAssumption DEF LineLength, MAX_LINE2_ADD

-----------------------------------------------------------------------------
(* Remainders. *)

LEMMA Remainder ==
  ASSUME NEW L \in Nat \ {0}, NEW q \in Int, NEW r \in 0 .. L - 1
  PROVE  (L * q + r) % L = r /\ (L * q + r) \div L = q
OBVIOUS

LEMMA ModBelow == ASSUME NEW L \in Nat \ {0}, NEW r \in 0 .. L - 1 PROVE r % L = r
OBVIOUS

LEMMA DivMod ==
  ASSUME NEW L \in Nat \ {0}, NEW a \in Nat
  PROVE  \E q \in Nat, r \in 0 .. L - 1 : a = L * q + r /\ a % L = r
<1>1. a % L \in 0 .. L - 1
  OBVIOUS
<1>2. a \div L \in Nat
  OBVIOUS
<1>3. a = L * (a \div L) + (a % L)
  BY Z3T(20)
<1> QED
  BY <1>1, <1>2, <1>3, Zenon

LEMMA ModNext ==
  ASSUME NEW L \in Nat \ {0}, NEW a \in Nat
  PROVE  (a + 1) % L = IF a % L = L - 1 THEN 0 ELSE (a % L) + 1
<1>1. PICK q \in Nat, r \in 0 .. L - 1 : a = L * q + r /\ a % L = r
  BY DivMod
<1>2. CASE r = L - 1
  <2>1. a + 1 = L * (q + 1) + 0
    BY <1>1, <1>2
  <2>2. (L * (q + 1) + 0) % L = 0
    BY Remainder
  <2> QED
    BY <1>1, <1>2, <2>1, <2>2
<1>3. CASE r # L - 1
  <2>1. PICK t \in 0 .. L - 1 : t = r + 1
    BY <1>1, <1>3
  <2>2. a + 1 = L * q + t
    BY <1>1, <2>1
  <2>3. (L * q + t) % L = t
    BY Remainder
  <2> QED
    BY <1>1, <1>3, <2>1, <2>2, <2>3
<1> QED
  BY <1>2, <1>3

LEMMA ModDistinct ==
  ASSUME NEW L \in Nat \ {0}, NEW a \in Nat, NEW b \in Nat,
         a < b, b - a < L
  PROVE  a % L # b % L
<1> SUFFICES ASSUME a % L = b % L PROVE FALSE
  OBVIOUS
<1>1. PICK q \in Nat, r \in 0 .. L - 1 : a = L * q + r /\ a % L = r
  BY DivMod
<1>2. PICK p \in Nat, t \in 0 .. L - 1 : b = L * p + t /\ b % L = t
  BY DivMod
<1>3. t = r
  BY <1>1, <1>2
<1>4. L * p - L * q = b - a
  BY <1>1, <1>2, <1>3
<1>5. CASE p <= q
  <2>1. L * p <= L * q
    BY <1>5
  <2> QED
    BY <1>4, <2>1
<1>6. CASE q < p
  <2>1. L * (q + 1) <= L * p
    BY <1>6
  <2>2. L * (q + 1) = L * q + L
    OBVIOUS
  <2> QED
    BY <1>4, <2>1, <2>2
<1> QED
  BY <1>5, <1>6

-----------------------------------------------------------------------------
(* What the operations keep while they are under way.                      *)

Results == {"ok", "error", "outOfVisual"}

ShowCalls == [op : {"StrShow"}, x : 1 .. LineLength, y : {1, 2}, s : Strings,
              n : Nat, add : DDAddresses, err : Results]

GlyphCalls(op, P) == [op : {op}, k : 0 .. Glyphs - 1, p : P, n : 0 .. Rows,
                      hold : DDAddresses \cup CGAddresses, broken : BOOLEAN]

WrCalls == GlyphCalls("WrCGRAM", Patterns)

RdCalls == GlyphCalls("RdCGRAM", Seq(Chars \cup {Blank}))

ShiftCalls == [op : {"DisplayShift"}, left : BOOLEAN, todo : Nat]

CursorCalls == [op : {"CursorPosSet"}, m : CursorModes, set : BOOLEAN,
                add : DDAddresses]

Calls == {NoCall} \cup ShowCalls \cup WrCalls \cup RdCalls \cup ShiftCalls
           \cup CursorCalls

(* Where the address counter is while strings and patterns are written.    *)
ShowInv ==
  call.op = "StrShow" =>
    space = "DDRAM" /\ ac = call.add /\ call.n <= Len(call.s)

GlyphInv ==
  /\ call.op \in {"WrCGRAM", "RdCGRAM"} => space = "CGRAM"
  /\ call.op = "WrCGRAM" /\ call.n < Rows => ac = GlyphAdd(call.k) + call.n

Inv == TypeOK /\ call \in Calls /\ ShowInv /\ GlyphInv

LEMMA CallTypes ==
  ASSUME NEW c \in Calls
  PROVE  /\ c.op = "StrShow" => c \in ShowCalls
         /\ c.op = "WrCGRAM" => c \in WrCalls
         /\ c.op = "RdCGRAM" => c \in RdCalls
         /\ c.op = "DisplayShift" => c \in ShiftCalls
         /\ c.op = "CursorPosSet" => c \in CursorCalls
         /\ c.op = "none" => c = NoCall
         /\ c.op \in {"none", "StrShow", "WrCGRAM", "RdCGRAM", "DisplayShift",
                      "CursorPosSet"}
BY DEF Calls, NoCall, ShowCalls, GlyphCalls, WrCalls, RdCalls, ShiftCalls,
       CursorCalls

(* The address counter keeps to the memory it addresses.                   *)
LEMMA NextAddType ==
  /\ space = "DDRAM" /\ ac \in DDAddresses => NextAdd \in DDAddresses
  /\ space = "CGRAM" /\ ac \in CGAddresses => NextAdd \in CGAddresses
<1>1. ASSUME space = "DDRAM", ac \in DDAddresses PROVE NextAdd \in DDAddresses
  <2>1. NextAdd = IF ac = MAX_LINE1_ADD THEN MIN_LINE2_ADD
                  ELSE IF ac = MAX_LINE2_ADD THEN 0 ELSE ac + 1
    BY <1>1 DEF NextAdd
  <2> QED
    BY <1>1, <2>1, ConstantTypes DEF DDAddresses, Line
<1>2. ASSUME space = "CGRAM", ac \in CGAddresses PROVE NextAdd \in CGAddresses
  <2>1. NextAdd = (ac + 1) % (Glyphs * Rows)
    BY <1>2 DEF NextAdd
  <2>2. Glyphs * Rows \in Nat \ {0}
    BY ConstantTypes
  <2>3. ac + 1 \in Nat
    BY <1>2, <2>2 DEF CGAddresses
  <2> QED
    BY <2>1, <2>2, <2>3, DivMod DEF CGAddresses
<1> QED
  BY <1>1, <1>2

(* An address the driver accepts is one of the line that was asked for.    *)
LEMMA GetDDRamAddType ==
  ASSUME NEW x \in 1 .. LineLength, NEW y \in {1, 2},
         GetDDRamAdd(x, y) # Refused
  PROVE  /\ GetDDRamAdd(x, y) = Cell(x, y, 1)
         /\ GetDDRamAdd(x, y) \in DDAddresses
<1>1. x <= MAX_LINE1_ADD
      /\ GetDDRamAdd(x, y) = IF y = 2 THEN x - 1 + MIN_LINE2_ADD ELSE x - 1
  BY ConstantTypes DEF GetDDRamAdd
<1>2. (x + 1 - 2) % LineLength = x - 1
  <2>1. x - 1 \in 0 .. LineLength - 1
    BY ConstantTypes
  <2>2. (x - 1) % LineLength = x - 1
    BY <2>1, ConstantTypes, ModBelow, Zenon
  <2>3. x + 1 - 2 = x - 1
    OBVIOUS
  <2> QED
    BY <2>2, <2>3, Zenon
<1> QED
  BY <1>1, <1>2, ConstantTypes DEF Cell, LineStart, DDAddresses, Line

-----------------------------------------------------------------------------
(* The commands, and what an operation does about them. *)

MemoryOK ==
  /\ space \in {"DDRAM", "CGRAM"}
  /\ ac \in IF space = "CGRAM" THEN CGAddresses
            ELSE DDAddresses \cup CGAddresses
  /\ ddram \in [DDAddresses -> Chars \cup {Blank}]
  /\ cgram \in [CGAddresses -> Chars \cup {Blank}]

DisplayOK ==
  /\ shift \in 0 .. MAX_LINE1_ADD
  /\ cursor \in CursorModes
  /\ DisplayPos \in 0 .. MAX_LINE1_ADD
  /\ CursorMode \in CursorModes
  /\ shiftFailed \in BOOLEAN

CallOK == call \in Calls /\ res \in Results

LEMMA InvParts ==
  /\ Inv <=> MemoryOK /\ DisplayOK /\ CallOK /\ ShowInv /\ GlyphInv
  /\ Inv' <=> MemoryOK' /\ DisplayOK' /\ CallOK' /\ ShowInv' /\ GlyphInv'
<1>1. Inv <=> MemoryOK /\ DisplayOK /\ CallOK /\ ShowInv /\ GlyphInv
  <2>1. call \in Calls => call.op \in {"none", "StrShow", "WrCGRAM", "RdCGRAM",
                                       "DisplayShift", "CursorPosSet"}
    BY CallTypes, Zenon
  <2> QED
    BY <2>1, Zenon DEF Inv, TypeOK, MemoryOK, DisplayOK, CallOK, Results
<1>2. Inv' <=> MemoryOK' /\ DisplayOK' /\ CallOK' /\ ShowInv' /\ GlyphInv'
  <2>1. call' \in Calls => call'.op \in {"none", "StrShow", "WrCGRAM", "RdCGRAM",
                                         "DisplayShift", "CursorPosSet"}
    BY CallTypes, Zenon
  <2> QED
    BY <2>1, Zenon DEF Inv, TypeOK, MemoryOK, DisplayOK, CallOK, Results
<1> QED
  BY <1>1, <1>2, Zenon

LEMMA SetDDRamAddType ==
  ASSUME MemoryOK, NEW a \in DDAddresses \cup CGAddresses, SetDDRamAdd(a)
  PROVE  /\ MemoryOK' /\ space' = "DDRAM" /\ ac' = a
         /\ ddram' = ddram /\ cgram' = cgram
BY DEF SetDDRamAdd, MemoryOK

LEMMA SetCGRamAddType ==
  ASSUME MemoryOK, NEW a \in CGAddresses, SetCGRamAdd(a)
  PROVE  /\ MemoryOK' /\ space' = "CGRAM" /\ ac' = a
         /\ ddram' = ddram /\ cgram' = cgram
BY DEF SetCGRamAdd, MemoryOK

LEMMA DataType ==
  ASSUME MemoryOK, space = "DDRAM" => ac \in DDAddresses,
         ReadData \/ \E d \in Chars \cup {Blank} : WriteData(d)
  PROVE  /\ MemoryOK' /\ space' = space /\ ac' = NextAdd
<1>1. /\ ddram' \in [DDAddresses -> Chars \cup {Blank}]
      /\ cgram' \in [CGAddresses -> Chars \cup {Blank}]
      /\ space' = space /\ ac' = NextAdd
  BY DEF ReadData, WriteData, MemoryOK
<1>2. space = "CGRAM" => ac \in CGAddresses
  BY Zenon DEF MemoryOK
<1>3. (space = "DDRAM" => ac' \in DDAddresses)
        /\ (space = "CGRAM" => ac' \in CGAddresses)
  BY <1>1, <1>2, NextAddType, Zenon
<1> QED
  BY <1>1, <1>3 DEF MemoryOK

(* Where BusyCheck leads: on with the operation, or out of it.             *)
LEMMA BusyCheckResult ==
  ASSUME NEW c \in Calls, BusyCheck(c), CallOK
  PROVE  CallOK' /\ (call' = c \/ call' = NoCall)
<1>1. (call' = c /\ res' = res) \/ (call' = NoCall /\ res' = "error")
  BY Zenon DEF BusyCheck, Return
<1>2. call' \in Calls
  BY <1>1 DEF Calls
<1>3. res' \in Results
  BY <1>1 DEF Results, CallOK
<1> QED
  BY <1>1, <1>2, <1>3, Zenon DEF CallOK

(* An operation that is over has nothing to keep.                          *)
LEMMA OverInv ==
  ASSUME call' = NoCall
  PROVE  call' \in Calls /\ ShowInv' /\ GlyphInv'
BY DEF Calls, NoCall, ShowInv, GlyphInv

LEMMA ReturnInv ==
  ASSUME NEW r \in Results, Return(r)
  PROVE  CallOK' /\ ShowInv' /\ GlyphInv'
BY OverInv DEF Return, CallOK

LEMMA UnmovedDisplay == ASSUME DisplayOK, Unmoved PROVE DisplayOK'
BY DEF Unmoved, ctrlVars, DisplayOK

LEMMA UnchangedMemory ==
  ASSUME MemoryOK, UNCHANGED <<ac, space, ddram, cgram>>
  PROVE  MemoryOK'
BY DEF MemoryOK

-----------------------------------------------------------------------------
(* The steps of an operation, one lemma each.                              *)

LEMMA StrShowStep ==
  ASSUME Inv, NEW x \in 1 .. LineLength, NEW y \in {1, 2}, NEW s \in Strings,
         StrShow(x, y, s)
  PROVE  /\ Inv'
         /\ ddram' = ddram /\ cgram' = cgram
         /\ \/ call' = NoCall
            \/ /\ GetDDRamAdd(x, y) # Refused
               /\ call' = [op |-> "StrShow", x |-> x, y |-> y, s |-> s,
                           n |-> 0, add |-> GetDDRamAdd(x, y), err |-> "ok"]
<1>0. MemoryOK /\ DisplayOK /\ CallOK
  BY InvParts, Zenon
<1>1. CASE GetDDRamAdd(x, y) = Refused
  <2>1. /\ Return("error") /\ UNCHANGED lcdVars
        /\ UNCHANGED <<ctrlVars, shiftFailed>>
    BY <1>1, Zenon DEF StrShow
  <2>2. Unmoved /\ UNCHANGED <<ac, space, ddram, cgram>>
    BY <2>1 DEF lcdVars, Unmoved
  <2>3. CallOK' /\ ShowInv' /\ GlyphInv' /\ call' = NoCall
    BY <2>1, ReturnInv, Zenon DEF Return, Results
  <2>4. MemoryOK' /\ DisplayOK'
    BY <1>0, <2>2, UnmovedDisplay, UnchangedMemory, Zenon
  <2> QED
    BY <2>2, <2>3, <2>4, InvParts
<1>2. CASE GetDDRamAdd(x, y) # Refused
  <2> DEFINE a == GetDDRamAdd(x, y)
             c == [op |-> "StrShow", x |-> x, y |-> y, s |-> s, n |-> 0,
                   add |-> a, err |-> "ok"]
  <2>1. SetDDRamAdd(a) /\ Unmoved
    BY <1>2, Zenon DEF StrShow, Unmoved
  <2>2. a \in DDAddresses
    BY <1>2, GetDDRamAddType
  <2>3. /\ MemoryOK' /\ space' = "DDRAM" /\ ac' = a
        /\ ddram' = ddram /\ cgram' = cgram
    BY <1>0, <2>1, <2>2, SetDDRamAddType, Zenon
  <2>4. BusyCheck(c)
    BY <1>2, <2>3, Zenon DEF StrShow
  <2> HIDE DEF a
  <2>5. c \in ShowCalls /\ c \in Calls
    BY <2>2 DEF ShowCalls, Results, Calls
  <2>6. CallOK' /\ (call' = c \/ call' = NoCall)
    BY <1>0, <2>4, <2>5, BusyCheckResult, Zenon
  <2>7. ShowInv' /\ GlyphInv'
    <3>1. CASE call' = c
      <4>1. /\ c.op = "StrShow" /\ c.n = 0 /\ c.add = a /\ c.s = s
        OBVIOUS
      <4>2. 0 <= Len(s)
        BY LcdAssumption, LenProperties
      <4> QED
        BY <2>3, <3>1, <4>1, <4>2 DEF ShowInv, GlyphInv
    <3> QED
      BY <2>6, <3>1, OverInv, Zenon
  <2>8. DisplayOK'
    BY <1>0, <2>1, UnmovedDisplay, Zenon
  <2> QED
    BY <1>2, <2>3, <2>6, <2>7, <2>8, InvParts, Zenon DEF a
<1> QED
  BY <1>1, <1>2

(* A string under way: the call, and where it writes.                      *)
LEMMA ShowCall ==
  ASSUME Inv, call.op = "StrShow"
  PROVE  /\ call \in ShowCalls /\ space = "DDRAM" /\ ac = call.add
         /\ ac \in DDAddresses
         /\ call.n \in Nat /\ call.n <= Len(call.s)
         /\ call.s \in Seq(Chars) /\ call.y \in {1, 2}
<1>1. call \in ShowCalls
  BY CallTypes, Zenon DEF Inv
<1>2. /\ call.add \in DDAddresses /\ call.n \in Nat
      /\ call.s \in Strings /\ call.y \in {1, 2}
  BY <1>1 DEF ShowCalls
<1>3. space = "DDRAM" /\ ac = call.add /\ call.n <= Len(call.s)
  BY Zenon DEF Inv, ShowInv
<1> QED
  BY <1>1, <1>2, <1>3, LcdAssumption

LEMMA StrShowCharStep ==
  ASSUME Inv, StrShowChar
  PROVE  /\ Inv'
         /\ ddram' = [ddram EXCEPT ![ac] = call.s[call.n + 1]]
         /\ cgram' = cgram
         /\ \/ call' = NoCall
            \/ /\ call' \in ShowCalls
               /\ call'.x = call.x /\ call'.y = call.y /\ call'.s = call.s
               /\ call'.n = call.n + 1 /\ call'.add = NextAdd
<1>0. MemoryOK /\ DisplayOK /\ CallOK
  BY InvParts, Zenon
<1> DEFINE err == IF CheckVisual(call.add) = "ok" THEN call.err
                  ELSE CheckVisual(call.add)
           c == [call EXCEPT !.n = @ + 1, !.add = NextAdd, !.err = err]
<1>1. /\ call.op = "StrShow" /\ ~Crossed /\ call.n < Len(call.s)
      /\ WriteData(call.s[call.n + 1]) /\ Unmoved
      /\ BusyCheck([call EXCEPT !.n = @ + 1, !.add = ac', !.err = err])
  BY Zenon DEF StrShowChar
<1>2. /\ call \in ShowCalls /\ space = "DDRAM" /\ ac = call.add
      /\ ac \in DDAddresses
      /\ call.n \in Nat /\ call.s \in Seq(Chars)
  BY <1>1, ShowCall
<1>3. call.s[call.n + 1] \in Chars \cup {Blank}
  <2>1. call.n + 1 \in 1 .. Len(call.s)
    BY <1>1, <1>2
  <2> QED
    BY <1>2, <2>1, ElementOfSeq
<1>4. MemoryOK' /\ space' = "DDRAM" /\ ac' = NextAdd
  BY <1>0, <1>1, <1>2, <1>3, DataType, Zenon
<1>5. ddram' = [ddram EXCEPT ![ac] = call.s[call.n + 1]] /\ cgram' = cgram
  BY <1>1, <1>2, Zenon DEF WriteData
<1>6. BusyCheck(c)
  BY <1>1, <1>4, Zenon
<1>7. NextAdd \in DDAddresses
  BY <1>2, NextAddType, Zenon
<1>8. err \in Results
  <2>1. CheckVisual(call.add) \in Results
    BY Zenon DEF CheckVisual, Results
  <2>2. call.err \in Results
    BY <1>2 DEF ShowCalls
  <2> QED
    BY <2>1, <2>2
<1> DEFINE c1 == [call EXCEPT !.n = call.n + 1]
           c2 == [c1 EXCEPT !.add = NextAdd]
<1>9. /\ c \in ShowCalls /\ c.op = "StrShow"
      /\ c.x = call.x /\ c.y = call.y /\ c.s = call.s
      /\ c.n = call.n + 1 /\ c.add = NextAdd
  <2> HIDE DEF err
  <2>1. /\ c1 \in ShowCalls /\ c1.op = "StrShow"
        /\ c1.x = call.x /\ c1.y = call.y /\ c1.s = call.s
        /\ c1.n = call.n + 1
    BY <1>2 DEF ShowCalls
  <2>2. /\ c2 \in ShowCalls /\ c2.op = "StrShow" /\ c2.add = NextAdd
        /\ c2.x = c1.x /\ c2.y = c1.y /\ c2.s = c1.s /\ c2.n = c1.n
    <3> HIDE DEF c1
    <3> QED
      BY <1>7, <2>1 DEF ShowCalls
  <2>3. c = [c2 EXCEPT !.err = err]
    OBVIOUS
  <2> HIDE DEF c2, c1, c
  <2>4. /\ c \in ShowCalls /\ c.op = c2.op /\ c.add = c2.add
        /\ c.x = c2.x /\ c.y = c2.y /\ c.s = c2.s /\ c.n = c2.n
    BY <1>8, <2>2, <2>3 DEF ShowCalls
  <2> QED
    BY <2>1, <2>2, <2>4
<1>10. c \in Calls
  BY <1>9, Zenon DEF Calls
<1> HIDE DEF err, c
<1>11. CallOK' /\ (call' = c \/ call' = NoCall)
  BY <1>0, <1>6, <1>10, BusyCheckResult, Zenon
<1>12. ShowInv' /\ GlyphInv'
  <2>1. CASE call' = c
    <3>1. c.n <= Len(c.s)
      BY <1>1, <1>2, <1>9
    <3> QED
      BY <1>4, <1>9, <2>1, <3>1 DEF ShowInv, GlyphInv
  <2> QED
    BY <1>11, <2>1, OverInv, Zenon
<1>13. DisplayOK'
  BY <1>0, <1>1, UnmovedDisplay, Zenon
<1> QED
  BY <1>4, <1>5, <1>9, <1>11, <1>12, <1>13, InvParts, Zenon

LEMMA StrShowWrapStep ==
  ASSUME Inv, StrShowWrap
  PROVE  /\ Inv'
         /\ ddram' = ddram /\ cgram' = cgram
         /\ \/ call' = NoCall
            \/ /\ call' \in ShowCalls
               /\ call'.x = call.x /\ call'.y = call.y /\ call'.s = call.s
               /\ call'.n = call.n /\ call'.add = LineStart(call.y)
<1>0. MemoryOK /\ DisplayOK /\ CallOK
  BY InvParts, Zenon
<1> DEFINE a == LineStart(call.y)
           c == [call EXCEPT !.add = a]
<1>1. /\ call.op = "StrShow" /\ SetDDRamAdd(a) /\ Unmoved
      /\ BusyCheck([call EXCEPT !.add = ac'])
  BY Zenon DEF StrShowWrap, LineStart
<1>2. call \in ShowCalls /\ call.n \in Nat /\ call.n <= Len(call.s)
  BY <1>1, ShowCall
<1>3. a \in DDAddresses
  BY ConstantTypes DEF LineStart, DDAddresses, Line
<1>4. /\ MemoryOK' /\ space' = "DDRAM" /\ ac' = a
      /\ ddram' = ddram /\ cgram' = cgram
  BY <1>0, <1>1, <1>3, SetDDRamAddType, Zenon
<1>5. BusyCheck(c)
  BY <1>1, <1>4, Zenon
<1> HIDE DEF a
<1>6. /\ c \in ShowCalls /\ c.op = "StrShow"
      /\ c.x = call.x /\ c.y = call.y /\ c.s = call.s
      /\ c.n = call.n /\ c.add = a
  BY <1>2, <1>3 DEF ShowCalls
<1>7. c \in Calls
  BY <1>6, Zenon DEF Calls
<1> HIDE DEF c
<1>8. CallOK' /\ (call' = c \/ call' = NoCall)
  BY <1>0, <1>5, <1>7, BusyCheckResult, Zenon
<1>9. ShowInv' /\ GlyphInv'
  <2>1. CASE call' = c
    BY <1>2, <1>4, <1>6, <2>1 DEF ShowInv, GlyphInv
  <2> QED
    BY <1>8, <2>1, OverInv, Zenon
<1>10. DisplayOK'
  BY <1>0, <1>1, UnmovedDisplay, Zenon
<1> QED
  BY <1>4, <1>6, <1>8, <1>9, <1>10, InvParts, Zenon DEF a

LEMMA StrShowEndStep ==
  ASSUME Inv, StrShowEnd
  PROVE  Inv' /\ call' = NoCall /\ ddram' = ddram /\ cgram' = cgram
<1>0. MemoryOK /\ DisplayOK /\ CallOK
  BY InvParts, Zenon
<1>1. /\ call.op = "StrShow" /\ Return(call.err)
      /\ UNCHANGED <<lcdVars, ctrlVars, shiftFailed>>
  BY Zenon DEF StrShowEnd
<1>2. call.err \in Results
  BY <1>1, ShowCall DEF ShowCalls
<1>3. Unmoved /\ UNCHANGED <<ac, space, ddram, cgram>>
  BY <1>1 DEF lcdVars, Unmoved
<1>4. CallOK' /\ ShowInv' /\ GlyphInv' /\ call' = NoCall
  BY <1>1, <1>2, ReturnInv, Zenon DEF Return
<1>5. MemoryOK' /\ DisplayOK'
  BY <1>0, <1>3, UnmovedDisplay, UnchangedMemory, Zenon
<1> QED
  BY <1>3, <1>4, <1>5, InvParts

(* The rows of pattern k, and the pattern an address belongs to.           *)
LEMMA GlyphRows ==
  ASSUME NEW k \in 0 .. Glyphs - 1, NEW n \in 0 .. Rows - 1
  PROVE  /\ GlyphAdd(k) + n \in CGAddresses
         /\ (GlyphAdd(k) + n) \div Rows = k
<1>1. /\ Rows \in Nat \ {0} /\ Glyphs \in Nat \ {0} /\ k \in Nat
  BY ConstantTypes
<1>2. GlyphAdd(k) + n = Rows * k + n
  BY <1>1 DEF GlyphAdd
<1>3. (Rows * k + n) \div Rows = k
  BY <1>1, Remainder
<1>4. /\ Rows * (k + 1) <= Rows * Glyphs
      /\ Rows * (k + 1) = Rows * k + Rows
      /\ Glyphs * Rows = Rows * Glyphs
  BY <1>1
<1>5. Rows * k \in Nat /\ Rows * Glyphs \in Nat
  BY <1>1
<1>6. Rows * k + n \in 0 .. Rows * Glyphs - 1
  BY <1>1, <1>4, <1>5
<1> QED
  BY <1>2, <1>3, <1>4, <1>6 DEF CGAddresses

LEMMA OpenCGRAMStep ==
  ASSUME Inv, NEW c \in WrCalls \cup RdCalls, NEW a \in CGAddresses,
         OpenCGRAM(c, a), c.op = "WrCGRAM" => a = GlyphAdd(c.k) + c.n
  PROVE  Inv' /\ ddram' = ddram /\ cgram' = cgram
<1>0. MemoryOK /\ DisplayOK /\ CallOK
  BY InvParts, Zenon
<1>1. DisplayOK'
  BY <1>0, UnmovedDisplay, Zenon DEF OpenCGRAM
<1>2. CASE Return("error") /\ UNCHANGED <<ac, space, ddram, cgram>>
  <2>1. CallOK' /\ ShowInv' /\ GlyphInv'
    BY <1>2, ReturnInv, Zenon DEF Results
  <2> QED
    BY <1>0, <1>1, <1>2, <2>1, UnchangedMemory, InvParts
<1>3. CASE SetCGRamAdd(a) /\ BusyCheck(c)
  <2>1. /\ MemoryOK' /\ space' = "CGRAM" /\ ac' = a
        /\ ddram' = ddram /\ cgram' = cgram
    BY <1>0, <1>3, SetCGRamAddType, Zenon
  <2>2. c \in Calls /\ c.op # "StrShow"
    BY DEF Calls, WrCalls, RdCalls, GlyphCalls
  <2>3. CallOK' /\ (call' = c \/ call' = NoCall)
    BY <1>0, <1>3, <2>2, BusyCheckResult, Zenon
  <2>4. ShowInv' /\ GlyphInv'
    <3>1. CASE call' = c
      BY <2>1, <2>2, <3>1, Zenon DEF ShowInv, GlyphInv
    <3> QED
      BY <2>3, <3>1, OverInv, Zenon
  <2> QED
    BY <1>1, <2>1, <2>3, <2>4, InvParts, Zenon
<1> QED
  BY <1>2, <1>3, Zenon DEF OpenCGRAM

LEMMA OpenStep ==
  ASSUME Inv, NEW k \in 0 .. Glyphs - 1,
         RdCGRAM(k) \/ \E p \in Patterns : WrCGRAM(k, p)
  PROVE  Inv' /\ ddram' = ddram /\ cgram' = cgram
<1>1. ac \in DDAddresses \cup CGAddresses
  BY DEF Inv, TypeOK
<1>2. /\ 0 \in 0 .. Rows /\ 0 \in 0 .. Rows - 1
      /\ FALSE \in BOOLEAN
  BY ConstantTypes
<1>3. /\ GlyphAdd(k) \in CGAddresses
      /\ GlyphAdd(k) + 0 = GlyphAdd(k)
  <2>1. GlyphAdd(k) \in Int
    BY ConstantTypes DEF GlyphAdd
  <2>2. GlyphAdd(k) + 0 \in CGAddresses
    BY <1>2, GlyphRows, Zenon
  <2>3. GlyphAdd(k) + 0 = GlyphAdd(k)
    BY <2>1
  <2> QED
    BY <2>2, <2>3, Zenon
<1>4. CASE RdCGRAM(k)
  <2> DEFINE c == [op |-> "RdCGRAM", k |-> k, p |-> <<>>, n |-> 0, hold |-> ac,
                   broken |-> FALSE]
  <2>1. OpenCGRAM(c, k)
    BY <1>4, Zenon DEF RdCGRAM
  <2>2. <<>> \in Seq(Chars \cup {Blank})
    BY EmptySeq
  <2>3. c \in WrCalls \cup RdCalls /\ c.op # "WrCGRAM"
    BY <1>1, <1>2, <2>2 DEF RdCalls, GlyphCalls
  <2>4. k \in CGAddresses
    <3>1. /\ k \in Nat /\ Rows \in Nat /\ Rows >= 1 /\ Glyphs \in Nat
          /\ k < Glyphs
      BY ConstantTypes
    <3>2. Glyphs * 1 <= Glyphs * Rows /\ Glyphs * Rows \in Nat
      BY <3>1
    <3> QED
      BY <3>1, <3>2 DEF CGAddresses
  <2> HIDE DEF c
  <2> QED
    BY <2>1, <2>3, <2>4, OpenCGRAMStep, Zenon
<1>5. ASSUME NEW p \in Patterns, WrCGRAM(k, p)
      PROVE  Inv' /\ ddram' = ddram /\ cgram' = cgram
  <2> DEFINE c == [op |-> "WrCGRAM", k |-> k, p |-> p, n |-> 0, hold |-> ac,
                   broken |-> FALSE]
  <2>1. OpenCGRAM(c, GlyphAdd(k))
    BY <1>5, Zenon DEF WrCGRAM
  <2>2. c \in WrCalls \cup RdCalls /\ c.k = k /\ c.n = 0
    BY <1>1, <1>2 DEF WrCalls, GlyphCalls
  <2> HIDE DEF c
  <2>3. GlyphAdd(k) = GlyphAdd(c.k) + c.n
    BY <1>3, <2>2, Zenon
  <2> QED
    BY <1>3, <2>1, <2>2, <2>3, OpenCGRAMStep, Zenon
<1> QED
  BY <1>4, <1>5, Zenon

LEMMA WrCGRAMRowStep ==
  ASSUME Inv, WrCGRAMRow
  PROVE  /\ Inv' /\ ddram' = ddram
         /\ \A a \in CGAddresses : cgram'[a] = cgram[a] \/ a \div Rows = call.k
<1>0. MemoryOK /\ DisplayOK /\ CallOK /\ GlyphInv
  BY InvParts, Zenon
<1>1. /\ call.op = "WrCGRAM" /\ call.n < Rows
      /\ WriteData(call.p[call.n + 1]) /\ Loop([call EXCEPT !.n = @ + 1])
      /\ Unmoved
  BY Zenon DEF WrCGRAMRow
<1>2. call \in WrCalls
  BY <1>1, CallTypes, Zenon DEF Inv
<1>3. /\ call.k \in 0 .. Glyphs - 1 /\ call.p \in Patterns /\ call.n \in 0 .. Rows
      /\ call.n \in 0 .. Rows - 1 /\ call.n + 1 \in 1 .. Rows
  BY <1>1, <1>2, ConstantTypes DEF WrCalls, GlyphCalls
<1>4. space = "CGRAM" /\ ac = GlyphAdd(call.k) + call.n
  BY <1>0, <1>1, Zenon DEF GlyphInv
<1>5. ac \in CGAddresses /\ ac \div Rows = call.k
  BY <1>3, <1>4, GlyphRows, Zenon
<1>6. call.p[call.n + 1] \in Chars \cup {Blank}
  BY <1>3, LcdAssumption
<1>7. MemoryOK' /\ space' = "CGRAM" /\ ac' = NextAdd
  BY <1>0, <1>1, <1>4, <1>6, DataType, Zenon
<1>8. ddram' = ddram /\ cgram' = [cgram EXCEPT ![ac] = call.p[call.n + 1]]
  BY <1>1, <1>4, Zenon DEF WriteData
<1>9. \A a \in CGAddresses : cgram'[a] = cgram[a] \/ a \div Rows = call.k
  BY <1>0, <1>5, <1>8, Zenon DEF MemoryOK
<1>10. call' \in WrCalls /\ call'.k = call.k /\ call'.n = call.n + 1 /\ res' = res
  <2>1. call' = [call EXCEPT !.n = @ + 1]
          \/ call' = [call EXCEPT !.n = @ + 1, !.broken = TRUE]
    BY <1>1 DEF Loop
  <2> DEFINE c == [call EXCEPT !.n = call.n + 1]
  <2>2. c \in WrCalls /\ c.k = call.k /\ c.n = call.n + 1
    <3>1. call.n + 1 \in 0 .. Rows
      BY <1>3, ConstantTypes
    <3> QED
      BY <1>2, <3>1 DEF WrCalls, GlyphCalls
  <2>3. call' = c \/ call' = [c EXCEPT !.broken = TRUE]
    BY <2>1
  <2> HIDE DEF c
  <2>4. /\ [c EXCEPT !.broken = TRUE] \in WrCalls
        /\ [c EXCEPT !.broken = TRUE].k = c.k
        /\ [c EXCEPT !.broken = TRUE].n = c.n
    BY <2>2 DEF WrCalls, GlyphCalls
  <2>5. call' \in WrCalls /\ call'.k = call.k /\ call'.n = call.n + 1
    BY <2>2, <2>3, <2>4, Zenon
  <2>6. res' = res
    BY <1>1 DEF Loop
  <2> QED
    BY <2>5, <2>6, Zenon
<1>11. GlyphInv'
  <2>1. call'.op = "WrCGRAM"
    BY <1>10 DEF WrCalls, GlyphCalls
  <2>2. ASSUME call.n + 1 < Rows PROVE ac' = GlyphAdd(call.k) + (call.n + 1)
    <3>1. call.n + 1 \in 0 .. Rows - 1
      BY <1>3, <2>2, ConstantTypes
    <3>2. GlyphAdd(call.k) + (call.n + 1) \in CGAddresses
      BY <1>3, <3>1, GlyphRows, Zenon
    <3>3. NextAdd = (ac + 1) % (Glyphs * Rows)
      BY <1>4 DEF NextAdd
    <3>4. ac + 1 = GlyphAdd(call.k) + (call.n + 1)
      <4>1. GlyphAdd(call.k) \in Int /\ call.n \in Int
        BY <1>3, ConstantTypes DEF GlyphAdd
      <4> QED
        BY <1>4, <4>1
    <3>5. Glyphs * Rows \in Nat \ {0}
      BY ConstantTypes
    <3>6. (ac + 1) % (Glyphs * Rows) = ac + 1
      BY <3>2, <3>4, <3>5, ModBelow, Zenon DEF CGAddresses
    <3> QED
      BY <1>7, <3>3, <3>4, <3>6
  <2> QED
    BY <1>7, <1>10, <2>1, <2>2, Zenon DEF GlyphInv
<1>12. CallOK' /\ ShowInv'
  <2>1. call' \in Calls /\ call'.op # "StrShow"
    BY <1>10 DEF Calls, WrCalls, GlyphCalls
  <2> QED
    BY <1>0, <1>10, <2>1, Zenon DEF CallOK, ShowInv
<1>13. DisplayOK'
  BY <1>0, <1>1, UnmovedDisplay, Zenon
<1> QED
  BY <1>7, <1>8, <1>9, <1>11, <1>12, <1>13, InvParts, Zenon

LEMMA RdCGRAMRowStep ==
  ASSUME Inv, RdCGRAMRow
  PROVE  Inv' /\ ddram' = ddram /\ cgram' = cgram
<1>0. MemoryOK /\ DisplayOK /\ CallOK /\ GlyphInv
  BY InvParts, Zenon
<1> DEFINE q == Append(call.p, cgram[ac])
<1>1. /\ call.op = "RdCGRAM" /\ call.n < Rows /\ ReadData
      /\ Loop([call EXCEPT !.n = @ + 1, !.p = Append(@, cgram[ac])])
      /\ Unmoved
  BY Zenon DEF RdCGRAMRow
<1>2. call \in RdCalls
  BY <1>1, CallTypes, Zenon DEF Inv
<1>3. space = "CGRAM" /\ ac \in CGAddresses
  <2>1. space = "CGRAM"
    BY <1>0, <1>1 DEF GlyphInv
  <2> QED
    BY <1>0, <2>1 DEF MemoryOK
<1>4. q \in Seq(Chars \cup {Blank})
  <2>1. /\ call.p \in Seq(Chars \cup {Blank})
        /\ cgram[ac] \in Chars \cup {Blank}
    BY <1>0, <1>2, <1>3 DEF RdCalls, GlyphCalls, MemoryOK
  <2> QED
    BY <2>1, AppendProperties
<1>5. MemoryOK' /\ space' = "CGRAM"
  BY <1>0, <1>1, <1>3, DataType, Zenon
<1>6. ddram' = ddram /\ cgram' = cgram
  BY <1>1, Zenon DEF ReadData
<1>7. call' \in RdCalls /\ res' = res
  <2>1. /\ \/ call' = [call EXCEPT !.n = @ + 1, !.p = q]
           \/ call' = [call EXCEPT !.n = @ + 1, !.p = q, !.broken = TRUE]
        /\ res' = res
    BY <1>1 DEF Loop
  <2> DEFINE c1 == [call EXCEPT !.n = call.n + 1]
             c2 == [c1 EXCEPT !.p = q]
  <2>2. c1 \in RdCalls
    <3>1. call.n + 1 \in 0 .. Rows
      BY <1>1, <1>2, ConstantTypes DEF RdCalls, GlyphCalls
    <3> QED
      BY <1>2, <3>1 DEF RdCalls, GlyphCalls
  <2>3. call' = c2 \/ call' = [c2 EXCEPT !.broken = TRUE]
    BY <2>1
  <2> HIDE DEF c1, q
  <2>4. c2 \in RdCalls
    BY <1>4, <2>2 DEF RdCalls, GlyphCalls
  <2> HIDE DEF c2
  <2>5. [c2 EXCEPT !.broken = TRUE] \in RdCalls
    BY <2>4 DEF RdCalls, GlyphCalls
  <2> QED
    BY <2>1, <2>3, <2>4, <2>5, Zenon
<1>8. CallOK' /\ ShowInv' /\ GlyphInv'
  <2>1. /\ call' \in Calls /\ call'.op = "RdCGRAM"
    BY <1>7 DEF Calls, RdCalls, GlyphCalls
  <2> QED
    BY <1>0, <1>5, <1>7, <2>1 DEF CallOK, ShowInv, GlyphInv
<1>9. DisplayOK'
  BY <1>0, <1>1, UnmovedDisplay, Zenon
<1> QED
  BY <1>5, <1>6, <1>8, <1>9, InvParts, Zenon

LEMMA CloseCGRAMStep ==
  ASSUME Inv, CloseCGRAM
  PROVE  Inv' /\ call' = NoCall /\ ddram' = ddram /\ cgram' = cgram
<1>0. MemoryOK /\ DisplayOK /\ CallOK
  BY InvParts, Zenon
<1>1. /\ call.op \in {"WrCGRAM", "RdCGRAM"}
      /\ SetDDRamAdd(call.hold) /\ Unmoved
      /\ Return("error") \/ Return("ok")
  BY Zenon DEF CloseCGRAM
<1>2. call.hold \in DDAddresses \cup CGAddresses
  <2>1. call \in WrCalls \/ call \in RdCalls
    BY <1>1, CallTypes DEF Inv
  <2> QED
    BY <2>1 DEF WrCalls, RdCalls, GlyphCalls
<1>3. MemoryOK' /\ ddram' = ddram /\ cgram' = cgram
  BY <1>0, <1>1, <1>2, SetDDRamAddType, Zenon
<1>4. CallOK' /\ ShowInv' /\ GlyphInv' /\ call' = NoCall
  <2>1. "error" \in Results /\ "ok" \in Results
    BY DEF Results
  <2> QED
    BY <1>1, <2>1, ReturnInv, Zenon DEF Return
<1> QED
  BY <1>0, <1>1, <1>3, <1>4, UnmovedDisplay, InvParts, Zenon

LEMMA DisplayShiftStep ==
  ASSUME Inv, NEW d \in Shifts, DisplayShift(d)
  PROVE  Inv' /\ ddram' = ddram /\ cgram' = cgram
<1>0. MemoryOK /\ DisplayOK /\ CallOK
  BY InvParts, Zenon
<1>1. UNCHANGED <<lcdVars, ctrlVars, shiftFailed>>
  BY Zenon DEF DisplayShift
<1>2. /\ Unmoved /\ UNCHANGED <<ac, space, ddram, cgram>>
  BY <1>1 DEF lcdVars, Unmoved
<1>3. MemoryOK' /\ DisplayOK'
  BY <1>0, <1>2, UnmovedDisplay, UnchangedMemory, Zenon
<1>4. CallOK' /\ ShowInv' /\ GlyphInv'
  <2>1. CASE Return("error")
    BY <2>1, ReturnInv, Zenon DEF Results
  <2>2. ASSUME ~(d > MAX_LINE1_ADD \/ d < -MAX_LINE2_ADD),
               call' = [op |-> "DisplayShift", left |-> d < 0,
                        todo |-> IF d < 0 THEN -d ELSE d],
               res' = res
        PROVE  CallOK' /\ ShowInv' /\ GlyphInv'
    <3>1. (IF d < 0 THEN -d ELSE d) \in Nat
      BY LcdAssumption
    <3>2. (d < 0) \in BOOLEAN
      BY LcdAssumption
    <3>3. call' \in ShiftCalls
      BY <2>2, <3>1, <3>2, Zenon DEF ShiftCalls
    <3>4. call' \in Calls /\ call'.op = "DisplayShift"
      BY <3>3 DEF Calls, ShiftCalls
    <3> QED
      BY <1>0, <2>2, <3>4 DEF CallOK, ShowInv, GlyphInv
  <2> QED
    BY <2>1, <2>2, Zenon DEF DisplayShift
<1> QED
  BY <1>2, <1>3, <1>4, InvParts

(* The driver's position moves as the controller's does.                   *)
LEMMA ShiftMoves ==
  ASSUME DisplayOK, call.left \in BOOLEAN
  PROVE  /\ Moved(DisplayPos) \in 0 .. MAX_LINE1_ADD
         /\ DisplayPos = shift =>
              (shift + (IF call.left THEN 1 ELSE LineLength - 1)) % LineLength
                = Moved(DisplayPos)
         /\ (shift + (IF call.left THEN 1 ELSE LineLength - 1)) % LineLength
              \in 0 .. MAX_LINE1_ADD
<1>1. /\ DisplayPos \in 0 .. LineLength - 1 /\ shift \in 0 .. LineLength - 1
      /\ LineLength \in Nat \ {0} /\ MAX_LINE1_ADD = LineLength - 1
  BY ConstantTypes DEF DisplayOK
<1> DEFINE s == (shift + (IF call.left THEN 1 ELSE LineLength - 1)) % LineLength
<1>2. CASE call.left = TRUE
  <2>1. Moved(DisplayPos) = IF DisplayPos = MAX_LINE1_ADD THEN 0
                            ELSE DisplayPos + 1
    BY <1>2, Zenon DEF Moved
  <2>2. s = (shift + 1) % LineLength
    BY <1>2, Zenon
  <2>3. (shift + 1) % LineLength
          = IF shift % LineLength = LineLength - 1 THEN 0
            ELSE (shift % LineLength) + 1
    <3>1. shift \in Nat /\ LineLength \in Nat \ {0}
      BY <1>1
    <3> QED
      BY <3>1, ModNext, Zenon
  <2>4. shift % LineLength = shift
    BY <1>1, ModBelow
  <2> HIDE DEF s
  <2>5. s = IF shift = LineLength - 1 THEN 0 ELSE shift + 1
    BY <2>2, <2>3, <2>4
  <2> QED
    BY <1>1, <2>1, <2>5 DEF s
<1>3. CASE call.left = FALSE
  <2>1. Moved(DisplayPos) = IF DisplayPos = 0 THEN MAX_LINE1_ADD
                            ELSE DisplayPos - 1
    BY <1>3, Zenon DEF Moved
  <2>2. s = (shift + (LineLength - 1)) % LineLength
    BY <1>3, Zenon
  <2>3. CASE shift = 0
    <3>1. s = LineLength - 1
      <4>1. shift + (LineLength - 1) = LineLength - 1
              /\ LineLength - 1 \in 0 .. LineLength - 1
        BY <1>1, <2>3
      <4> QED
        BY <1>1, <2>2, <4>1, ModBelow, Zenon
    <3> HIDE DEF s
    <3> QED
      BY <1>1, <2>1, <2>3, <3>1 DEF s
  <2>4. CASE shift # 0
    <3>1. s = shift - 1
      <4>1. PICK r \in 0 .. LineLength - 1 : r = shift - 1
        BY <1>1, <2>4
      <4>2. (LineLength * 1 + r) % LineLength = r
        BY <1>1, Remainder
      <4>3. shift + (LineLength - 1) = LineLength * 1 + r
        BY <1>1, <4>1
      <4> QED
        BY <2>2, <4>1, <4>2, <4>3, Zenon
    <3> HIDE DEF s
    <3> QED
      BY <1>1, <2>1, <2>4, <3>1 DEF s
  <2> QED
    BY <2>3, <2>4
<1> QED
  BY <1>2, <1>3

LEMMA ShiftOnceStep ==
  ASSUME Inv, ShiftOnce
  PROVE  /\ Inv' /\ ddram' = ddram /\ cgram' = cgram
         /\ PositionTracked => PositionTracked'
<1>0. MemoryOK /\ DisplayOK /\ CallOK
  BY InvParts, Zenon
<1>1. /\ call.op = "DisplayShift" /\ call.todo > 0
      /\ shift' = (shift + (IF call.left THEN 1 ELSE LineLength - 1)) % LineLength
      /\ UNCHANGED <<ac, space, ddram, cgram, cursor, CursorMode>>
      /\ \/ /\ DisplayPos' = Moved(DisplayPos)
            /\ call' = [call EXCEPT !.todo = @ - 1]
            /\ UNCHANGED <<res, shiftFailed>>
         \/ /\ Return("error")
            /\ shiftFailed' = TRUE
            /\ UNCHANGED DisplayPos
  BY Zenon DEF ShiftOnce
<1>2. call \in ShiftCalls
  BY <1>1, CallTypes, Zenon DEF Inv
<1>3. call.left \in BOOLEAN
  BY <1>2 DEF ShiftCalls
<1>4. MemoryOK' /\ ddram' = ddram /\ cgram' = cgram
  BY <1>0, <1>1, UnchangedMemory
<1>5. shift' \in 0 .. MAX_LINE1_ADD
  BY <1>0, <1>1, <1>3, ShiftMoves, Zenon
<1>6. cursor' \in CursorModes /\ CursorMode' \in CursorModes
  BY <1>0, <1>1 DEF DisplayOK
<1>7. CASE /\ DisplayPos' = Moved(DisplayPos)
           /\ call' = [call EXCEPT !.todo = @ - 1]
           /\ UNCHANGED <<res, shiftFailed>>
  <2>1. res' = res /\ shiftFailed' = shiftFailed
    BY <1>7
  <2>2. DisplayOK'
    <3>1. /\ DisplayPos' \in 0 .. MAX_LINE1_ADD
          /\ shiftFailed' \in BOOLEAN
      BY <1>0, <1>3, <1>7, <2>1, ShiftMoves, Zenon DEF DisplayOK
    <3> QED
      BY <1>5, <1>6, <3>1, Zenon DEF DisplayOK
  <2>3. call' \in ShiftCalls
    <3>1. call.todo - 1 \in Nat
      BY <1>1, <1>2 DEF ShiftCalls
    <3> QED
      BY <1>2, <1>7, <3>1 DEF ShiftCalls
  <2>4. CallOK' /\ ShowInv' /\ GlyphInv'
    <3>1. call' \in Calls /\ call'.op = "DisplayShift"
      BY <2>3 DEF Calls, ShiftCalls
    <3> QED
      BY <1>0, <2>1, <3>1 DEF CallOK, ShowInv, GlyphInv
  <2>5. PositionTracked => PositionTracked'
    <3>1. DisplayPos = shift => DisplayPos' = shift'
      BY <1>0, <1>1, <1>3, <1>7, ShiftMoves, Zenon
    <3> QED
      BY <2>1, <3>1, Zenon DEF PositionTracked
  <2> QED
    BY <1>4, <2>2, <2>4, <2>5, InvParts, Zenon
<1>8. CASE Return("error") /\ shiftFailed' = TRUE /\ UNCHANGED DisplayPos
  <2>1. CallOK' /\ ShowInv' /\ GlyphInv'
    BY <1>8, ReturnInv, Zenon DEF Results
  <2>2. DisplayOK'
    <3>1. DisplayPos' \in 0 .. MAX_LINE1_ADD /\ shiftFailed' \in BOOLEAN
      BY <1>0, <1>8 DEF DisplayOK
    <3> QED
      BY <1>5, <1>6, <3>1, Zenon DEF DisplayOK
  <2>3. PositionTracked'
    BY <1>8, Zenon DEF PositionTracked
  <2> QED
    BY <1>4, <2>1, <2>2, <2>3, InvParts, Zenon
<1> QED
  BY <1>1, <1>7, <1>8, Zenon

LEMMA DisplayShiftEndStep ==
  ASSUME Inv, DisplayShiftEnd
  PROVE  Inv' /\ call' = NoCall /\ ddram' = ddram /\ cgram' = cgram
<1>0. MemoryOK /\ DisplayOK /\ CallOK
  BY InvParts, Zenon
<1>1. /\ Return("ok") /\ Unmoved /\ UNCHANGED <<ac, space, ddram, cgram>>
  BY DEF DisplayShiftEnd, lcdVars, Unmoved
<1>2. CallOK' /\ ShowInv' /\ GlyphInv' /\ call' = NoCall
  BY <1>1, ReturnInv, Zenon DEF Return, Results
<1>3. MemoryOK' /\ DisplayOK'
  BY <1>0, <1>1, UnmovedDisplay, UnchangedMemory, Zenon
<1> QED
  BY <1>1, <1>2, <1>3, InvParts

(* HD44780_ReturnToHome and HD44780_ClearDisplay.                          *)
LEMMA HomeStep ==
  ASSUME Inv, ReturnToHome \/ ClearDisplay
  PROVE  /\ Inv' /\ call' = NoCall /\ cgram' = cgram
         /\ ReturnToHome => ddram' = ddram
         /\ PositionTracked'
<1>0. MemoryOK /\ DisplayOK /\ CallOK
  BY InvParts, Zenon
<1>1. /\ DisplayPos' = 0 /\ shift' = 0 /\ shiftFailed' = FALSE
      /\ ac' = 0 /\ space' = "DDRAM"
      /\ Return("ok") \/ Return("error")
      /\ cgram' = cgram /\ cursor' = cursor /\ CursorMode' = CursorMode
  BY DEF ReturnToHome, ClearDisplay, Home
<1>2. ddram' \in [DDAddresses -> Chars \cup {Blank}]
  BY <1>0 DEF ReturnToHome, ClearDisplay, MemoryOK
<1>3. 0 \in DDAddresses /\ 0 \in 0 .. MAX_LINE1_ADD
  BY ConstantTypes DEF DDAddresses, Line
<1>4. MemoryOK' /\ DisplayOK'
  BY <1>0, <1>1, <1>2, <1>3 DEF MemoryOK, DisplayOK
<1>5. CallOK' /\ ShowInv' /\ GlyphInv' /\ call' = NoCall
  BY <1>1, ReturnInv, Zenon DEF Return, Results
<1>6. ReturnToHome => ddram' = ddram
  BY Zenon DEF ReturnToHome
<1>7. PositionTracked'
  BY <1>1, Zenon DEF PositionTracked
<1> QED
  BY <1>1, <1>4, <1>5, <1>6, <1>7, InvParts, Zenon

(* HD44780_CursorPosSet moves the cursor and the address counter only.     *)
LEMMA CursorSteps ==
  ASSUME Inv,
         \/ \E m \in CursorModes, x \in 1 .. LineLength, y \in {1, 2} :
              CursorPosSet(m, x, y)
         \/ CursorPosSetAdd
         \/ CursorPosSetMode
  PROVE  /\ Inv' /\ ddram' = ddram /\ cgram' = cgram
         /\ call' = NoCall \/ call' \in CursorCalls
         /\ shift' = shift /\ DisplayPos' = DisplayPos
         /\ shiftFailed' = shiftFailed
<1>0. MemoryOK /\ DisplayOK /\ CallOK
  BY InvParts, Zenon
<1>a. ASSUME NEW c \in CursorCalls, BusyCheck(c)
      PROVE  /\ CallOK' /\ ShowInv' /\ GlyphInv'
             /\ call' = NoCall \/ call' \in CursorCalls
  <2>1. /\ c \in Calls /\ c.op = "CursorPosSet"
    BY DEF Calls, CursorCalls
  <2>2. CallOK' /\ (call' = c \/ call' = NoCall)
    BY <1>0, <1>a, <2>1, BusyCheckResult, Zenon
  <2>3. CASE call' = c
    BY <2>1, <2>2, <2>3 DEF ShowInv, GlyphInv
  <2> QED
    BY <2>2, <2>3, OverInv, Zenon
<1>b. ASSUME cursor' \in CursorModes, CursorMode' \in CursorModes,
             UNCHANGED <<shift, DisplayPos, shiftFailed>>
      PROVE  DisplayOK'
  BY <1>0, <1>b DEF DisplayOK
<1>c. TRUE \in BOOLEAN /\ FALSE \in BOOLEAN
  OBVIOUS
<1>1. ASSUME NEW m \in CursorModes, NEW x \in 1 .. LineLength,
             NEW y \in {1, 2}, CursorPosSet(m, x, y)
      PROVE  /\ Inv' /\ ddram' = ddram /\ cgram' = cgram
             /\ call' = NoCall \/ call' \in CursorCalls
             /\ shift' = shift /\ DisplayPos' = DisplayPos
             /\ shiftFailed' = shiftFailed
  <2>1. UNCHANGED <<ac, space, ddram, cgram, shift, DisplayPos, shiftFailed>>
    BY <1>1, Zenon DEF CursorPosSet
  <2>2. CASE GetDDRamAdd(x, y) = Refused
    <3>1. Return("error") /\ UNCHANGED <<cursor, CursorMode>>
      BY <1>1, <2>2, Zenon DEF CursorPosSet
    <3>2. CallOK' /\ ShowInv' /\ GlyphInv' /\ call' = NoCall
      BY <3>1, ReturnInv, Zenon DEF Return, Results
    <3>3. DisplayOK' /\ MemoryOK'
      BY <1>0, <2>1, <3>1 DEF DisplayOK, MemoryOK
    <3> QED
      BY <2>1, <3>2, <3>3, InvParts
  <2>3. CASE GetDDRamAdd(x, y) # Refused
    <3> DEFINE c == [op |-> "CursorPosSet", m |-> m, set |-> FALSE,
                     add |-> GetDDRamAdd(x, y)]
    <3>1. /\ CursorMode' = [CursorMode EXCEPT !.on = FALSE]
          /\ cursor' = CursorMode' /\ BusyCheck(c)
      BY <1>1, <2>3, Zenon DEF CursorPosSet
    <3>2. c \in CursorCalls
      BY <2>3, GetDDRamAddType, <1>c, Zenon DEF CursorCalls
    <3> HIDE DEF c
    <3>3. CallOK' /\ ShowInv' /\ GlyphInv'
            /\ (call' = NoCall \/ call' \in CursorCalls)
      BY <1>a, <3>1, <3>2, Zenon
    <3>4. DisplayOK'
      <4>1. CursorMode' \in CursorModes
        BY <1>0, <3>1 DEF DisplayOK, CursorModes
      <4> QED
        BY <1>b, <2>1, <3>1, <4>1
    <3>5. MemoryOK'
      BY <1>0, <2>1, UnchangedMemory
    <3> QED
      BY <2>1, <3>3, <3>4, <3>5, InvParts
  <2> QED
    BY <2>2, <2>3
<1>2. ASSUME CursorPosSetAdd \/ CursorPosSetMode
      PROVE  /\ Inv' /\ ddram' = ddram /\ cgram' = cgram
             /\ call' = NoCall \/ call' \in CursorCalls
             /\ shift' = shift /\ DisplayPos' = DisplayPos
             /\ shiftFailed' = shiftFailed
  <2>1. call \in CursorCalls
    BY <1>2, CallTypes, Zenon DEF Inv, CursorPosSetAdd, CursorPosSetMode
  <2>2. call.m \in CursorModes /\ call.add \in DDAddresses
    BY <2>1 DEF CursorCalls
  <2>3. CASE CursorPosSetAdd
    <3>1. /\ SetDDRamAdd(call.add) /\ BusyCheck([call EXCEPT !.set = TRUE])
          /\ Unmoved
      BY <2>3, Zenon DEF CursorPosSetAdd
    <3>2. [call EXCEPT !.set = TRUE] \in CursorCalls
      BY <2>1 DEF CursorCalls
    <3>3. CallOK' /\ ShowInv' /\ GlyphInv'
            /\ (call' = NoCall \/ call' \in CursorCalls)
      BY <1>a, <3>1, <3>2, Zenon
    <3>4. MemoryOK' /\ ddram' = ddram /\ cgram' = cgram
      BY <1>0, <2>2, <3>1, SetDDRamAddType, Zenon
    <3>5. DisplayOK' /\ shift' = shift /\ DisplayPos' = DisplayPos
            /\ shiftFailed' = shiftFailed
      BY <1>0, <3>1, UnmovedDisplay DEF Unmoved, ctrlVars
    <3> QED
      BY <3>3, <3>4, <3>5, InvParts, Zenon
  <2>4. CASE CursorPosSetMode
    <3>1. /\ CursorMode' = call.m /\ cursor' = CursorMode'
          /\ Return("ok") \/ Return("error")
          /\ UNCHANGED <<ac, space, ddram, cgram, shift, DisplayPos, shiftFailed>>
      BY <2>4, Zenon DEF CursorPosSetMode
    <3>2. CallOK' /\ ShowInv' /\ GlyphInv' /\ call' = NoCall
      BY <3>1, ReturnInv, Zenon DEF Return, Results
    <3>3. DisplayOK' /\ MemoryOK'
      <4>1. UNCHANGED <<ac, space, ddram, cgram>>
              /\ UNCHANGED <<shift, DisplayPos, shiftFailed>>
        BY <3>1
      <4> QED
        BY <1>0, <1>b, <2>2, <3>1, <4>1, UnchangedMemory, Zenon
    <3> QED
      BY <3>1, <3>2, <3>3, InvParts
  <2> QED
    BY <1>2, <2>3, <2>4
<1> QED
  BY <1>1, <1>2, Zenon

(* Type correctness, and where the address counter is.                     *)
LEMMA DriverInv == Spec => []Inv
<1>1. Init => Inv
  <2> SUFFICES ASSUME Init PROVE Inv
    OBVIOUS
  <2>1. MemoryOK /\ DisplayOK
    <3>1. 0 \in DDAddresses /\ 0 \in 0 .. MAX_LINE1_ADD
      BY ConstantTypes DEF DDAddresses, Line
    <3>2. CursorOff \in CursorModes
      BY DEF CursorOff, CursorModes
    <3> QED
      BY <3>1, <3>2 DEF Init, MemoryOK, DisplayOK
  <2>2. CallOK /\ ShowInv /\ GlyphInv
    BY DEF Init, CallOK, Calls, Results, NoCall, ShowInv, GlyphInv
  <2> QED
    BY <2>1, <2>2, InvParts, Zenon
<1>2. Inv /\ [Next]_vars => Inv'
  <2> SUFFICES ASSUME Inv, [Next]_vars PROVE Inv'
    OBVIOUS
  <2>1. ASSUME NEW x \in 1 .. LineLength, NEW y \in {1, 2}, NEW s \in Strings,
               StrShow(x, y, s)
        PROVE  Inv'
    BY <2>1, StrShowStep
  <2>2. ASSUME NEW k \in 0 .. Glyphs - 1,
               RdCGRAM(k) \/ \E p \in Patterns : WrCGRAM(k, p)
        PROVE  Inv'
    BY <2>2, OpenStep
  <2>3. ASSUME NEW d \in Shifts, DisplayShift(d) PROVE Inv'
    BY <2>3, DisplayShiftStep
  <2>4. ASSUME ReturnToHome \/ ClearDisplay PROVE Inv'
    BY <2>4, HomeStep
  <2>5. ASSUME \/ \E m \in CursorModes, x \in 1 .. LineLength, y \in {1, 2} :
                    CursorPosSet(m, x, y)
               \/ CursorPosSetAdd
               \/ CursorPosSetMode
        PROVE  Inv'
    BY <2>5, CursorSteps
  <2>6. ASSUME Continue \/ Finish PROVE Inv'
    BY <2>5, <2>6, StrShowCharStep, StrShowWrapStep, StrShowEndStep,
       WrCGRAMRowStep, RdCGRAMRowStep, CloseCGRAMStep, ShiftOnceStep,
       DisplayShiftEndStep, Zenon DEF Continue, Finish
  <2>7. CASE UNCHANGED vars
    BY <2>7 DEF vars, lcdVars, ctrlVars, Inv, TypeOK, ShowInv, GlyphInv
  <2> QED
    BY <2>1, <2>2, <2>3, <2>4, <2>5, <2>6, <2>7, Zenon DEF Next
<1> QED
  BY <1>1, <1>2, PTL DEF Spec

(* Every state is of its types: the address counter never leaves the       *)
(* memory it addresses, and the position the driver keeps is one of a line.*)
THEOREM TypeCorrect == Spec => []TypeOK
<1>1. Inv => TypeOK
  BY DEF Inv
<1> QED
  BY <1>1, DriverInv, PTL

-----------------------------------------------------------------------------
(* The position the driver keeps is the controller's, unless a shift's     *)
(* busy check has failed since it was last reset.                          *)
THEOREM PositionCorrect == Spec => []PositionTracked
<1>1. Init => PositionTracked
  BY DEF Init, PositionTracked
<1>2. Inv /\ PositionTracked /\ [Next]_vars => PositionTracked'
  <2> SUFFICES ASSUME Inv, PositionTracked, [Next]_vars
               PROVE  PositionTracked'
    OBVIOUS
  <2>1. ASSUME shift' = shift, DisplayPos' = DisplayPos,
               shiftFailed' = shiftFailed
        PROVE  PositionTracked'
    BY <2>1, Zenon DEF PositionTracked
  <2>2. ASSUME Unmoved PROVE PositionTracked'
    BY <2>1, <2>2 DEF Unmoved, ctrlVars
  <2>3. ASSUME NEW x \in 1 .. LineLength, NEW y \in {1, 2}, NEW s \in Strings,
               StrShow(x, y, s)
        PROVE  PositionTracked'
    <3>1. (shift' = shift /\ cursor' = cursor) /\ UNCHANGED <<ctrlVars, shiftFailed>>
      <4>1. UNCHANGED lcdVars \/ UNCHANGED <<shift, cursor>>
        BY <2>3, Zenon DEF StrShow
      <4> QED
        BY <2>3, <4>1 DEF StrShow, lcdVars
    <3> QED
      BY <2>1, <3>1 DEF ctrlVars
  <2>4. ASSUME NEW k \in 0 .. Glyphs - 1,
               RdCGRAM(k) \/ \E p \in Patterns : WrCGRAM(k, p)
        PROVE  PositionTracked'
    BY <2>2, <2>4, Zenon DEF RdCGRAM, WrCGRAM, OpenCGRAM
  <2>5. ASSUME NEW d \in Shifts, DisplayShift(d) PROVE PositionTracked'
    <3>1. UNCHANGED <<lcdVars, ctrlVars, shiftFailed>>
      BY <2>5, Zenon DEF DisplayShift
    <3> QED
      BY <2>1, <3>1 DEF lcdVars, ctrlVars
  <2>6. ASSUME StrShowEnd \/ DisplayShiftEnd PROVE PositionTracked'
    <3>1. UNCHANGED <<lcdVars, ctrlVars, shiftFailed>>
      BY <2>6, Zenon DEF StrShowEnd, DisplayShiftEnd
    <3> QED
      BY <2>1, <3>1 DEF lcdVars, ctrlVars
  <2>7. ASSUME \/ StrShowChar \/ StrShowWrap \/ WrCGRAMRow \/ RdCGRAMRow
               \/ CloseCGRAM
        PROVE  PositionTracked'
    BY <2>2, <2>7, Zenon
    DEF StrShowChar, StrShowWrap, WrCGRAMRow, RdCGRAMRow, CloseCGRAM
  <2>8. ASSUME \/ \E m \in CursorModes, x \in 1 .. LineLength, y \in {1, 2} :
                    CursorPosSet(m, x, y)
               \/ CursorPosSetAdd
               \/ CursorPosSetMode
        PROVE  PositionTracked'
    BY <2>1, <2>8, CursorSteps, Zenon
  <2>9. CASE UNCHANGED vars
    BY <2>1, <2>9 DEF vars, lcdVars, ctrlVars
  <2> QED
    BY <2>3, <2>4, <2>5, <2>6, <2>7, <2>8, <2>9, ShiftOnceStep, HomeStep, Zenon
    DEF Next, Continue, Finish
<1> QED
  BY <1>1, <1>2, DriverInv, PTL DEF Spec

(* HD44780_CheckVisual is right about every address of both lines but the  *)
(* one to the right of the visible part, wherever the display stands, as   *)
(* long as the visible part does not run around the end of the line.       *)
THEOREM VisualCorrect == Spec => []VisualOffByOne
<1>1. Inv /\ PositionTracked => VisualOffByOne
  <2> SUFFICES ASSUME Inv, PositionTracked, ~shiftFailed,
                      DisplayPos + HORIZONTAL_SIZE <= LineLength,
                      NEW a \in DDAddresses
               PROVE  CheckVisual(a) = "ok"
                        <=> \/ Visible(a)
                            \/ Column(a) = DisplayPos + HORIZONTAL_SIZE
    BY DEF VisualOffByOne
  <2> DEFINE d == Column(a)
  <2>1. /\ DisplayPos = shift /\ shift \in 0 .. LineLength - 1
        /\ LineLength \in Nat \ {0} /\ HORIZONTAL_SIZE \in 1 .. LineLength
        /\ LineLength = MAX_LINE1_ADD + 1
        /\ DisplayPos + HORIZONTAL_SIZE <= LineLength
    BY ConstantTypes, InvParts DEF PositionTracked, DisplayOK
  <2>2. d \in 0 .. LineLength - 1
    BY ConstantTypes DEF Column, DDAddresses, Line
  <2>3. CheckVisual(a) = "ok" <=> d >= shift /\ d <= shift + HORIZONTAL_SIZE
    <3> DEFINE last == DisplayPos + HORIZONTAL_SIZE
               out == \/ /\ last > MAX_LINE1_ADD
                         /\ d > MAX_LINE1_ADD - DisplayPos /\ d < DisplayPos
                      \/ d < DisplayPos
                      \/ d > IF last > MAX_LINE1_ADD THEN MAX_LINE1_ADD ELSE last
    <3>1. CheckVisual(a) = IF out THEN "outOfVisual" ELSE "ok"
      BY Zenon DEF CheckVisual, Column
    <3>2. CheckVisual(a) = "ok" <=> ~out
      <4> HIDE DEF out
      <4> QED
        BY <3>1
    <3>3. ~out <=> d >= shift /\ d <= shift + HORIZONTAL_SIZE
      <4> HIDE DEF d
      <4>1. /\ d \in Int /\ d <= MAX_LINE1_ADD
            /\ shift \in Int /\ DisplayPos = shift /\ MAX_LINE1_ADD \in Int
            /\ last \in Int /\ last = shift + HORIZONTAL_SIZE
            /\ last <= MAX_LINE1_ADD + 1
        <5>1. d \in Int /\ d <= MAX_LINE1_ADD /\ MAX_LINE1_ADD \in Int
          BY <2>1, <2>2, ConstantTypes
        <5>2. shift \in Int /\ DisplayPos = shift
          BY <2>1
        <5>3. last \in Int /\ last = shift + HORIZONTAL_SIZE
          BY <2>1
        <5>4. last <= MAX_LINE1_ADD + 1
          BY <2>1
        <5> QED
          BY <5>1, <5>2, <5>3, <5>4
      <4> HIDE DEF last
      <4>2. CASE last > MAX_LINE1_ADD
        <5>1. out <=> d < shift
          BY <4>1, <4>2
        <5>2. d <= last
          BY <4>1, <4>2
        <5> HIDE DEF out
        <5> QED
          BY <4>1, <5>1, <5>2
      <4>3. CASE ~(last > MAX_LINE1_ADD)
        <5>1. out <=> d < shift \/ d > last
          BY <4>1, <4>3
        <5> HIDE DEF out
        <5> QED
          BY <4>1, <5>1
      <4> QED
        BY <4>2, <4>3
    <3> QED
      BY <3>2, <3>3, Zenon
  <2>4. Visible(a) <=> d >= shift /\ d < shift + HORIZONTAL_SIZE
    <3> DEFINE v == (d + LineLength - shift) % LineLength
    <3> HIDE DEF d
    <3>1. CASE d >= shift
      <4>1. PICK r \in 0 .. LineLength - 1 : r = d - shift
        BY <2>1, <2>2, <3>1
      <4>2. (LineLength * 1 + r) % LineLength = r
        BY <2>1, Remainder
      <4>3. d + LineLength - shift = LineLength * 1 + r
        BY <2>1, <2>2, <4>1
      <4>4. v = d - shift
        BY <4>1, <4>2, <4>3, Zenon
      <4> HIDE DEF v
      <4>5. v < HORIZONTAL_SIZE <=> d < shift + HORIZONTAL_SIZE
        BY <2>1, <2>2, <4>4
      <4> QED
        BY <3>1, <4>5, Zenon DEF Visible, v, d
    <3>2. CASE ~(d >= shift)
      <4>1. PICK r \in 0 .. LineLength - 1 : r = d + LineLength - shift
        BY <2>1, <2>2, <3>2
      <4>2. r % LineLength = r
        BY <2>1, ModBelow
      <4>3. v = d + LineLength - shift
        BY <4>1, <4>2, Zenon
      <4> HIDE DEF v
      <4>4. ~(v < HORIZONTAL_SIZE)
        BY <2>1, <2>2, <4>3
      <4> QED
        BY <3>2, <4>4, Zenon DEF Visible, v, d
    <3> QED
      BY <3>1, <3>2
  <2>5. d <= shift + HORIZONTAL_SIZE
          <=> d < shift + HORIZONTAL_SIZE \/ d = shift + HORIZONTAL_SIZE
    <3> HIDE DEF d
    <3> QED
      BY <2>1, <2>2
  <2>6. d = shift + HORIZONTAL_SIZE => d >= shift
    <3> HIDE DEF d
    <3> QED
      BY <2>1, <2>2
  <2> QED
    BY <2>1, <2>3, <2>4, <2>5, <2>6, Zenon
<1> QED
  BY <1>1, DriverInv, PositionCorrect, PTL

-----------------------------------------------------------------------------
(* The cells of a string, one after the other around the line.             *)

LEMMA CellInLine ==
  ASSUME NEW x \in 1 .. LineLength, NEW y \in {1, 2}, NEW i \in Nat \ {0}
  PROVE  /\ Cell(x, y, i) \in Line(y) /\ Cell(x, y, i) \in DDAddresses
         /\ Cell(x, y, i) = LineStart(y) + ((x + i - 2) % LineLength)
         /\ (x + i - 2) % LineLength \in 0 .. LineLength - 1
<1>1. x + i - 2 \in Nat
  BY ConstantTypes
<1>2. (x + i - 2) % LineLength \in 0 .. LineLength - 1
  BY <1>1, ConstantTypes, DivMod
<1>3. Cell(x, y, i) = LineStart(y) + ((x + i - 2) % LineLength)
  BY Zenon DEF Cell
<1>4. Cell(x, y, i) \in Line(y)
  BY <1>2, <1>3, ConstantTypes DEF Line, LineStart
<1>5. Cell(x, y, i) \in DDAddresses
  BY <1>4 DEF DDAddresses, Line
<1> QED
  BY <1>2, <1>3, <1>4, <1>5

LEMMA CellNext ==
  ASSUME NEW x \in 1 .. LineLength, NEW y \in {1, 2}, NEW i \in Nat \ {0}
  PROVE  Cell(x, y, i + 1) = IF Cell(x, y, i) = LineStart(y) + MAX_LINE1_ADD
                             THEN LineStart(y) ELSE Cell(x, y, i) + 1
<1> DEFINE m == (x + i - 2) % LineLength
<1>1. /\ Cell(x, y, i) = LineStart(y) + m /\ m \in 0 .. LineLength - 1
  BY CellInLine, Zenon
<1>2. i + 1 \in Nat \ {0}
  OBVIOUS
<1>3. Cell(x, y, i + 1) = LineStart(y) + ((x + (i + 1) - 2) % LineLength)
  BY <1>2, CellInLine, Zenon
<1>4. PICK a \in Nat : a = x + i - 2
  BY ConstantTypes
<1>5. (a + 1) % LineLength = IF a % LineLength = LineLength - 1 THEN 0
                             ELSE (a % LineLength) + 1
  BY ConstantTypes, ModNext, Zenon
<1>6. x + (i + 1) - 2 = a + 1
  BY <1>4
<1>7. m = a % LineLength
  BY <1>4, Zenon
<1> DEFINE m2 == (x + (i + 1) - 2) % LineLength
<1>8. m2 = IF m = LineLength - 1 THEN 0 ELSE m + 1
  BY <1>5, <1>6, <1>7, Zenon
<1>9. LineStart(y) \in Int
  BY ConstantTypes DEF LineStart
<1>10. Cell(x, y, i + 1) = LineStart(y) + m2
  BY <1>3, Zenon
<1> HIDE DEF m, m2
<1> QED
  BY <1>1, <1>8, <1>9, <1>10, ConstantTypes

LEMMA CellDistinct ==
  ASSUME NEW x \in 1 .. LineLength, NEW y \in {1, 2},
         NEW i \in Nat \ {0}, NEW j \in Nat \ {0}, i < j, j - i < LineLength
  PROVE  Cell(x, y, i) # Cell(x, y, j)
<1>1. PICK a \in Nat : a = x + i - 2
  BY ConstantTypes
<1>2. PICK b \in Nat : b = x + j - 2
  BY ConstantTypes
<1>3. a < b /\ b - a < LineLength
  BY <1>1, <1>2, ConstantTypes
<1>4. a % LineLength # b % LineLength
  BY <1>3, ConstantTypes, ModDistinct, Zenon
<1>5. /\ Cell(x, y, i) = LineStart(y) + (a % LineLength)
      /\ Cell(x, y, j) = LineStart(y) + (b % LineLength)
      /\ a % LineLength \in 0 .. LineLength - 1
      /\ b % LineLength \in 0 .. LineLength - 1
  BY <1>1, <1>2, CellInLine, Zenon
<1>6. LineStart(y) \in Int
  BY ConstantTypes DEF LineStart
<1> DEFINE p == a % LineLength
           q == b % LineLength
<1>7. p # q /\ p \in Int /\ q \in Int
      /\ Cell(x, y, i) = LineStart(y) + p /\ Cell(x, y, j) = LineStart(y) + q
  BY <1>4, <1>5, ConstantTypes
<1> HIDE DEF p, q
<1> QED
  BY <1>6, <1>7

(* A string under way stands where it was asked for, and the address       *)
(* counter at its next character, or on the other line, when that one is   *)
(* the first of the line.                                                  *)
Astray(y, a) ==
  \/ y = 1 /\ a > MAX_LINE1_ADD
  \/ y = 2 /\ a < MIN_LINE2_ADD

Written(c, m) ==
  \A i \in 1 .. c.n :
    c.n - i < LineLength => m[Cell(c.x, c.y, i)] = c.s[i]

AtNext(c) ==
  \/ c.add = Cell(c.x, c.y, c.n + 1)
  \/ Astray(c.y, c.add) /\ Cell(c.x, c.y, c.n + 1) = LineStart(c.y)

TextInv == call.op = "StrShow" => Written(call, ddram) /\ AtNext(call)

(* From the last cell of a line the address counter goes astray.           *)
LEMMA NextCell ==
  ASSUME NEW x \in 1 .. LineLength, NEW y \in {1, 2}, NEW i \in Nat \ {0},
         space = "DDRAM", ac = Cell(x, y, i)
  PROVE  \/ NextAdd = Cell(x, y, i + 1)
         \/ Astray(y, NextAdd) /\ Cell(x, y, i + 1) = LineStart(y)
<1>1. ac \in Line(y)
  BY CellInLine, Zenon
<1>2. Cell(x, y, i + 1) = IF ac = LineStart(y) + MAX_LINE1_ADD
                          THEN LineStart(y) ELSE ac + 1
  BY CellNext, Zenon
<1>3. NextAdd = IF ac = MAX_LINE1_ADD THEN MIN_LINE2_ADD
                ELSE IF ac = MAX_LINE2_ADD THEN 0 ELSE ac + 1
  BY DEF NextAdd
<1> DEFINE next == Cell(x, y, i + 1)
<1> HIDE DEF next
<1>4. CASE y = 1
  <2>1. LineStart(y) = 0 /\ ac \in 0 .. MAX_LINE1_ADD
    BY <1>1, <1>4 DEF LineStart, Line
  <2> QED
    BY <1>2, <1>3, <1>4, <2>1, ConstantTypes DEF Astray, next
<1>5. CASE y = 2
  <2>1. LineStart(y) = MIN_LINE2_ADD /\ ac \in MIN_LINE2_ADD .. MAX_LINE2_ADD
    BY <1>1, <1>5 DEF LineStart, Line
  <2> QED
    BY <1>2, <1>3, <1>5, <2>1, ConstantTypes DEF Astray, next
<1> QED
  BY <1>4, <1>5

LEMMA CellHere ==
  ASSUME Inv, TextInv, call.op = "StrShow", ~Crossed
  PROVE  /\ call.x \in 1 .. LineLength /\ call.y \in {1, 2}
         /\ call.n + 1 \in Nat \ {0}
         /\ ac = Cell(call.x, call.y, call.n + 1)
<1>1. /\ call \in ShowCalls /\ ac = call.add /\ call.n \in Nat
  BY ShowCall
<1>2. call.x \in 1 .. LineLength /\ call.y \in {1, 2}
  BY <1>1 DEF ShowCalls
<1>3. ~Astray(call.y, call.add)
  BY Zenon DEF Crossed, Astray
<1>4. ac = Cell(call.x, call.y, call.n + 1)
  BY <1>1, <1>3, Zenon DEF TextInv, AtNext
<1> QED
  BY <1>1, <1>2, <1>4

(* The character is written into its own cell, and into that of none of    *)
(* the last LineLength - 1 before it.                                      *)
LEMMA WriteKeepsText ==
  ASSUME Inv, TextInv, StrShowChar
  PROVE  TextInv'
<1>1. call.op = "StrShow" /\ ~Crossed
  BY Zenon DEF StrShowChar
<1> DEFINE x == call.x
           y == call.y
           n == call.n
<1>2. /\ x \in 1 .. LineLength /\ y \in {1, 2} /\ n + 1 \in Nat \ {0}
      /\ ac = Cell(x, y, n + 1)
  BY <1>1, CellHere, Zenon
<1>3. /\ ddram' = [ddram EXCEPT ![ac] = call.s[n + 1]]
      /\ \/ call' = NoCall
         \/ /\ call'.x = x /\ call'.y = y /\ call'.s = call.s
            /\ call'.n = n + 1 /\ call'.add = NextAdd
  BY StrShowCharStep, Zenon
<1>4. CASE call' = NoCall
  BY <1>4 DEF NoCall, TextInv
<1>5. CASE /\ call'.x = x /\ call'.y = y /\ call'.s = call.s
           /\ call'.n = n + 1 /\ call'.add = NextAdd
  <2>1. space = "DDRAM" /\ n \in Nat /\ ac \in DDAddresses
    BY <1>1, ShowCall
  <2>2. AtNext(call')
    <3>1. \/ NextAdd = Cell(x, y, n + 1 + 1)
          \/ Astray(y, NextAdd) /\ Cell(x, y, n + 1 + 1) = LineStart(y)
      BY <1>2, <2>1, NextCell, Zenon
    <3> QED
      BY <1>5, <3>1, Zenon DEF AtNext
  <2>3. Written(call', ddram')
    <3> SUFFICES ASSUME NEW i \in 1 .. call'.n, call'.n - i < LineLength
                 PROVE  ddram'[Cell(call'.x, call'.y, i)] = call'.s[i]
      BY Zenon DEF Written
    <3> SUFFICES ddram'[Cell(x, y, i)] = call.s[i]
      BY <1>5, Zenon
    <3>0. i \in 1 .. n + 1 /\ n + 1 - i < LineLength
      <4>1. call'.n = n + 1
        BY <1>5, Zenon
      <4>2. i \in 1 .. call'.n /\ call'.n - i < LineLength
        OBVIOUS
      <4> HIDE DEF n
      <4> QED
        BY <2>1, <4>1, <4>2
    <3>1. ddram \in [DDAddresses -> Chars \cup {Blank}]
      BY DEF Inv, TypeOK
    <3>2. CASE i = n + 1
      BY <1>2, <1>3, <2>1, <3>1, <3>2
    <3>3. CASE i # n + 1
      <4>1. /\ i \in 1 .. n /\ n - i < LineLength /\ i \in Nat \ {0}
            /\ i < n + 1 /\ (n + 1) - i < LineLength
        BY <1>2, <2>1, <3>0, <3>3, ConstantTypes
      <4>2. ddram[Cell(x, y, i)] = call.s[i]
        BY <1>1, <4>1, Zenon DEF TextInv, Written
      <4>3. Cell(x, y, i) # ac
        BY <1>2, <4>1, CellDistinct, Zenon
      <4>4. ddram'[Cell(x, y, i)] = ddram[Cell(x, y, i)]
        <5>1. Cell(x, y, i) \in DDAddresses
          BY <1>2, <4>1, CellInLine, Zenon
        <5> QED
          BY <1>3, <2>1, <3>1, <4>3, <5>1, Zenon
      <4> QED
        BY <4>2, <4>4, Zenon
    <3> QED
      BY <3>2, <3>3
  <2> QED
    BY <2>2, <2>3, Zenon DEF TextInv
<1> QED
  BY <1>3, <1>4, <1>5

LEMMA TextInvCorrect == Spec => []TextInv
<1>1. Init => TextInv
  BY DEF Init, NoCall, TextInv
<1>2. Inv /\ TextInv /\ [Next]_vars => TextInv'
  <2> SUFFICES ASSUME Inv, TextInv, [Next]_vars PROVE TextInv'
    OBVIOUS
  <2>1. ASSUME call' = NoCall \/ call'.op # "StrShow" PROVE TextInv'
    BY <2>1 DEF NoCall, TextInv
  <2>2. ASSUME NEW x \in 1 .. LineLength, NEW y \in {1, 2}, NEW s \in Strings,
               StrShow(x, y, s)
        PROVE  TextInv'
    <3> DEFINE a == GetDDRamAdd(x, y)
               c == [op |-> "StrShow", x |-> x, y |-> y, s |-> s, n |-> 0,
                     add |-> a, err |-> "ok"]
    <3>1. call' = NoCall \/ (a # Refused /\ call' = c)
      BY <2>2, StrShowStep, Zenon
    <3>2. CASE a # Refused /\ call' = c
      <4>1. a = Cell(x, y, 1)
        BY <3>2, GetDDRamAddType
      <4> HIDE DEF a
      <4>2. c.x = x /\ c.y = y /\ c.s = s /\ c.n = 0 /\ c.add = a
        OBVIOUS
      <4>3. AtNext(c)
        <5>1. c.n + 1 = 1
          BY <4>2
        <5> QED
          BY <4>1, <4>2, <5>1, Zenon DEF AtNext
      <4>4. Written(c, ddram')
        BY <4>2 DEF Written
      <4> HIDE DEF c
      <4> QED
        BY <3>2, <4>3, <4>4, Zenon DEF TextInv
    <3> QED
      BY <2>1, <3>1, <3>2, Zenon
  <2>3. CASE StrShowWrap
    <3>1. /\ ddram' = ddram
          /\ \/ call' = NoCall
             \/ /\ call' \in ShowCalls
                /\ call'.x = call.x /\ call'.y = call.y /\ call'.s = call.s
                /\ call'.n = call.n /\ call'.add = LineStart(call.y)
      BY <2>3, StrShowWrapStep, Zenon
    <3>2. CASE /\ call'.x = call.x /\ call'.y = call.y /\ call'.s = call.s
               /\ call'.n = call.n /\ call'.add = LineStart(call.y)
      <4>1. /\ call.op = "StrShow" /\ Astray(call.y, call.add)
        BY <2>3, Zenon DEF StrShowWrap, Crossed, Astray
      <4>2. /\ call \in ShowCalls /\ call.n \in Nat
        BY <4>1, ShowCall
      <4>3. Cell(call.x, call.y, call.n + 1) = LineStart(call.y)
        <5>1. CASE call.add = Cell(call.x, call.y, call.n + 1)
          <6>1. /\ call.x \in 1 .. LineLength /\ call.y \in {1, 2}
                /\ call.n + 1 \in Nat \ {0}
            BY <4>2 DEF ShowCalls
          <6>2. call.add \in Line(call.y)
            BY <5>1, <6>1, CellInLine, Zenon
          <6> QED
            BY <4>1, <6>1, <6>2, ConstantTypes DEF Astray, Line
        <5> QED
          BY <4>1, <5>1, Zenon DEF TextInv, AtNext
      <4>4. AtNext(call') /\ Written(call', ddram')
        BY <3>1, <3>2, <4>1, <4>3, Zenon DEF TextInv, AtNext, Written
      <4> QED
        BY <4>4, Zenon DEF TextInv
    <3> QED
      BY <2>1, <3>1, <3>2, Zenon
  <2>4. ASSUME NEW k \in 0 .. Glyphs - 1,
               RdCGRAM(k) \/ \E p \in Patterns : WrCGRAM(k, p)
        PROVE  TextInv'
    <3>1. call' = NoCall \/ call'.op \in {"WrCGRAM", "RdCGRAM"}
      BY <2>4 DEF RdCGRAM, WrCGRAM, OpenCGRAM, BusyCheck, Return
    <3> QED
      BY <2>1, <3>1
  <2>5. ASSUME NEW d \in Shifts, DisplayShift(d) PROVE TextInv'
    <3>1. call' = NoCall \/ call'.op = "DisplayShift"
      BY <2>5 DEF DisplayShift, Return
    <3> QED
      BY <2>1, <3>1
  <2>6. ASSUME \/ \E m \in CursorModes, x \in 1 .. LineLength, y \in {1, 2} :
                    CursorPosSet(m, x, y)
               \/ CursorPosSetAdd
               \/ CursorPosSetMode
        PROVE  TextInv'
    <3>1. call' = NoCall \/ call' \in CursorCalls
      BY <2>6, CursorSteps
    <3>2. call' \in CursorCalls => call'.op # "StrShow"
      BY DEF CursorCalls
    <3> QED
      BY <2>1, <3>1, <3>2
  <2>7. ASSUME \/ ReturnToHome \/ ClearDisplay
               \/ StrShowEnd \/ CloseCGRAM \/ DisplayShiftEnd
        PROVE  TextInv'
    BY <2>1, <2>7, HomeStep, StrShowEndStep, CloseCGRAMStep,
       DisplayShiftEndStep, Zenon
  <2>8. ASSUME WrCGRAMRow \/ RdCGRAMRow \/ ShiftOnce PROVE TextInv'
    <3>1. call.op \in {"WrCGRAM", "RdCGRAM", "DisplayShift"}
      BY <2>8 DEF WrCGRAMRow, RdCGRAMRow, ShiftOnce
    <3>2. call \in WrCalls \/ call \in RdCalls \/ call \in ShiftCalls
      BY <3>1, CallTypes DEF Inv
    <3>3. call' = NoCall \/ call'.op = call.op
      <4>1. CASE WrCGRAMRow
        BY <3>2, <4>1 DEF WrCGRAMRow, Loop, WrCalls, RdCalls, ShiftCalls,
                          GlyphCalls
      <4>2. CASE RdCGRAMRow
        BY <3>2, <4>2 DEF RdCGRAMRow, Loop, WrCalls, RdCalls, ShiftCalls,
                          GlyphCalls
      <4>3. CASE ShiftOnce
        BY <3>2, <4>3 DEF ShiftOnce, Return, WrCalls, RdCalls, ShiftCalls,
                          GlyphCalls
      <4> QED
        BY <2>8, <4>1, <4>2, <4>3
    <3> QED
      BY <2>1, <3>1, <3>3
  <2>9. CASE UNCHANGED vars
    BY <2>9 DEF vars, lcdVars, TextInv, Written, AtNext
  <2> QED
    BY <2>2, <2>3, <2>4, <2>5, <2>6, <2>7, <2>8, <2>9, WriteKeepsText, Zenon
    DEF Next, Continue, Finish
<1> QED
  BY <1>1, <1>2, DriverInv, PTL DEF Spec

(* A string stands where it was asked for, character by character, however *)
(* often it runs around its line and wherever the address counter was      *)
(* before, for every size of the display.                                  *)
THEOREM TextCorrect == Spec => []ShownAsAsked
<1>1. TextInv => ShownAsAsked
  BY Zenon DEF TextInv, Written, ShownAsAsked
<1> QED
  BY <1>1, TextInvCorrect, PTL

-----------------------------------------------------------------------------
(* What no operation may do to the memory of the controller.               *)

LEMMA MemoryStep ==
  ASSUME Inv, TextInv, [Next]_vars
  PROVE  /\ \A a \in DDAddresses :
              \/ ddram'[a] = ddram[a]
              \/ call.op = "StrShow" /\ a \in Line(call.y)
              \/ ClearDisplay
         /\ \A a \in CGAddresses :
              \/ cgram'[a] = cgram[a]
              \/ call.op = "WrCGRAM" /\ a \div Rows = call.k
<1> DEFINE Goal == /\ \A a \in DDAddresses :
                        \/ ddram'[a] = ddram[a]
                        \/ call.op = "StrShow" /\ a \in Line(call.y)
                        \/ ClearDisplay
                   /\ \A a \in CGAddresses :
                        \/ cgram'[a] = cgram[a]
                        \/ call.op = "WrCGRAM" /\ a \div Rows = call.k
<1> SUFFICES Goal
  OBVIOUS
<1>1. ASSUME ddram' = ddram, cgram' = cgram PROVE Goal
  BY <1>1, Zenon
<1>2. CASE StrShowChar
  <2>1. call.op = "StrShow" /\ ~Crossed
    BY <1>2, Zenon DEF StrShowChar
  <2>2. ac \in Line(call.y)
    BY <2>1, CellHere, CellInLine, Zenon
  <2>3. ddram' = [ddram EXCEPT ![ac] = call.s[call.n + 1]] /\ cgram' = cgram
    BY <1>2, StrShowCharStep, Zenon
  <2>4. ddram \in [DDAddresses -> Chars \cup {Blank}]
    BY DEF Inv, TypeOK
  <2>5. \A a \in DDAddresses : ddram'[a] = ddram[a] \/ a = ac
    BY <2>3, <2>4, Zenon
  <2> QED
    BY <2>1, <2>2, <2>3, <2>5, Zenon
<1>3. CASE WrCGRAMRow
  BY <1>3, WrCGRAMRowStep, Zenon DEF WrCGRAMRow
<1>4. CASE ClearDisplay
  BY <1>4, HomeStep, Zenon
<1>5. CASE UNCHANGED vars
  BY <1>1, <1>5 DEF vars, lcdVars
<1> HIDE DEF Goal
<1>6. ASSUME NEW x \in 1 .. LineLength, NEW y \in {1, 2}, NEW s \in Strings,
             StrShow(x, y, s)
      PROVE  Goal
  BY <1>1, <1>6, StrShowStep
<1>7. ASSUME NEW k \in 0 .. Glyphs - 1,
             RdCGRAM(k) \/ \E p \in Patterns : WrCGRAM(k, p)
      PROVE  Goal
  BY <1>1, <1>7, OpenStep
<1>8. ASSUME NEW d \in Shifts, DisplayShift(d) PROVE Goal
  BY <1>1, <1>8, DisplayShiftStep
<1>9. ASSUME \/ \E m \in CursorModes, x \in 1 .. LineLength, y \in {1, 2} :
                  CursorPosSet(m, x, y)
             \/ CursorPosSetAdd
             \/ CursorPosSetMode
      PROVE  Goal
  BY <1>1, <1>9, CursorSteps
<1>10. ASSUME \/ ReturnToHome \/ StrShowWrap \/ StrShowEnd \/ RdCGRAMRow
              \/ CloseCGRAM \/ ShiftOnce \/ DisplayShiftEnd
       PROVE  Goal
  BY <1>1, <1>10, HomeStep, StrShowWrapStep, StrShowEndStep, RdCGRAMRowStep,
     CloseCGRAMStep, ShiftOnceStep, DisplayShiftEndStep, Zenon
<1> QED
  BY <1>2, <1>3, <1>4, <1>5, <1>6, <1>7, <1>8, <1>9, <1>10, Zenon
  DEF Next, Continue, Finish

(* Showing a string changes no text but that of its line, and no other     *)
(* operation than clearing changes any, whatever busy checks fail and      *)
(* wherever the address counter was left by the operation before.          *)
THEOREM OtherTextCorrect == Spec => OtherTextKept
<1>1. Inv /\ TextInv /\ [Next]_vars =>
        [\A a \in DDAddresses :
           \/ ddram'[a] = ddram[a]
           \/ call.op = "StrShow" /\ a \in Line(call.y)
           \/ ClearDisplay]_vars
  BY MemoryStep, Zenon
<1> QED
  BY <1>1, DriverInv, TextInvCorrect, PTL DEF Spec, OtherTextKept

(* Defining a character pattern changes no row of another one.             *)
THEOREM GlyphsCorrect == Spec => GlyphsApart
<1>1. Inv /\ TextInv /\ [Next]_vars =>
        [\A a \in CGAddresses :
           \/ cgram'[a] = cgram[a]
           \/ call.op = "WrCGRAM" /\ a \div Rows = call.k]_vars
  BY MemoryStep, Zenon
<1> QED
  BY <1>1, DriverInv, TextInvCorrect, PTL DEF Spec, GlyphsApart
=============================================================================
