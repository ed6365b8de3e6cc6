------------------------------- MODULE Screen -------------------------------
(***************************************************************************)
(* What the display driver promises its callers: two lines of text,        *)
(* character patterns, how far the lines have slid, and a cursor.  No      *)
(* address counter, no addresses, no busy checks: a request leaves         *)
(* everything but its own business alone, does that from the first part to *)
(* the last, and may give up after any of them; it succeeds only when all  *)
(* is done.                                                                *)
(***************************************************************************)
EXTENDS Integers, Sequences

CONSTANTS Columns, Glyphs, Rows, Chars, Blank, Strings, Patterns, Shifts

VARIABLES
  text,     \* the character at each place
  pattern,  \* the dots of each row of each pattern
  left,     \* the leftmost visible column
  cursor,   \* its mode
  at,       \* its place, or nowhere in the text
  task,     \* the request under way
  result    \* of the last one

content == <<text, pattern>>
view == <<left, cursor, at>>

Places == {1, 2} \X (0 .. Columns - 1)

Nowhere == <<0, 0>>

NoText == [p \in Places |-> Blank]

PatternRows == (0 .. Glyphs - 1) \X (1 .. Rows)

Modes == [on : BOOLEAN, blink : BOOLEAN]

NoTask == [op |-> "none"]

ScreenInit ==
  /\ text = NoText
  /\ pattern = [r \in PatternRows |-> Blank]
  /\ left = 0 /\ at = <<1, 0>> /\ cursor = [on |-> FALSE, blink |-> FALSE]
  /\ task = NoTask /\ result = "ok"

Free == task.op = "none"

Over(r) == task' = NoTask /\ result' = r

(* On with the task, or out of it.                                         *)
Proceed(t) == (task' = t /\ UNCHANGED result) \/ Over("error")

(* Writing and reading, the cursor gets anywhere.                          *)
CursorStrays == at' \in Places \cup {Nowhere} /\ UNCHANGED <<left, cursor>>

-----------------------------------------------------------------------------
(* A string, from column x on, around the end of its line.                 *)

Show(x, y, s) ==
  /\ Free
  /\ Proceed([op |-> "show", x |-> x, y |-> y, s |-> s, n |-> 0])
  /\ CursorStrays /\ UNCHANGED content

PutChar ==
  /\ task.op = "show" /\ task.n < Len(task.s)
  /\ text' = [text EXCEPT ![<<task.y, (task.x + task.n) % Columns>>]
                = task.s[task.n + 1]]
  /\ Proceed([task EXCEPT !.n = @ + 1])
  /\ CursorStrays /\ UNCHANGED pattern

Shown ==
  /\ task.op = "show" /\ task.n = Len(task.s)
  /\ Over("ok") \/ Over("outOfVisual")
  /\ CursorStrays /\ UNCHANGED content

(* A character pattern, and reading one.                                   *)

Draw(k, p) ==
  /\ Free
  /\ Proceed([op |-> "draw", k |-> k, p |-> p, n |-> 0])
  /\ CursorStrays /\ UNCHANGED content

PutRow ==
  /\ task.op = "draw" /\ task.n < Rows
  /\ pattern' = [pattern EXCEPT ![<<task.k, task.n + 1>>] = task.p[task.n + 1]]
  /\ Proceed([task EXCEPT !.n = @ + 1])
  /\ CursorStrays /\ UNCHANGED text

Drawn ==
  /\ task.op = "draw" /\ task.n = Rows
  /\ Over("ok")
  /\ CursorStrays /\ UNCHANGED content

Read == Free /\ Proceed([op |-> "read"]) /\ CursorStrays /\ UNCHANGED content

HasRead == task.op = "read" /\ Over("ok") /\ CursorStrays /\ UNCHANGED content

(* Showing, drawing or reading can be given up between any two parts.      *)
GiveUp ==
  /\ task.op \in {"show", "draw", "read"}
  /\ Over("error")
  /\ CursorStrays /\ UNCHANGED content

-----------------------------------------------------------------------------
(* Sliding the lines, left or right, one column at a time.                 *)

Slide(d) ==
  /\ Free
  /\ Proceed([op |-> "slide", left |-> d < 0, todo |-> IF d < 0 THEN -d ELSE d])
  /\ UNCHANGED <<content, view>>

SlideOnce ==
  /\ task.op = "slide" /\ task.todo > 0
  /\ left' = (left + (IF task.left THEN 1 ELSE Columns - 1)) % Columns
  /\ Proceed([task EXCEPT !.todo = @ - 1])
  /\ UNCHANGED <<content, cursor, at>>

Slid ==
  /\ task.op = "slide" /\ task.todo = 0
  /\ Over("ok")
  /\ UNCHANGED <<content, view>>

(* Back to the beginning, with the text as it is, or none.                 *)

Begin(t) ==
  /\ Free
  /\ text' = t /\ left' = 0 /\ at' = <<1, 0>>
  /\ Over("ok") \/ Over("error")
  /\ UNCHANGED <<pattern, cursor>>

Home == Begin(text)

Clear == Begin(NoText)

(* The cursor: hidden, moved to place p, and shown in mode m.              *)

SetCursor(m, p) ==
  /\ Free
  /\ cursor' = [cursor EXCEPT !.on = FALSE]
  /\ Proceed([op |-> "cursor", m |-> m, p |-> p, moved |-> FALSE])
  /\ UNCHANGED <<content, left, at>>

MoveCursor ==
  /\ task.op = "cursor" /\ ~task.moved
  /\ at' = task.p
  /\ Proceed([task EXCEPT !.moved = TRUE])
  /\ UNCHANGED <<content, left, cursor>>

ShowCursor ==
  /\ task.op = "cursor" /\ task.moved
  /\ cursor' = task.m
  /\ Over("ok") \/ Over("error")
  /\ UNCHANGED <<content, left, at>>

Refuse == Free /\ Over("error") /\ UNCHANGED <<content, view>>

-----------------------------------------------------------------------------
Request ==
  \/ Refuse
  \/ \E x \in 0 .. Columns - 1, y \in {1, 2}, s \in Strings : Show(x, y, s)
  \/ \E k \in 0 .. Glyphs - 1, p \in Patterns : Draw(k, p)
  \/ Read
  \/ \E d \in Shifts : Slide(d)
  \/ Home \/ Clear
  \/ \E m \in Modes, p \in Places : SetCursor(m, p)

Work ==
  \/ PutChar \/ PutRow \/ SlideOnce \/ MoveCursor \/ ShowCursor
  \/ Shown \/ Drawn \/ HasRead \/ Slid
  \/ GiveUp

ScreenNext == (Free /\ Request) \/ Work

ScreenVars == <<content, view, task, result>>

ScreenSpec == ScreenInit /\ [][ScreenNext]_ScreenVars
=============================================================================
