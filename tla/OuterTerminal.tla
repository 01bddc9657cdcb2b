--------------------------- MODULE OuterTerminal ---------------------------
(***************************************************************************)
(* The terminal nxterm runs in, as far as the renderer of pkg/ultraviolet  *)
(* and pkg/bubbletea rely on it: an xterm with back colour erase.  It is   *)
(* not part of the repository; each command is what the sequence of the    *)
(* same name does to the screen.  SetupRawTerminal leaves ONLCR on         *)
(* (internal/tui/rawio_unix.go), so a line feed also returns the carriage. *)
(*                                                                         *)
(* A cell is its content and its style.  A wide character holds its first  *)
(* cell and a Zero after it.  Style "g" is a background colour, "r" is     *)
(* reverse video, "n" no style at all.                                     *)
(***************************************************************************)
EXTENDS Integers, Sequences, FiniteSets, SequencesExt

Cell(c, s) == [c |-> c, s |-> s]
EmptyCell == Cell(" ", "n")
Zero == Cell("", "n")
Garbage == Cell("?", "n")     \* whatever a terminal leaves on the screen when it is resized
Nil == Cell("nil", "nil")     \* no such cell

IsWide(cell) == cell.c = "W"
WidthOf(cell) == CASE cell = Zero -> 0 [] IsWide(cell) -> 2 [] OTHER -> 1

\* Buffers are functions from rows, lines are functions from columns, both from 0.
At(line, x) == IF x \in DOMAIN line THEN line[x] ELSE Nil
Width(rows) == IF rows = <<>> THEN 0 ELSE Cardinality(DOMAIN rows[0])
Height(rows) == Cardinality(DOMAIN rows)
Filled(w, h, cell) == [y \in 0 .. h - 1 |-> [x \in 0 .. w - 1 |-> cell]]

Least(a, b) == IF a < b THEN a ELSE b
Most(a, b) == IF a < b THEN b ELSE a
Within(x, n) == Most(0, Least(x, n - 1))

\* What an erased cell shows: the background colour of the pen and nothing else of it.
Erased(pen) == Cell(" ", IF pen = "g" THEN "g" ELSE "n")

\* A wide character that lost one half leaves a blank.
Mended(line) ==
    [x \in DOMAIN line |->
        IF \/ IsWide(line[x]) /\ At(line, x + 1) # Zero
           \/ line[x] = Zero /\ ~IsWide(At(line, x - 1))
        THEN EmptyCell ELSE line[x]]

NewTerminal(w, h) ==
    [rows |-> Filled(w, h, EmptyCell), x |-> 0, y |-> 0, wrap |-> FALSE, pen |-> "n",
     top |-> 0, bot |-> h - 1, autowrap |-> TRUE,
     alt |-> FALSE, cursor |-> TRUE, mouse |-> "none", paste |-> FALSE,
     title |-> "shell", titles |-> <<>>, keys |-> [main |-> 0, alt |-> 0], sync |-> FALSE]

\* The window changes: some terminals scroll, some clip, some reflow.
Resized(t, w, h) ==
    [t EXCEPT !.rows = Filled(w, h, Garbage), !.x = Within(t.x, w), !.y = Within(t.y, h),
              !.wrap = FALSE, !.top = 0, !.bot = h - 1]

W(t) == Width(t.rows)
H(t) == Height(t.rows)
Goto(t, x, y) == [t EXCEPT !.x = Within(x, W(t)), !.y = Within(y, H(t)), !.wrap = FALSE]

\* Rows top..bot move up by n (down when n is negative).
Scrolled(t, top, bot, n) ==
    [t EXCEPT !.rows = [y \in DOMAIN @ |->
        CASE y \notin top .. bot -> @[y]
          [] y + n \in top .. bot -> @[y + n]
          [] OTHER -> [x \in DOMAIN @[y] |-> Erased(t.pen)]]]
Index(t) == IF t.y = t.bot THEN Scrolled(t, t.top, t.bot, 1) ELSE Goto(t, t.x, t.y + 1)
ReverseIndex(t) == IF t.y = t.top THEN Scrolled(t, t.top, t.bot, -1) ELSE Goto(t, t.x, t.y - 1)
LineFeed(t) == [Index(t) EXCEPT !.x = 0, !.wrap = FALSE]

SetLine(t, line) == [t EXCEPT !.rows[t.y] = Mended(line)]
EraseInLine(t, xs) == SetLine(t, [x \in DOMAIN t.rows[t.y] |-> IF x \in xs THEN Erased(t.pen) ELSE t.rows[t.y][x]])
EraseRows(t, ys) == [t EXCEPT !.rows = [y \in DOMAIN @ |-> IF y \in ys THEN [x \in DOMAIN @[y] |-> Erased(t.pen)] ELSE @[y]]]

\* One character at the cursor, first wrapping when the last one filled the row.
Write(t0, cell) ==
    LET t == IF t0.wrap THEN LineFeed(t0) ELSE t0
        n == WidthOf(cell)
        fits == t.x + n <= W(t)
        line == [x \in DOMAIN t.rows[t.y] |->
                    CASE x = t.x -> cell [] x = t.x + 1 /\ n = 2 -> Zero [] OTHER -> t.rows[t.y][x]]
        full == t.x + n >= W(t)
    IN IF ~fits THEN t
       ELSE [SetLine(t, line) EXCEPT !.x = IF full THEN W(t) - 1 ELSE t.x + n,
                                     !.wrap = full /\ t.autowrap]

ShiftRight(t, n) == SetLine(t, [x \in DOMAIN t.rows[t.y] |->
    CASE x < t.x -> t.rows[t.y][x] [] x < t.x + n -> Erased(t.pen) [] OTHER -> t.rows[t.y][x - n]])
ShiftLeft(t, n) == SetLine(t, [x \in DOMAIN t.rows[t.y] |->
    CASE x < t.x -> t.rows[t.y][x] [] x + n < W(t) -> t.rows[t.y][x + n] [] OTHER -> Erased(t.pen)])

Repeated(t0, cell, n) == FoldLeft(LAMBDA t, i : Write(t, cell), t0, [i \in 1 .. n |-> i])

Screen(t) == IF t.alt THEN "alt" ELSE "main"

Exec(t, c) ==
    LET op == c[1] IN
    CASE op = "text" -> Write(t, Cell(c[2].c, t.pen))
      [] op = "rep"  -> Repeated(t, Cell(c[2].c, t.pen), c[3])
      [] op = "sgr"  -> [t EXCEPT !.pen = c[2]]
      [] op = "cup"  -> Goto(t, c[2], c[3])
      [] op = "cha"  -> Goto(t, c[2], t.y)
      [] op = "vpa"  -> Goto(t, t.x, c[2])
      [] op = "right" -> Goto(t, t.x + c[2], t.y)
      [] op = "left" -> Goto(t, t.x - c[2], t.y)
      [] op = "up"   -> Goto(t, t.x, t.y - 1)
      [] op = "cr"   -> Goto(t, 0, t.y)
      [] op = "home" -> Goto(t, 0, 0)
      [] op = "tabs" -> Goto(t, W(t) - 1, t.y)
      [] op = "lf"   -> LineFeed(t)
      [] op = "ri"   -> ReverseIndex(t)
      [] op = "il"   -> Scrolled(t, t.y, t.bot, 0 - c[2])
      [] op = "dl"   -> Scrolled(t, t.y, t.bot, c[2])
      [] op = "su"   -> Scrolled(t, t.top, t.bot, c[2])
      [] op = "margins" -> [t EXCEPT !.top = c[2], !.bot = Least(c[3], H(t) - 1), !.x = 0, !.y = 0, !.wrap = FALSE]
      [] op = "el0"  -> EraseInLine(t, t.x .. W(t) - 1)
      [] op = "el1"  -> EraseInLine(t, 0 .. t.x)
      [] op = "ech"  -> EraseInLine(t, t.x .. t.x + c[2] - 1)
      [] op = "ed0"  -> EraseRows(EraseInLine(t, t.x .. W(t) - 1), t.y + 1 .. H(t) - 1)
      [] op = "ed2"  -> EraseRows(t, 0 .. H(t) - 1)
      [] op = "ich"  -> ShiftRight(t, c[2])
      [] op = "dch"  -> ShiftLeft(t, c[2])
      [] op = "autowrap" -> [t EXCEPT !.autowrap = c[2]]
      [] op = "alt"  -> [t EXCEPT !.alt = c[2], !.rows = IF c[2] THEN Filled(W(t), H(t), EmptyCell) ELSE @]
      [] op = "cursor" -> [t EXCEPT !.cursor = c[2]]
      [] op = "mouse" -> [t EXCEPT !.mouse = c[2]]
      [] op = "paste" -> [t EXCEPT !.paste = c[2]]
      [] op = "sync" -> [t EXCEPT !.sync = c[2]]
      [] op = "title" -> [t EXCEPT !.title = c[2]]
      [] op = "pushTitle" -> [t EXCEPT !.titles = Append(@, t.title)]
      [] op = "popTitle" -> IF t.titles = <<>> THEN t
                            ELSE [t EXCEPT !.title = t.titles[Len(t.titles)], !.titles = SubSeq(@, 1, Len(@) - 1)]
      [] op = "keys" -> [t EXCEPT !.keys[Screen(t)] = c[2]]

RECURSIVE ExecAll(_, _)
ExecAll(t, cs) == IF cs = <<>> THEN t ELSE ExecAll(Exec(t, Head(cs)), Tail(cs))
=============================================================================
