------------------------------ MODULE Renderer ------------------------------
(***************************************************************************)
(* The renderer of pkg/ultraviolet: it remembers what it believes the      *)
(* terminal shows (buf, a function from rows to lines) and where the       *)
(* cursor is, and emits the commands that turn that into a new buffer.     *)
(* A renderer is a record r; every operator returns the renderer after the *)
(* method of the same name, its commands appended to r.out.                *)
(*                                                                         *)
(* nxterm uses it on the alternate screen only (NxtermModel.View sets      *)
(* AltScreen), so inline mode is left out but for the first move.  Every   *)
(* row is touched in every frame (StyledString.Draw sets each cell to nil  *)
(* first, and nil equals no cell), so Touched is not kept.  The lengths of *)
(* the sequences decide which of them is sent; those that pay off on long  *)
(* rows only are constants, so that short rows use them too.  Hyperlinks,  *)
(* which nxterm never draws, and colour profiles are left out.             *)
(***************************************************************************)
EXTENDS OuterTerminal

CONSTANTS
    EL1Bytes,       \* length of ansi.EraseLineLeft
    ECHBytes,       \* length of an ansi.EraseCharacter and the move after it
    REPBytes,       \* length of ansi.RepeatPreviousCharacter
    InlineBytes,    \* length of the shortest cursor movement (putRange)
    ICHBytes, DCHBytes, EL0Bytes,
    HasREP,         \* whether TERM promises REP (xtermCaps: not for xterm, screen, linux)
    MinHunk         \* lines that must move together to be scrolled (updateHashmap)
ASSUME RendererAssumption ==
    /\ {EL1Bytes, ECHBytes, REPBytes, InlineBytes, ICHBytes, DCHBytes, EL0Bytes} \subseteq Nat
    /\ REPBytes >= 2 /\ HasREP \in BOOLEAN /\ MinHunk \in Nat

Home == [x |-> -1, y |-> -1, pen |-> "n"]
NewRenderer == [cur |-> Home, saved |-> Home, phantom |-> FALSE, clear |-> FALSE,
                full |-> FALSE, buf |-> <<>>, out |-> <<>>]

Emit(r, cmds) == [r EXCEPT !.out = @ \o cmds]
SetCursor(r, x, y) == [r EXCEPT !.cur.x = x, !.cur.y = y]
LineAt(rows, y) == IF y \in DOMAIN rows THEN rows[y] ELSE <<>>
SetRow(r, y, line) == IF y \in DOMAIN r.buf THEN [r EXCEPT !.buf[y] = line] ELSE r

-----------------------------------------------------------------------------
(* Lines (buffer.go) *)

\* Line.Set: what is left of a wide cell, or of one that does not fit, is blank.
Put(line, x, cell) ==
    LET blank(c) == Cell(" ", c.s)
        start == CASE IsWide(line[x]) -> x
                   [] line[x] = Zero /\ IsWide(At(line, x - 1)) -> x - 1
                   [] OTHER -> -1
        l == [i \in DOMAIN line |-> IF start >= 0 /\ i \in start .. start + 1 THEN blank(line[start]) ELSE line[i]]
        n == WidthOf(cell)
    IN IF x \notin DOMAIN line THEN line
       ELSE IF cell = Nil THEN [l EXCEPT ![x] = EmptyCell]
       ELSE [i \in DOMAIN l |->
               CASE i = x -> IF x + n <= Cardinality(DOMAIN l) THEN cell ELSE blank(cell)
                 [] i = x + 1 /\ n = 2 -> Zero
                 [] OTHER -> l[i]]

\* StyledString.Draw on a cleared buffer: rows that are too long or too many are cut.
RECURSIVE DrawCells(_, _, _)
DrawCells(line, x, cells) ==
    IF cells = <<>> THEN line
    ELSE DrawCells(IF x \in DOMAIN line THEN Put(line, x, Head(cells)) ELSE line,
                   x + WidthOf(Head(cells)), Tail(cells))
Drawn(content, w, h) ==
    [y \in 0 .. h - 1 |->
        LET empty == [x \in 0 .. w - 1 |-> EmptyCell]
        IN IF y + 1 \in DOMAIN content THEN DrawCells(empty, 0, content[y + 1]) ELSE empty]

\* Buffer.Resize
Fitted(rows, w, h) == [y \in 0 .. h - 1 |-> [x \in 0 .. w - 1 |->
    IF y \in DOMAIN rows /\ x \in DOMAIN rows[y] THEN rows[y][x] ELSE EmptyCell]]

\* copy(old[first:], new[first:])
CopiedFrom(old, new, first) ==
    LET from == IF first \in DOMAIN old /\ first \in DOMAIN new THEN first ELSE 0
    IN [x \in DOMAIN old |-> IF x >= from /\ x \in DOMAIN new THEN new[x] ELSE old[x]]

CanClearWith(cell) == cell = Nil \/ (cell.c = " " /\ cell.s # "r")
HasWideCells(line) == \E x \in DOMAIN line : WidthOf(line[x]) # 1
ClearBlank(r) == Cell(" ", r.cur.pen)

-----------------------------------------------------------------------------
(* Moving the cursor *)

SetPen(r, s) == IF r.cur.pen = s THEN r ELSE [Emit(r, <<<<"sgr", s>>>>) EXCEPT !.cur.pen = s]
UpdatePen(r, cell) == SetPen(r, cell.s)
ResetPen(r) == SetPen(r, "n")

CostOf(c) ==
    CASE c[1] = "cup" -> 6 [] c[1] = "home" -> 3 [] c[1] = "cr" -> 1 [] c[1] = "lf" -> 1
      [] c[1] \in {"vpa", "cha"} -> 4 [] c[1] = "ri" -> 2 [] c[1] = "tabs" -> 2
      [] c[1] = "up" -> 3 [] c[1] \in {"right", "left"} -> IF c[2] > 1 THEN 4 ELSE 3
      [] c[1] = "text" -> IF IsWide(c[2]) THEN 4 ELSE WidthOf(c[2])
RECURSIVE Cost(_)
Cost(cmds) == IF cmds = <<>> THEN 0 ELSE CostOf(Head(cmds)) + Cost(Tail(cmds))
Cheaper(a, b) == IF Cost(b) < Cost(a) THEN b ELSE a     \* the first one when they tie

Copies(c, n) == [i \in 1 .. n |-> c]

Vertical(fy, ty) ==
    CASE ty = fy -> <<>>
      [] ty > fy -> IF ty - fy < 4 THEN Copies(<<"lf">>, ty - fy) ELSE <<<<"vpa", ty>>>>
      [] fy - ty = 1 -> IF fy > 1 THEN <<<<"ri">>>> ELSE <<<<"up">>>>
      [] OTHER -> <<<<"vpa", ty>>>>

\* The cells between the two columns, when writing them again needs no other style.
Overwriting(new, fx, tx, y) == [i \in 1 .. tx - fx |-> <<"text", At(LineAt(new, y), fx + i - 1)>>]
CanOverwrite(r, new, fx, tx, y) ==
    /\ new # <<>>
    /\ \A x \in fx .. tx - 1 : At(LineAt(new, y), x).s = r.cur.pen
Forward(r, new, fx, tx, y) ==
    LET direct == Cheaper(<<<<"cha", tx>>>>, <<<<"right", tx - fx>>>>)
    IN IF CanOverwrite(r, new, fx, tx, y)
       THEN Cheaper(direct, Overwriting(new, fx, tx, y)) ELSE direct
Horizontal(r, new, fx, tx, y) ==
    CASE tx = fx -> <<>>
      [] tx > fx -> Forward(r, new, fx, tx, y)
      [] OTHER -> Cheaper(<<<<"cha", tx>>>>, <<<<"left", fx - tx>>>>)
\* Rows shorter than a tab have one tab stop, their last column.
RelativeMove(r, new, fx, fy, tx, ty, tab) ==
    LET fx1 == IF ty > fy /\ ty - fy < 4 THEN 0 ELSE fx      \* tMapNewline
    IN Vertical(fy, ty) \o IF tab /\ tx > fx1 /\ tx = Width(new) - 1 THEN <<<<"tabs">>>>
                           ELSE Horizontal(r, new, fx1, tx, ty)

\* moveCursor: the cheapest of the methods, the earlier one when two cost the same: an absolute move,
\* and a relative one from the cursor, from column 0 and from the home position, first without tabs.
Relative(r, new, x, y, k) ==
    LET start == k % 3
        prefix == CASE start = 1 -> <<>> [] start = 2 -> <<<<"cr">>>> [] OTHER -> <<<<"home">>>>
    IN prefix \o RelativeMove(r, new, IF start = 1 THEN r.cur.x ELSE 0,
                              IF start = 0 THEN 0 ELSE r.cur.y, x, y, k > 3)
RECURSIVE Best(_, _, _, _, _)
Best(r, new, x, y, k) ==
    IF k = 0 THEN <<<<"cup", x, y>>>> ELSE Cheaper(Best(r, new, x, y, k - 1), Relative(r, new, x, y, k))
Route(r, new, x, y) ==
    IF ~r.full THEN <<<<"cr">>>> \o Copies(<<"lf">>, y)
    ELSE Best(r, new, x, y, IF r.cur.x = -1 \/ r.cur.y = -1 THEN 0 ELSE 6)
MoveCursor(r, new, x, y) ==
    IF x = r.cur.x /\ y = r.cur.y THEN r ELSE SetCursor(Emit(r, Route(r, new, x, y)), x, y)

\* Before a move: out of the column after the last one, onto a row of the screen.
Settled(r, h) ==
    [Emit(r, IF r.phantom THEN <<<<"cr">>>> ELSE <<>>)
       EXCEPT !.cur.x = IF r.phantom THEN 0 ELSE @, !.phantom = FALSE,
              !.cur.y = IF h > 0 THEN Least(@, h - 1) ELSE @]

Move(r, new, x0, y0) ==
    LET w == Most(Width(r.buf), Width(new))
        h == Most(Height(r.buf), Height(new))
        wraps == w > 0 /\ x0 >= w
        x == IF wraps THEN x0 % w ELSE x0
        y1 == IF wraps THEN y0 + (x0 \div w) ELSE y0
        y == IF h > 0 THEN Least(y1, h - 1) ELSE y1
        r1 == IF y1 # r.cur.y THEN ResetPen(r) ELSE r
    IN MoveCursor(Settled(r1, h), new, x, y)

-----------------------------------------------------------------------------
(* Writing cells *)

Advanced(r, new, n) == [r EXCEPT !.cur.x = @ + n, !.phantom = r.cur.x + n >= Width(new)]
PutAttrCell(r, new, cell) ==
    LET r1 == IF r.phantom THEN SetCursor(r, 0, r.cur.y + 1) ELSE r
    IN IF cell = Zero THEN r
       ELSE Advanced(Emit(UpdatePen(r1, cell), <<<<"text", cell>>>>), new, WidthOf(cell))

\* The last cell of the screen must not scroll it.
PutCellLR(r, new, cell) ==
    IF cell = Zero THEN r
    ELSE Emit([PutAttrCell(Emit(r, <<<<"autowrap", FALSE>>>>), new, cell) EXCEPT !.cur.x = r.cur.x, !.phantom = FALSE],
              <<<<"autowrap", TRUE>>>>)

PutCell(r, new, cell) ==
    IF r.full /\ r.cur.x = Width(new) - 1 /\ r.cur.y = Height(new) - 1
    THEN PutCellLR(r, new, cell) ELSE PutAttrCell(r, new, cell)

RECURSIVE PutAll(_, _, _, _, _)
PutAll(r, new, line, i, n) ==
    IF n = 0 THEN r ELSE PutAll(PutCell(r, new, line[i]), new, line, i + 1, n - 1)

\* As many of the n cells from i as equal the first one.
RunLength(line, i, n) ==
    CHOOSE k \in 1 .. n : /\ \A j \in i .. i + k - 1 : line[j] = line[i]
                          /\ k = n \/ line[i + k] # line[i]

Repeat(r, new, cell, count) ==
    LET wraps == r.cur.x + count >= Width(new)
        k == (IF wraps THEN count - 1 ELSE count) - 1
        r2 == Emit([PutCell(UpdatePen(r, cell), new, cell) EXCEPT !.cur.x = @ + k], <<<<"rep", cell, k>>>>)
    IN IF wraps THEN PutCell(r2, new, cell) ELSE r2

\* n cells of line from column i.  middle: the cursor was left before the end.
RECURSIVE EmitRange(_, _, _, _, _)
EmitRange(r, new, line, i, n) ==
    IF n <= 0 THEN [r |-> r, middle |-> FALSE]
    ELSE IF n = 1 \/ line[i] # line[i + 1]
    THEN EmitRange(PutCell(r, new, line[i]), new, line, i + 1, n - 1)
    ELSE LET count == RunLength(line, i, n)
             erased == Emit(UpdatePen(r, line[i]), <<<<"ech", count>>>>)
         IN IF count > ECHBytes /\ CanClearWith(line[i])
            THEN IF count = n THEN [r |-> erased, middle |-> TRUE]
                 ELSE EmitRange(Move(erased, new, erased.cur.x + count, erased.cur.y), new, line, i + count, n - count)
            ELSE IF HasREP /\ count > REPBytes
            THEN EmitRange(Repeat(r, new, line[i], count), new, line, i + count, n - count)
            ELSE EmitRange(PutAll(r, new, line, i, count), new, line, i + count, n - count)

\* Of the cells first..last, those up to the last one that differs.
PutRange(r, new, old, line, y, first, last) ==
    LET differ == {x \in first .. last : At(old, x) # line[x]}
        upTo == IF differ = {} THEN first - 1 ELSE CHOOSE x \in differ : \A d \in differ : d <= x
        end == IF last - first + 1 > InlineBytes THEN upTo ELSE last
    IN [EmitRange(r, new, line, first, end - first + 1) EXCEPT !.middle = @ \/ end # last]

AfterRange(res, new, x, y) == IF res.middle THEN Move(res.r, new, x, y) ELSE res.r

ClearToEnd(r, new, blank) ==
    LET y == r.cur.y
        xs == {x \in Most(0, r.cur.x) .. Width(new) - 1 : At(LineAt(r.buf, y), x) # blank}
        line == [x \in DOMAIN LineAt(r.buf, y) |-> IF x \in xs THEN blank ELSE r.buf[y][x]]
    IN IF xs = {} THEN r ELSE Emit(UpdatePen(SetRow(r, y, line), blank), <<<<"el0">>>>)

InsertCells(r, new, line, i, n) ==
    FoldLeft(LAMBDA a, k : PutAttrCell(a, new, line[i + k - 1]), Emit(r, <<<<"ich", n>>>>), [k \in 1 .. n |-> k])
DeleteCells(r, n) == Emit(r, <<<<"dch", n>>>>)

-----------------------------------------------------------------------------
(* One line *)

FirstOther(line, w, cell) ==
    LET xs == {x \in 0 .. w - 1 : At(line, x) # cell} IN IF xs = {} THEN w ELSE CHOOSE x \in xs : \A i \in xs : x <= i
FirstDiff(old, new, w) ==
    LET xs == {x \in 0 .. w - 1 : At(old, x) # At(new, x)} IN IF xs = {} THEN w ELSE CHOOSE x \in xs : \A i \in xs : x <= i
\* The last column after first whose cell fails to match, or first.
LastOther(line, w, first, cell) ==
    LET xs == {x \in first + 1 .. w - 1 : At(line, x) # cell} IN IF xs = {} THEN first ELSE CHOOSE x \in xs : \A i \in xs : i <= x
LastDiff(old, new, w, first) ==
    LET xs == {x \in first + 1 .. w - 1 : At(old, x) # At(new, x)} IN IF xs = {} THEN first ELSE CHOOSE x \in xs : \A i \in xs : i <= x

\* The last cells, from the right, that really differ.
RECURSIVE Back(_, _, _, _)
Back(old, new, o, n) ==
    IF o = -1 \/ n = -1 \/ At(new, n) # At(old, o) \/ At(new, n - 1) # At(old, o - 1)
    THEN <<o, n>> ELSE Back(old, new, o - 1, n - 1)

\* Leading blanks: erase to their left when that is shorter than printing them.
EraseLeft(r, new, y, oFirst, nFirst) ==
    LET blank == new[y][0]
        all == nFirst >= Width(new)
        r1 == UpdatePen(Move(r, new, IF all THEN 0 ELSE nFirst - 1, y), blank)
        line == [x \in DOMAIN LineAt(r.buf, y) |-> IF x \in oFirst .. nFirst - 1 THEN blank ELSE r.buf[y][x]]
    IN SetRow(Emit(r1, <<<<IF all THEN "el0" ELSE "el1">>>>), y, line)

\* The new line ends in a cell that no erase can make.
PrintMiddle(r, new, y, first) ==
    LET last == LastDiff(LineAt(r.buf, y), new[y], Width(new), first)
    IN PutRange(Move(r, new, first, y), new, LineAt(r.buf, y), new[y], y, first, last).r

\* The tails are the same but for their place: shift the old one.
ShiftTail(r, new, y, first, oLast0, nLast0, blank) ==
    LET old == LineAt(r.buf, y)
        back == Back(old, new[y], oLast0, nLast0)
        oLast == back[1]  nLast == back[2]
        n == Least(oLast, nLast)
        m == Most(nLast0, oLast0)
        r1 == IF n >= first THEN PutRange(Move(r, new, first, y), new, old, new[y], y, first, n).r ELSE r
        r2 == Move(r1, new, n + 1, y)
    IN CASE oLast < nLast ->
              IF nLast < nLast0 \/ ICHBytes + nLast - oLast > m - n
              THEN PutRange(r2, new, old, new[y], y, n + 1, m).r
              ELSE InsertCells(r2, new, new[y], n + 1, nLast - oLast)
         [] oLast > nLast ->
              IF DCHBytes + oLast - nLast > EL0Bytes + nLast0 - (n + 1)
              THEN ClearToEnd(AfterRange(PutRange(r2, new, old, new[y], y, n + 1, nLast0), new, nLast0 + 1, y), new, blank)
              ELSE DeleteCells(UpdatePen(r2, blank), oLast - nLast)
         [] OTHER -> r1

\* The new line ends in blanks: print up to the last cell that is not one, and clear.
PrintAndClear(r, new, y, first) ==
    LET w == Width(new)  old == LineAt(r.buf, y)  line == new[y]  blank == line[w - 1]
        oLast == LastOther(old, w, first, blank)
        nLast == LastOther(line, w, first, blank)
        r1 == Move(r, new, first, y)
        put == PutRange(r1, new, old, line, y, first, nLast)
    IN IF nLast = first /\ oLast > nLast
       THEN ClearToEnd(IF line[first] # blank THEN PutCell(r1, new, line[first]) ELSE r1, new, blank)
       ELSE IF nLast # oLast /\ line[nLast] # At(old, oLast)
       THEN IF oLast > nLast
            THEN ClearToEnd(AfterRange(put, new, nLast + 1, y), new, blank)
            ELSE put.r
       ELSE ShiftTail(r, new, y, first, oLast, nLast, blank)

LineCopied(r, y, line, first) == SetRow(r, y, CopiedFrom(LineAt(r.buf, y), line, first))

TransformLine(r, new, y) ==
    LET w == Width(new)  old == LineAt(r.buf, y)  line == new[y]
        oFirst == FirstOther(old, Width(r.buf), line[0])
        nFirst == FirstOther(line, w, line[0])
        erase == CanClearWith(line[0]) /\ oFirst < nFirst /\ EL1Bytes < nFirst - oFirst
        first == IF ~CanClearWith(line[0]) \/ oFirst = nFirst THEN FirstDiff(old, line, w)
                 ELSE IF erase THEN nFirst ELSE Least(oFirst, nFirst)
        r1 == IF erase THEN EraseLeft(r, new, y, oFirst, nFirst) ELSE r
        r2 == IF CanClearWith(line[w - 1]) THEN PrintAndClear(r1, new, y, first) ELSE PrintMiddle(r1, new, y, first)
        whole == EmitRange(Move(r, new, 0, y), new, line, 0, w).r
    IN IF HasWideCells(old) \/ HasWideCells(line) THEN SetRow(whole, y, CopiedFrom(old, line, 0))
       ELSE IF first >= w THEN r1
       ELSE LineCopied(r2, y, line, first)

-----------------------------------------------------------------------------
(* Clearing *)

Blanked(rows, area(_, _)) == [y \in DOMAIN rows |-> [x \in DOMAIN rows[y] |-> IF area(x, y) THEN EmptyCell ELSE rows[y][x]]]

ClearToBottom(r, blank) ==
    LET row == Most(0, r.cur.y)
        below(x, y) == y > row \/ (y = row /\ x >= r.cur.x)
    IN [Emit(UpdatePen(r, blank), <<<<"ed0">>>>) EXCEPT !.buf = Blanked(@, below)]

\* The first of the rows that are blank to the bottom, if one of them is not blank yet.
ClearBottom(r, new, total) ==
    LET blank == ClearBlank(r)
        cols == 0 .. Least(Width(r.buf), Width(new)) - 1
        isBlank(line) == \A x \in cols : At(line, x) = blank
        toBottom == {y \in 0 .. total - 1 : \A i \in y .. total - 1 : isBlank(LineAt(new, i))}
        changed == {y \in toBottom : ~isBlank(LineAt(r.buf, y))}
        top == CHOOSE y \in changed : \A i \in changed : y <= i
    IN IF ~CanClearWith(blank) \/ changed = {} THEN [r |-> r, top |-> total]
       ELSE [r |-> ClearToBottom(Move(r, new, 0, Most(0, top - 1)), blank), top |-> top]

ClearScreen(r) ==
    LET blank == ClearBlank(r)
    IN [SetCursor(Emit(r, <<<<"cup", 0, 0>>, <<"ed2">>>>), 0, 0)
          EXCEPT !.buf = Filled(Width(@), Height(@), blank)]

RECURSIVE TransformLines(_, _, _, _)
TransformLines(r, new, y, n) == IF y >= n THEN r ELSE TransformLines(TransformLine(r, new, y), new, y + 1, n)
UpdateLines(res, new) == TransformLines(res.r, new, 0, Least(res.top, Height(new)))

-----------------------------------------------------------------------------
(* Scrolling (terminal_renderer_hardscroll.go, terminal_renderer_hashmap.go) *)

NewIndex == -1
Hash(line) == [x \in DOMAIN line |-> line[x].c]         \* contents only, styles are not hashed

\* Lines that are in the old and in the new screen once.
Unique(r, new) ==
    [i \in DOMAIN new |->
        LET from == {j \in DOMAIN r.buf : Hash(r.buf[j]) = Hash(new[i])}
        IN IF Cardinality(from) = 1 /\ i \notin from
              /\ \A k \in DOMAIN new \ {i} : Hash(new[k]) # Hash(new[i])
           THEN CHOOSE j \in from : TRUE ELSE NewIndex]

Hunk(num, i) ==
    {j \in DOMAIN num : \A k \in Least(i, j) .. Most(i, j) : num[k] # NewIndex /\ num[k] - k = num[i] - i}
Distance(a, b) == IF a < b THEN b - a ELSE a - b
\* Hunks that are too small, or are moved too far, are not worth a scroll.
Worthwhile(num) ==
    [i \in DOMAIN num |->
        LET size == Cardinality(Hunk(num, i))
        IN IF num[i] = NewIndex \/ size < MinHunk \/ size + Least(size \div 8, 2) < Distance(num[i], i)
           THEN NewIndex ELSE num[i]]

UpdateCost(r, from, to) == Cardinality({x \in 0 .. Width(r.buf) - 1 : At(from, x) # At(to, x)})
UpdateCostBlank(r, to) == Cardinality({x \in 0 .. Width(r.buf) - 1 : At(to, x) # ClearBlank(r)})
CostEffective(r, new, num, from, to, blank) ==
    LET newFrom == IF num[from] = NewIndex THEN from ELSE num[from]
        before == (IF blank THEN UpdateCostBlank(r, new[to]) ELSE UpdateCost(r, r.buf[to], new[to]))
                  + UpdateCost(r, r.buf[newFrom], new[from])
        after == (IF newFrom = from THEN UpdateCostBlank(r, new[from]) ELSE UpdateCost(r, r.buf[newFrom], new[from]))
                 + UpdateCost(r, r.buf[from], new[to])
    IN from # to /\ before >= after

CanGrow(r, new, num, i, shift, blank) ==
    Hash(new[i]) = Hash(r.buf[i + shift]) \/ CostEffective(r, new, num, i + shift, i, blank)

\* A hunk takes the lines next to it, by step -1 or 1, as long as that pays off.
RECURSIVE Extend(_, _, _, _, _, _, _)
Extend(r, new, num, i, step, limit, shift) ==
    IF (IF step < 0 THEN i < limit ELSE i >= limit) \/ ~CanGrow(r, new, num, i, shift, step * shift > 0)
    THEN [num |-> num, i |-> i]
    ELSE Extend(r, new, [num EXCEPT ![i] = i + shift], i + step, step, limit, shift)

RECURSIVE GrowHunks(_, _, _, _, _, _)
GrowHunks(r, new, num, start, backLimit, backRef) ==
    LET h == Height(new)
        shift == num[start] - start
        end == CHOOSE e \in start + 1 .. h : /\ \A j \in start + 1 .. e - 1 : num[j] # NewIndex /\ num[j] - j = shift
                                             /\ e = h \/ num[e] = NewIndex \/ num[e] - e # shift
        next == CHOOSE e \in end .. h : (\A j \in end .. e - 1 : num[j] = NewIndex) /\ (e = h \/ num[e] # NewIndex)
        ref == IF next >= h \/ num[next] >= next THEN next ELSE num[next]
        back == Extend(r, new, num, start - 1, -1, IF shift < 0 THEN backRef - shift ELSE backLimit, shift)
        forth == Extend(r, new, back.num, end, 1, IF shift > 0 THEN ref - shift ELSE next, shift)
    IN IF start >= h THEN num
       ELSE GrowHunks(r, new, forth.num, next, forth.i, IF shift > 0 THEN forth.i + shift ELSE forth.i)
FirstHunk(num) == LET is == {i \in DOMAIN num : num[i] # NewIndex}
                  IN IF is = {} THEN Cardinality(DOMAIN num) ELSE CHOOSE i \in is : \A j \in is : i <= j
Grown(r, new, num) == GrowHunks(r, new, num, FirstHunk(num), 0, 0)

\* updateHashmap: for each line of the new screen the old line to make it from.
OldNum(r, new) == Grown(r, new, Worthwhile(Grown(r, new, Unique(r, new))))

\* scrollBuffer: n > 0 moves the rows top..bot up
ScrollBuffer(r, n, top, bot) ==
    [r EXCEPT !.buf = [y \in DOMAIN @ |->
        CASE y \notin top .. bot -> @[y]
          [] y + n \in top .. bot -> @[y + n]
          [] OTHER -> [x \in DOMAIN @[y] |-> ClearBlank(r)]]]

MoveEmit(r, new, y, cmd) == Emit(Move(r, new, 0, y), <<cmd>>)
SetMarginsInPlace(r, top, bot) == Emit(r, <<<<"margins", top, bot>>>>)      \* mutant: DECSTBM also homes the cursor
SetMargins(r, top, bot) == SetCursor(Emit(r, <<<<"margins", top, bot>>>>), -1, -1)

\* scrollUp and scrollDown: possible without margins when the rows reach the bottom.
ScrollUp(r, new, n, top, bot, minY) ==
    CASE top = minY /\ n = 1 -> MoveEmit(r, new, bot, <<"lf">>)
      [] top = minY -> MoveEmit(r, new, bot, <<"su", n>>)
      [] OTHER -> MoveEmit(r, new, top, <<"dl", n>>)
ScrollDown(r, new, n, top, minY) ==
    CASE top = minY /\ n = 1 -> MoveEmit(r, new, top, <<"ri">>)
      [] top = minY -> MoveEmit(r, new, top, <<"su", 0 - n>>)
      [] OTHER -> MoveEmit(r, new, top, <<"il", n>>)

Scrolln(r, new, n, top, bot) ==
    LET last == Height(new) - 1
        direct == bot = last
        r1 == IF direct THEN r ELSE SetMargins(r, top, bot)
        minY == IF direct THEN 0 ELSE top
        r2 == IF n > 0 THEN ScrollUp(r1, new, n, top, bot, minY) ELSE ScrollDown(r1, new, 0 - n, top, minY)
        r3 == IF direct THEN r2 ELSE SetMargins(r2, 0, last)
    IN ScrollBuffer(r3, n, top, bot)

\* Pass 1, from the top: hunks that move up.  Pass 2, from the bottom: those that move down.
RECURSIVE PassUp(_, _, _, _)
PassUp(r, new, num, i) ==
    LET bot == CHOOSE b \in Hunk(num, i) : \A j \in Hunk(num, i) : j <= b
        shift == num[i] - i
    IN IF i > Height(new) - 1 THEN r
       ELSE IF num[i] = NewIndex \/ num[i] <= i THEN PassUp(r, new, num, i + 1)
       ELSE PassUp(Scrolln(r, new, shift, i, bot + shift), new, num, bot + 1)
RECURSIVE PassDown(_, _, _, _)
PassDown(r, new, num, i) ==
    LET top == CHOOSE t \in Hunk(num, i) : \A j \in Hunk(num, i) : t <= j
        shift == num[i] - i
    IN IF i < 0 THEN r
       ELSE IF num[i] = NewIndex \/ num[i] >= i THEN PassDown(r, new, num, i - 1)
       ELSE PassDown(Scrolln(r, new, shift, top + shift, i), new, num, top - 1)
ScrollOptimize(r, new) ==
    LET num == OldNum(r, new) IN PassDown(PassUp(r, new, num, 0), new, num, Height(new) - 1)

-----------------------------------------------------------------------------

\* The rows of the wider or taller buffer that are copied from the new one start at the last old row.
SyncSize(r, new) ==
    LET h0 == Height(r.buf)
        fitted == Fitted(r.buf, Width(new), Height(new))
    IN IF Width(r.buf) = Width(new) /\ h0 = Height(new) THEN r
       ELSE [r EXCEPT !.buf = [y \in DOMAIN fitted |-> IF y >= h0 - 1 THEN new[y] ELSE fitted[y]]]

Render(r0, new) ==
    LET r == IF r0.buf = <<>> THEN [r0 EXCEPT !.buf = Filled(Width(new), Height(new), EmptyCell)] ELSE r0
        cleared == IF r.clear THEN ClearBottom(ClearScreen(r), new, Most(Height(r.buf), Height(new)))
                   ELSE ClearBottom(ScrollOptimize(r, new), new, Least(Height(r.buf), Height(new)))
    IN ResetPen(SyncSize([UpdateLines(cleared, new) EXCEPT !.clear = FALSE], new))

Erase(r) == [r EXCEPT !.clear = TRUE]
MoveTo(r, x, y) == Move(r, <<>>, x, y)
EnterAlt(r) == Erase([r EXCEPT !.saved = r.cur, !.full = TRUE])
ExitAlt(r) == [Erase(r) EXCEPT !.full = FALSE, !.cur = r.saved]
=============================================================================
