------------------------------- MODULE Screen -------------------------------
(***************************************************************************)
(* The terminal emulator's screen (pkg/te/screen.go) as pure operators on  *)
(* a record: one operator per method, the receiver first.  The fields keep *)
(* the names of the struct; a buffer is a function of rows, a row a        *)
(* function of columns, both counted from 0 as in the code.                *)
(*                                                                         *)
(* A cell is [d, a]: d the runes it holds (<<>> is the continuation of a   *)
(* wide character, <<" ">> a blank), a the set of attribute flags that are *)
(* on.  A cluster is the sequence of runes of one grapheme: "W" is two     *)
(* columns wide, "+" combines with what precedes it, "z" has no width and  *)
(* does not combine, every other rune is one column wide.                  *)
(*                                                                         *)
(* An index out of range panics.  The step that would panic returns the    *)
(* screen as the panic leaves it with panicked set, and nothing that       *)
(* follows it in the same method runs (Then).                              *)
(*                                                                         *)
(* Left out: Dirty (no caller), pixel geometry, wording of the replies.    *)
(***************************************************************************)
EXTENDS Integers, SequencesExt

CONSTANT WideColumns      \* the width DECCOLM selects (132 in the code)
ASSUME WideColumnsAssumption == WideColumns \in Nat \ {0}

TabWidth == 8
NoMargins == <<>>         \* the nil Margins
NoBuffer  == <<>>         \* the nil altBuffer
NoCursor  == <<>>         \* the nil altSavedCursor
NoColumns == 0            \* the nil SavedColumns
NilMap    == {-1}         \* a nil map (of rows, of columns): writing to it panics
Blank == <<" ">>
Cont  == <<>>

MaxOf(a, b) == IF a > b THEN a ELSE b
MinOf(a, b) == IF a < b THEN a ELSE b
Clamp(x, lo, hi) == MaxOf(lo, MinOf(x, hi))
AtLeast1(n) == IF n <= 0 THEN 1 ELSE n
Then(s, F(_)) == IF s.panicked THEN s ELSE F(s)
Panic(s) == [s EXCEPT !.panicked = TRUE]

-----------------------------------------------------------------------------
(* Cells and rows                                                          *)

Has(s, m) == m \in s.mode
Width(d) == CASE \E i \in DOMAIN d : d[i] = "W" -> 2
              [] \A i \in DOMAIN d : d[i] \in {"+", "z"} -> 0
              [] OTHER -> 1
Combining(d) == d /= <<>> /\ \A i \in DOMAIN d : d[i] = "+"

PlainAttr == {}
DefaultAttr(s) == IF Has(s, "DECSCNM") THEN {"reverse"} ELSE {}
DefaultCell(s) == [d |-> Blank, a |-> DefaultAttr(s)]
\* Erasing keeps the current background only.
BceAttr(s) == DefaultAttr(s) \union (s.attr \intersect {"bg"})
BlankLine(cols, cell) == [c \in 0 .. cols - 1 |-> cell]
BlankBuffer(lines, cols) ==
    [r \in 0 .. lines - 1 |-> BlankLine(cols, [d |-> Blank, a |-> PlainAttr])]
RowsOf(buf) == IF buf = NoBuffer THEN 0 ELSE Cardinality(DOMAIN buf)

FitRowsWidth(buf, cols, blank) ==
    [r \in DOMAIN buf |-> [c \in 0 .. cols - 1 |->
        IF c \in DOMAIN buf[r] THEN buf[r][c] ELSE blank]]
\* Mutant: a shrink keeps the top rows.
RowsFromTop(buf, from, lines, blankRow) ==
    [r \in 0 .. lines - 1 |-> IF r \in DOMAIN buf THEN buf[r] ELSE blankRow]
\* The rows of buf from row `from` on, and blank rows up to `lines`.
RowsFrom(buf, from, lines, blankRow) ==
    [r \in 0 .. lines - 1 |->
        IF r + from \in DOMAIN buf THEN buf[r + from] ELSE blankRow]

\* The buffer with F(r, c) in the cells of rows x cols that exist.
SetCells(s, rows, cols, F(_, _)) ==
    [s EXCEPT !.buf = [r \in DOMAIN s.buf |->
        IF r \notin rows THEN s.buf[r]
        ELSE [c \in DOMAIN s.buf[r] |->
                 IF c \in cols THEN F(r, c) ELSE s.buf[r][c]]]]

Protected(s, r, c, private) ==
    (IF private THEN "prot" ELSE "iso") \in s.buf[r][c].a
Erase(s, rows, cols, private) ==
    SetCells(s, rows, cols, LAMBDA r, c :
        IF Protected(s, r, c, private) THEN s.buf[r][c]
        ELSE [d |-> Blank, a |-> BceAttr(s)])

\* Mutant: only the head's own continuation is cleared.
ClearTailOnly(line, col) ==
    IF col + 1 \in DOMAIN line /\ Width(line[col].d) = 2
    THEN [line EXCEPT ![col + 1].d = Blank] ELSE line
ClearWidePairAt(line, col) ==
    IF col \notin DOMAIN line THEN line
    ELSE LET tail == IF Width(line[col].d) = 2 /\ col + 1 \in DOMAIN line
                     THEN [line EXCEPT ![col + 1].d = Blank] ELSE line
         IN  IF tail[col].d = Cont /\ col > 0 /\ Width(tail[col - 1].d) = 2
             THEN [tail EXCEPT ![col - 1].d = Blank] ELSE tail

-----------------------------------------------------------------------------
(* Margins and the cursor                                                  *)

ScrollTop(s)    == IF s.margins = NoMargins THEN 0 ELSE s.margins[1]
ScrollBottom(s) == IF s.margins = NoMargins THEN s.lines - 1 ELSE s.margins[2]
Left(s)  == IF Has(s, "DECLRMM") THEN s.leftMargin ELSE 0
Right(s) == IF Has(s, "DECLRMM") THEN s.rightMargin ELSE s.columns - 1
BetweenMargins(s) == s.col >= Left(s) /\ s.col <= Right(s)
CanScrollHorizontal(s) == ~Has(s, "DECLRMM") \/ BetweenMargins(s)
InScrollRegion(s) == s.row >= ScrollTop(s) /\ s.row <= ScrollBottom(s)

EnsureHB(s) ==
    IF Has(s, "DECLRMM")
    THEN [s EXCEPT !.col =
             CASE @ < Left(s)  -> MaxOf(0, @)
               [] @ > Right(s) -> MinOf(@, s.columns - 1)
               [] OTHER        -> @]
    ELSE [s EXCEPT !.col = Clamp(@, 0, s.columns - 1)]
EnsureVB(s, useMargins) ==
    IF (useMargins \/ Has(s, "DECOM")) /\ s.margins /= NoMargins
    THEN [s EXCEPT !.row = Clamp(@, s.margins[1], s.margins[2])]
    ELSE [s EXCEPT !.row = Clamp(@, 0, s.lines - 1)]

CursorPosition(s, line, column) ==
    LET row == AtLeast1(line) - 1
             + (IF s.margins /= NoMargins /\ Has(s, "DECOM") THEN s.margins[1] ELSE 0)
        col == AtLeast1(column) - 1
             + (IF Has(s, "DECOM") /\ Has(s, "DECLRMM") THEN s.leftMargin ELSE 0)
        outside == \/ /\ s.margins /= NoMargins /\ Has(s, "DECOM")
                      /\ row > s.margins[2]
                   \/ /\ Has(s, "DECOM") /\ Has(s, "DECLRMM")
                      /\ col > s.rightMargin
    IN  IF outside THEN [s EXCEPT !.wrapNext = FALSE]
        ELSE EnsureVB(EnsureHB([s EXCEPT !.wrapNext = FALSE,
                                         !.row = row, !.col = col]), FALSE)

CursorToColumn(s, value) ==
    EnsureHB([s EXCEPT !.wrapNext = FALSE,
        !.col = AtLeast1(value) - 1
              + (IF Has(s, "DECOM") /\ Has(s, "DECLRMM") THEN s.leftMargin ELSE 0)])
CursorToColumnAbsolute(s, value) ==
    [s EXCEPT !.wrapNext = FALSE, !.col = MinOf(AtLeast1(value) - 1, s.columns - 1)]
CursorToLine(s, line) ==
    EnsureVB([s EXCEPT !.wrapNext = FALSE,
        !.row = AtLeast1(line) - 1
              + (IF Has(s, "DECOM") /\ s.margins /= NoMargins THEN s.margins[1] ELSE 0)],
        FALSE)

CarriageReturn(s) ==
    [s EXCEPT !.wrapNext = FALSE,
              !.col = IF Has(s, "DECLRMM") /\ (Has(s, "DECOM") \/ s.col >= s.leftMargin)
                      THEN s.leftMargin ELSE 0]
CursorUp(s, n) ==
    [s EXCEPT !.wrapNext = FALSE,
              !.row = MaxOf(@ - AtLeast1(n),
                            IF InScrollRegion(s) THEN ScrollTop(s) ELSE 0)]
CursorDown(s, n) ==
    [s EXCEPT !.wrapNext = FALSE,
              !.row = MinOf(@ + AtLeast1(n),
                            IF InScrollRegion(s) THEN ScrollBottom(s) ELSE s.lines - 1)]
CursorUp1(s, n) == CarriageReturn(CursorUp(s, n))
CursorDown1(s, n) == CarriageReturn(CursorDown(s, n))
CursorForward(s, n) ==
    [s EXCEPT !.wrapNext = FALSE,
              !.col = MinOf(@ + AtLeast1(n),
                            IF Has(s, "DECLRMM") /\ BetweenMargins(s)
                            THEN Right(s) ELSE s.columns - 1)]

\* reverseWrapToPreviousLine: where a leftward move from column 0 goes.
ReverseWrap(s) ==
    LET target == IF Has(s, "RevExtend") /\ s.row = ScrollTop(s)
                  THEN ScrollBottom(s) ELSE s.row - 1
    IN  IF \/ target < 0 \/ target >= s.lines
           \/ ~Has(s, "RevExtend") /\ target \notin s.lineWrapped
        THEN s ELSE [s EXCEPT !.row = target, !.col = Right(s)]
MoveLeft1(s) ==
    LET wraps == Has(s, "DECAWM") /\ (Has(s, "RevInline") \/ Has(s, "RevExtend"))
    IN  CASE s.wrapNext /\ wraps ->
               [s EXCEPT !.wrapNext = FALSE,
                         !.col = IF @ = Right(s) + 1 THEN Right(s) ELSE @]
          [] s.wrapNext /\ ~wraps ->
               [s EXCEPT !.wrapNext = FALSE,
                         !.col = IF @ = Right(s) + 1 THEN MaxOf(Left(s), Right(s) - 1)
                                 ELSE MaxOf(@ - 1, 0)]
          [] OTHER ->
               CASE s.col = Right(s) + 1 -> [s EXCEPT !.col = Right(s)]
                 [] s.col /= Right(s) + 1 /\ s.col > 0 /\ s.col /= Left(s) ->
                        [s EXCEPT !.col = @ - 1]
                 [] OTHER -> IF wraps THEN ReverseWrap(s) ELSE s
CursorBack(s, n) == FoldLeft(LAMBDA t, i : MoveLeft1(t), s,
                             [i \in 1 .. AtLeast1(n) |-> i])
Backspace(s) == MoveLeft1(s)

-----------------------------------------------------------------------------
(* Scrolling: rows top..bottom move by n inside the columns of the margins *)

ShiftRows(s, top, bottom, n) ==          \* n > 0 moves the content up
    SetCells(s, top .. bottom, Left(s) .. Right(s), LAMBDA r, c :
        IF r + n \in top .. bottom THEN s.buf[r + n][c] ELSE DefaultCell(s))

Index(s) ==
    LET t == [s EXCEPT !.wrapNext = FALSE]
    IN  CASE s.row = ScrollBottom(s) ->
               IF CanScrollHorizontal(s)
               THEN ShiftRows(t, ScrollTop(s), ScrollBottom(s), 1) ELSE t
          [] s.row /= ScrollBottom(s) /\ s.row < s.lines - 1 ->
               [t EXCEPT !.row = @ + 1]
          [] OTHER -> t
ReverseIndex(s) ==
    LET t == [s EXCEPT !.wrapNext = FALSE]
    IN  CASE s.row = ScrollTop(s) ->
               IF CanScrollHorizontal(s)
               THEN ShiftRows(t, ScrollTop(s), ScrollBottom(s), -1) ELSE t
          [] s.row /= ScrollTop(s) /\ s.row > 0 -> [t EXCEPT !.row = @ - 1]
          [] OTHER -> t
LineFeed(s) ==
    LET t == Index(s)
    IN  IF Has(s, "LNM") THEN CarriageReturn(t) ELSE t
ScrollUp(s, n) ==
    ShiftRows(s, ScrollTop(s), ScrollBottom(s),
              MinOf(AtLeast1(n), ScrollBottom(s) - ScrollTop(s) + 1))
ScrollDown(s, n) ==
    ShiftRows(s, ScrollTop(s), ScrollBottom(s),
              -MinOf(AtLeast1(n), ScrollBottom(s) - ScrollTop(s) + 1))

EditsHere(s) == InScrollRegion(s) /\ CanScrollHorizontal(s)
InsertLines(s, n) ==
    IF ~EditsHere(s) THEN s
    ELSE CarriageReturn(ShiftRows(s, s.row, ScrollBottom(s), -AtLeast1(n)))
DeleteLines(s, n) ==
    IF ~EditsHere(s) THEN s
    ELSE CarriageReturn(ShiftRows(s, s.row, ScrollBottom(s), AtLeast1(n)))

-----------------------------------------------------------------------------
(* Shifting characters within rows.  With a right margin beyond the row    *)
(* the loops index past it: Shift...Panics is what they did before.        *)

ShiftLeft(s, rows, from, right, n) ==
    LET moved(r, c) == IF c + n <= right THEN s.buf[r][c + n] ELSE DefaultCell(s)
        first == {r \in rows : \A q \in rows : r <= q}
    IN  IF right < s.columns THEN SetCells(s, rows, from .. right, moved)
        ELSE IF from <= right - n
        THEN Panic(SetCells(s, first, from .. s.columns - 1 - n, moved))
        ELSE Panic(SetCells(s, first, from .. right, LAMBDA r, c : DefaultCell(s)))
ShiftRight(s, rows, from, right, n) ==
    LET moved(r, c) == IF c - n >= from THEN s.buf[r][c - n] ELSE DefaultCell(s)
        first == {r \in rows : \A q \in rows : r <= q}
    IN  IF right < s.columns THEN SetCells(s, rows, from .. right, moved)
        ELSE IF right >= from + n THEN Panic(s)
        ELSE Panic(SetCells(s, first, from .. right, LAMBDA r, c : DefaultCell(s)))

EditsChars(s) == BetweenMargins(s) /\ (Has(s, "DECLRMM") => InScrollRegion(s))
RoomRight(s, n) == MinOf(AtLeast1(n), Right(s) - s.col + 1)
InsertCharacters(s, n) ==
    IF ~EditsChars(s) THEN s
    ELSE ShiftRight(s, {s.row}, s.col, Right(s), RoomRight(s, n))
DeleteCharacters(s, n) ==
    IF ~EditsChars(s) THEN s
    ELSE ShiftLeft(s, {s.row}, s.col, Right(s), RoomRight(s, n))
EditsColumns(s) == EditsHere(s) /\ s.col <= Right(s) /\ Left(s) <= Right(s)
InsertColumns(s, n) ==
    IF ~EditsColumns(s) THEN s
    ELSE ShiftRight(s, ScrollTop(s) .. ScrollBottom(s), s.col, Right(s), RoomRight(s, n))
DeleteColumns(s, n) ==
    IF ~EditsColumns(s) THEN s
    ELSE ShiftLeft(s, ScrollTop(s) .. ScrollBottom(s), s.col, Right(s), RoomRight(s, n))

\* DECFI / DECBI: at the margin the region shifts sideways (shiftHorizontal
\* clips its columns to the row).
ForwardIndex(s) ==
    LET right == MinOf(Right(s), s.columns - 1)
    IN  CASE Has(s, "DECLRMM") /\ ~BetweenMargins(s) ->
               [s EXCEPT !.col = IF @ < s.columns - 1 THEN @ + 1 ELSE @]
          [] CanScrollHorizontal(s) /\ s.col < Right(s) -> [s EXCEPT !.col = @ + 1]
          [] OTHER -> IF Left(s) > right THEN s
                      ELSE ShiftLeft(s, ScrollTop(s) .. ScrollBottom(s), Left(s), right, 1)
BackIndex(s) ==
    LET right == MinOf(Right(s), s.columns - 1)
    IN  CASE Has(s, "DECLRMM") /\ ~BetweenMargins(s) -> [s EXCEPT !.col = MaxOf(@ - 1, 0)]
          [] CanScrollHorizontal(s) /\ s.col > Left(s) -> [s EXCEPT !.col = @ - 1]
          [] OTHER -> IF Left(s) > right THEN s
                      ELSE ShiftRight(s, ScrollTop(s) .. ScrollBottom(s), Left(s), right, 1)

-----------------------------------------------------------------------------
(* Erasing                                                                 *)

EraseCharacters(s, n) ==
    IF s.col > s.columns - 1 THEN s
    ELSE Erase(s, {s.row}, s.col .. MinOf(s.col + AtLeast1(n) - 1, s.columns - 1), FALSE)
LineSpan(s, how) == CASE how = 0 -> s.col .. s.columns - 1
                      [] how = 1 -> 0 .. MinOf(s.col, s.columns - 1)
                      [] how = 2 -> 0 .. s.columns - 1
                      [] OTHER   -> {}
EraseInLine(s, how, private) == Erase(s, {s.row}, LineSpan(s, how), private)
EraseInDisplayWith(s, asked, private) ==
    LET how  == IF asked = 3 THEN 2 ELSE asked
        rows == CASE how = 0 -> s.row + 1 .. s.lines - 1
                  [] how = 1 -> 0 .. s.row - 1
                  [] how = 2 -> 0 .. s.lines - 1
                  [] OTHER   -> {}
        t    == IF how \in {0, 1} THEN EraseInLine(s, how, private) ELSE s
    IN  Erase(t, rows, 0 .. s.columns - 1, private)
EraseInDisplay(s, how, private) == EraseInDisplayWith(s, how, private)
EraseInDisplaySelective(s, how) ==
    IF how = 3 THEN s ELSE EraseInDisplayWith(s, how, TRUE)
AlignmentDisplay(s) ==
    CursorPosition([SetCells(s, DOMAIN s.buf, 0 .. s.columns - 1,
                             LAMBDA r, c : [s.buf[r][c] EXCEPT !.d = <<"E">>])
                    EXCEPT !.margins = NoMargins, !.leftMargin = 0,
                           !.rightMargin = s.columns - 1,
                           !.lineWrapped = {}, !.wrapNext = FALSE], 0, 0)

\* The rectangle operations: 1-based bounds, 0 for "the whole screen",
\* relative to the margins in origin mode.
OriginShift(s) ==
    IF Has(s, "DECOM") /\ s.margins /= NoMargins
    THEN <<s.margins[1], IF Has(s, "DECLRMM") THEN s.leftMargin ELSE 0>> ELSE <<0, 0>>
OrElse(x, default) == IF x <= 0 THEN default ELSE x
RectRows(s, top, bottom) ==
    (OrElse(top, 1) + OriginShift(s)[1] - 1)
      .. MinOf(OrElse(bottom, s.lines) + OriginShift(s)[1], s.lines) - 1
RectCols(s, left, right) ==
    (OrElse(left, 1) + OriginShift(s)[2] - 1)
      .. MinOf(OrElse(right, s.columns) + OriginShift(s)[2], s.columns) - 1
SelectiveEraseRectangle(s, top, left, bottom, right) ==
    SetCells(s, RectRows(s, top, bottom), RectCols(s, left, right), LAMBDA r, c :
        IF "prot" \in s.buf[r][c].a THEN s.buf[r][c] ELSE DefaultCell(s))
FillRectangle(s, ch, top, left, bottom, right) ==
    SetCells(s, RectRows(s, top, bottom), RectCols(s, left, right), LAMBDA r, c :
        IF "prot" \in s.buf[r][c].a THEN s.buf[r][c] ELSE [s.buf[r][c] EXCEPT !.d = ch])
EraseRectangle(s, top, left, bottom, right) ==
    FillRectangle(s, Blank, top, left, bottom, right)
CopyRectangle(s, top, left, bottom, right, dstTop, dstLeft) ==
    LET dr == OrElse(dstTop, 1) - OrElse(top, 1)
        dc == OrElse(dstLeft, 1) - OrElse(left, 1)
        rows == RectRows(s, top, bottom)
        cols == RectCols(s, left, right)
    IN  SetCells(s, {r + dr : r \in rows}, {c + dc : c \in cols},
                 LAMBDA r, c : s.buf[r - dr][c - dc])

-----------------------------------------------------------------------------
(* Drawing                                                                 *)

\* DefineCharset / ShiftIn / ShiftOut / translate: "vt100" turns the letters
\* into line-drawing runes.
DefineCharset(s, code, slot) ==
    IF code \notin {"lat1", "vt100"} THEN s
    ELSE CASE slot = "(" -> [s EXCEPT !.g0 = code]
           [] slot = ")" -> [s EXCEPT !.g1 = code]
           [] OTHER -> s
ShiftIn(s)  == [s EXCEPT !.charset = 0]
ShiftOut(s) == [s EXCEPT !.charset = 1]
Translate(s, cluster) ==
    IF (IF s.charset = 1 THEN s.g1 ELSE s.g0) = "lat1" THEN cluster
    ELSE [i \in DOMAIN cluster |-> IF cluster[i] = "a" THEN "line" ELSE cluster[i]]

SetLine(s, row, line) == [s EXCEPT !.buf[row] = line]
CombineAt(s, c, row, col) ==
    CASE row < 0 -> s
      [] row >= 0 /\ col >= s.columns -> Panic(s)
      [] OTHER -> [s EXCEPT !.buf[row][col].d = @ \o c]
Combine(s, c) ==           \* a combining cluster joins the cell before the cursor
    IF s.col > 0 THEN CombineAt(s, c, s.row, s.col - 1)
    ELSE CombineAt(s, c, s.row - 1, s.columns - 1)

\* Mutant: the limit is one column too far.
DrawLimitPast(s) == IF Has(s, "DECLRMM") THEN s.rightMargin ELSE s.columns
DrawLimit(s) == IF Has(s, "DECLRMM") THEN s.rightMargin ELSE s.columns - 1
WrapPending(s) ==
    LineFeed(CarriageReturn([s EXCEPT !.wrapNext = FALSE]))
\* A wide cluster does not fit in the last column: blank it and wrap.
MarkWrapped(s) ==
    IF s.lineWrapped = NilMap THEN Panic(s)
    ELSE [s EXCEPT !.lineWrapped = @ \union {s.row}]
WrapWide(s) ==
    IF s.col >= s.columns THEN Panic(s)
    ELSE Then(MarkWrapped([s EXCEPT !.buf[s.row][s.col] = DefaultCell(s)]),
              LAMBDA t : LineFeed(CarriageReturn(t)))
PutCluster(s, c) ==
    LET w    == Width(c)
        row  == s.row
        col  == s.col
        one  == ClearWidePairAt(s.buf[row], col)
        two  == IF w = 2 /\ col + 1 < s.columns
                THEN [ClearWidePairAt(one, col + 1)
                         EXCEPT ![col + 1] = [d |-> Cont, a |-> s.attr]]
                ELSE one
    IN  IF col >= s.columns THEN Panic(s)
        ELSE SetLine(s, row, [two EXCEPT ![col] = [d |-> c, a |-> s.attr]])
Advance(s, c) ==
    LET limit == DrawLimit(s)
        next  == s.col + Width(c)
        t     == [s EXCEPT !.lastDrawn = c]
    IN  CASE next <= limit -> [t EXCEPT !.col = next]
          [] next > limit /\ Has(s, "DECAWM") ->
               Then(MarkWrapped(t),
                    LAMBDA u : [u EXCEPT !.wrapNext = TRUE, !.col = limit + 1])
          [] OTHER -> [t EXCEPT !.col = IF Has(s, "DECLRMM") THEN limit ELSE limit + 1]
MakeRoom(s, w) ==
    LET fits == ~(/\ w = 2 /\ s.col = DrawLimit(s) /\ s.col > 0
                  /\ s.row < s.lines - 1 /\ Has(s, "DECAWM"))
        insert(t) == IF Has(t, "IRM") THEN InsertCharacters(t, w) ELSE t
    IN  Then(IF fits THEN s ELSE WrapWide(s), insert)
DrawWide(s, c) ==          \* a cluster one or two columns wide
    LET wrapped == IF s.wrapNext THEN WrapPending(s) ELSE s
        ready   == MakeRoom([wrapped EXCEPT !.col = MinOf(@, DrawLimit(s))], Width(c))
    IN  Then(Then(ready, LAMBDA t : PutCluster(t, c)), LAMBDA t : Advance(t, c))
\* A cluster without width that does not combine ends the whole Draw.
Draw(s, clusters) ==
    LET step(acc, raw) ==
            LET c == Translate(s, raw)
            IN  IF acc.stop \/ acc.s.panicked THEN acc
                ELSE IF Width(c) > 0 THEN [acc EXCEPT !.s = DrawWide(@, c)]
                ELSE IF Combining(c) THEN [acc EXCEPT !.s = Combine(@, c)]
                ELSE [acc EXCEPT !.stop = TRUE]
    IN  FoldLeft(step, [s |-> s, stop |-> FALSE], clusters).s
RepeatLast(s, n) ==
    IF s.lastDrawn = <<>> THEN s
    ELSE FoldLeft(LAMBDA t, i : Then(t, LAMBDA u : Draw(u, <<u.lastDrawn>>)), s,
                  [i \in 1 .. AtLeast1(n) |-> i])

-----------------------------------------------------------------------------
(* Tab stops                                                               *)

Stops(cols) == {c \in 1 .. cols - 1 : c % TabWidth = 0}
SetTabStop(s) == IF s.tabStops = NilMap THEN Panic(s)
                 ELSE [s EXCEPT !.tabStops = @ \union {s.col}]
ClearTabStop(s, how) ==
    CASE how = 0 -> [s EXCEPT !.tabStops = @ \ {s.col}]
      [] how = 3 -> [s EXCEPT !.tabStops = {}]
      [] OTHER   -> s
Tab(s) ==
    LET keep  == s.wrapNext /\ ~Has(s, "MoreFix")
        t     == IF s.wrapNext /\ Has(s, "MoreFix")
                 THEN CarriageReturn(LineFeed([s EXCEPT !.wrapNext = FALSE])) ELSE s
        later == {c \in s.tabStops : t.col < c}
        stop  == IF later = {} THEN DrawLimit(s)
                 ELSE CHOOSE c \in later : \A d \in later : c <= d
    IN  [t EXCEPT !.col = MinOf(stop, DrawLimit(s)),
                  !.wrapNext = keep /\ @]
CursorForwardTab(s, n) ==
    FoldLeft(LAMBDA t, i : Tab(t), [s EXCEPT !.wrapNext = FALSE],
             [i \in 1 .. AtLeast1(n) |-> i])
BackTab1(s) ==
    LET before == {c \in s.tabStops : 0 < c /\ c < s.col}
    IN  [s EXCEPT !.col = IF before = {} THEN 0
                          ELSE CHOOSE c \in before : \A d \in before : c >= d]
CursorBackTab(s, n) ==
    FoldLeft(LAMBDA t, i : BackTab1(t), [s EXCEPT !.wrapNext = FALSE],
             [i \in 1 .. AtLeast1(n) |-> i])

-----------------------------------------------------------------------------
(* Rendition, protection, cursor style                                     *)

Rendition(code, s, attr) ==
    CASE code = "0"  -> DefaultAttr(s)
      [] code = "1"  -> attr \union {"bold"}
      [] code = "22" -> attr \ {"bold"}
      [] code = "7"  -> attr \union {"reverse"}
      [] code = "27" -> attr \ {"reverse"}
      [] code = "44" -> attr \union {"bg"}
      [] code = "49" -> attr \ {"bg"}
      [] OTHER       -> attr
SelectGraphicRendition(s, codes, private) ==
    IF private THEN s
    ELSE IF codes = <<>> THEN [s EXCEPT !.attr = DefaultAttr(s)]
    ELSE [s EXCEPT !.attr = FoldLeft(LAMBDA a, c : Rendition(c, s, a), @, codes)]
StartProtectedArea(s) == [s EXCEPT !.attr = @ \union {"iso"}]
EndProtectedArea(s)   == [s EXCEPT !.attr = @ \ {"iso"}]
SetCharacterProtection(s, m) ==
    [s EXCEPT !.protection = m,
              !.attr = IF m = 1 THEN @ \union {"prot"} ELSE @ \ {"prot"}]
SetCursorStyle(s, style) == [s EXCEPT !.cursorStyle = style]
SetActiveStatusDisplay(s, m) == [s EXCEPT !.statusDisplay = m]

-----------------------------------------------------------------------------
(* Saved cursors                                                           *)

Cursor(s) == [row |-> s.row, col |-> s.col, attr |-> s.attr, hidden |-> s.hidden]
WithCursor(s, cur) == [s EXCEPT !.row = cur.row, !.col = cur.col,
                                !.attr = cur.attr, !.hidden = cur.hidden]
SaveCursorState(s, saveMode) ==
    [s EXCEPT !.savepoints = Append(@,
        [cur |-> Cursor(s), g0 |-> s.g0, g1 |-> s.g1, charset |-> s.charset,
         origin |-> Has(s, "DECOM"), wrap |-> saveMode /\ Has(s, "DECAWM"),
         wrapNext |-> s.wrapNext])]
SaveCursor(s)    == SaveCursorState(s, TRUE)
SaveCursorDEC(s) == SaveCursorState(s, FALSE)
\* What SetMode / ResetMode do for the two modes a savepoint holds.
OriginMode(s, on) ==
    CursorPosition([s EXCEPT !.mode = IF on THEN @ \union {"DECOM"} ELSE @ \ {"DECOM"}], 0, 0)
WrapMode(s, on) ==
    [s EXCEPT !.mode = IF on THEN @ \union {"DECAWM"} ELSE @ \ {"DECAWM"}]
RestoreCursorState(s, restoreMode) ==
    IF s.savepoints = <<>> THEN OriginMode(s, FALSE)
    ELSE LET last == s.savepoints[Len(s.savepoints)]
             wrapped(t) == IF restoreMode THEN WrapMode(t, last.wrap) ELSE t
             back == wrapped(OriginMode([s EXCEPT !.savepoints = Front(@), !.g0 = last.g0,
                                             !.g1 = last.g1, !.charset = last.charset],
                                        last.origin))
         IN  EnsureVB(EnsureHB(WithCursor([back EXCEPT !.wrapNext = last.wrapNext], last.cur)),
                      TRUE)
RestoreCursor(s)    == RestoreCursorState(s, TRUE)
RestoreCursorDEC(s) == RestoreCursorState(s, FALSE)

-----------------------------------------------------------------------------
(* Margins                                                                 *)

SetMargins(s, top, bottom) ==
    LET m == IF s.margins = NoMargins THEN <<0, s.lines - 1>> ELSE s.margins
        t == Clamp((IF top = 0 THEN m[1] + 1 ELSE top) - 1, 0, s.lines - 1)
        b == Clamp((IF bottom = 0 THEN m[2] + 1 ELSE bottom) - 1, 0, s.lines - 1)
    IN  CASE top \in {0, -1} /\ bottom = 0 -> [s EXCEPT !.margins = NoMargins]
          [] ~(top \in {0, -1} /\ bottom = 0) /\ b - t >= 1 ->
               CursorPosition([s EXCEPT !.margins = <<t, b>>], 0, 0)
          [] OTHER -> s
FullWidth(s) == [s EXCEPT !.leftMargin = 0, !.rightMargin = s.columns - 1]
SetLeftRightMargins(s, left, right) ==
    LET l == Clamp(IF left = 0 THEN 1 ELSE left, 1, s.columns)
        r == Clamp(IF right = 0 THEN s.columns ELSE right, 1, s.columns)
    IN  CASE ~Has(s, "DECLRMM") -> s
          [] Has(s, "DECLRMM") /\ left \in {0, -1} /\ right = 0 ->
               CursorPosition(FullWidth(s), 0, 0)
          [] Has(s, "DECLRMM") /\ ~(left \in {0, -1} /\ right = 0) /\ r - l >= 1 ->
               CursorPosition([s EXCEPT !.leftMargin = l - 1, !.rightMargin = r - 1], 0, 0)
          [] OTHER -> s

-----------------------------------------------------------------------------
(* Resize, reset                                                           *)

\* Screen.Resize, which HistoryScreen replaces for the window's own resizes
\* but which DECCOLM, Reset and the window operations still reach.
FitTo(s, lines, columns) ==
    [s EXCEPT
        !.buf = RowsFrom(FitRowsWidth(@, columns, DefaultCell(s)), 0, lines,
                         BlankLine(columns, DefaultCell(s))),
        !.lines = lines, !.columns = columns,
        !.row = MinOf(@, lines - 1), !.col = MinOf(@, columns - 1),
        !.margins = NoMargins, !.leftMargin = 0, !.rightMargin = columns - 1,
        !.lineWrapped = {}, !.wrapNext = FALSE,
        !.altBuf         = IF @ = NoBuffer THEN @ ELSE BlankBuffer(lines, columns),
        !.altLineWrapped = IF s.altBuf = NoBuffer THEN @ ELSE {},
        !.altSavepoints  = IF s.altBuf = NoBuffer THEN @ ELSE <<>>,
        !.altWrapNext    = s.altBuf = NoBuffer /\ @]
Resize(s, askedLines, askedColumns) ==
    LET lines   == AtLeast1(askedLines)
        columns == AtLeast1(askedColumns)
    IN  IF s.lines = lines /\ s.columns = columns THEN s
        ELSE FitTo(IF lines >= s.lines THEN s
                   ELSE RestoreCursor(DeleteLines(CursorPosition(SaveCursor(s), 0, 0),
                                                  s.lines - lines)),
                   lines, columns)

ResetModes == {"DECAWM", "DECTCEM", "80To132"}
\* What Reset and SoftReset both return to its default.
CommonReset(s) ==
    [FullWidth(s) EXCEPT
        !.margins = NoMargins, !.mode = ResetModes, !.attr = PlainAttr, !.hidden = FALSE,
        !.charset = 0, !.g0 = "lat1", !.g1 = "vt100", !.wrapNext = FALSE,
        !.savedModes = <<>>, !.selection = <<>>, !.colors = <<>>,
        !.titleHexInput = FALSE, !.titleHexOutput = FALSE,
        !.conformanceLevel = 1, !.conformanceExplicit = FALSE, !.cursorStyle = 0,
        !.protection = 0, !.statusDisplay = 0, !.titleStack = <<>>, !.iconStack = <<>>]
ResetAll(s) ==
    [CommonReset(s) EXCEPT
        !.savedColumns = NoColumns, !.buf = BlankBuffer(s.lines, s.columns),
        !.altBuf = NoBuffer, !.altSavepoints = <<>>, !.altLineWrapped = NilMap,
        !.altWrapNext = FALSE, !.altActive = FALSE, !.altSavedCursor = NoCursor,
        !.title = <<>>, !.icon = <<>>, !.tabStops = Stops(s.columns),
        !.row = 0, !.col = 0, !.lineWrapped = {}]
Reset(s) ==
    ResetAll(IF s.savedColumns = NoColumns THEN s ELSE Resize(s, s.lines, s.savedColumns))
SoftReset(s) == [CommonReset(s) EXCEPT !.savepoints = <<>>]
SetConformance(s, level) ==
    LET l == IF level >= 60 THEN level - 60 ELSE level
    IN  IF l <= 0 THEN s
        ELSE [Reset(s) EXCEPT !.savepoints = <<>>, !.conformanceLevel = l,
                              !.conformanceExplicit = TRUE]

NewScreen(columns, lines) ==
    [lines |-> lines, columns |-> columns, buf |-> BlankBuffer(lines, columns),
     row |-> 0, col |-> 0, attr |-> PlainAttr, hidden |-> FALSE, mode |-> ResetModes,
     margins |-> NoMargins, leftMargin |-> 0, rightMargin |-> columns - 1,
     charset |-> 0, g0 |-> "lat1", g1 |-> "vt100", tabStops |-> Stops(columns),
     title |-> <<>>, icon |-> <<>>, titleStack |-> <<>>, iconStack |-> <<>>,
     titleHexInput |-> FALSE, titleHexOutput |-> FALSE,
     savepoints |-> <<>>, savedColumns |-> NoColumns, savedModes |-> <<>>,
     wrapNext |-> FALSE, lineWrapped |-> {}, lastDrawn |-> <<>>,
     cursorStyle |-> 0, protection |-> 0, statusDisplay |-> 0,
     conformanceLevel |-> 1, conformanceExplicit |-> FALSE,
     selection |-> <<>>, colors |-> <<>>,
     altBuf |-> NoBuffer, altSavepoints |-> <<>>, altLineWrapped |-> NilMap,
     altWrapNext |-> FALSE, altActive |-> FALSE, altSavedCursor |-> NoCursor,
     reply |-> <<>>, panicked |-> FALSE]

-----------------------------------------------------------------------------
(* The alternate screen                                                    *)

SwapBuffers(s) ==
    [s EXCEPT !.buf = s.altBuf, !.altBuf = s.buf,
              !.savepoints = s.altSavepoints, !.altSavepoints = s.savepoints,
              !.lineWrapped = s.altLineWrapped, !.altLineWrapped = s.lineWrapped,
              !.wrapNext = s.altWrapNext, !.altWrapNext = s.wrapNext,
              !.altActive = ~@]
\* Mode 1049 (asCursor) saves the cursor, clears and homes; 47 and 1047 swap.
EnterAltScreen(s, asCursor) ==
    LET saved == IF asCursor THEN [s EXCEPT !.altSavedCursor = Cursor(s)] ELSE s
        ready == IF s.altBuf /= NoBuffer THEN saved
                 ELSE [saved EXCEPT !.altBuf = BlankBuffer(s.lines, s.columns),
                                    !.altLineWrapped = {}]
        t     == SwapBuffers(ready)
    IN  IF s.altActive THEN s
        ELSE IF ~asCursor THEN t
        ELSE CursorPosition([t EXCEPT !.buf = BlankBuffer(s.lines, s.columns),
                                      !.lineWrapped = {}, !.wrapNext = FALSE], 0, 0)
ExitAltScreen(s, clear, restoreCursor) ==
    LET t == SwapBuffers(s)
        u == IF clear
             THEN [t EXCEPT !.altBuf = BlankBuffer(s.lines, s.columns),
                            !.altLineWrapped = {}, !.altWrapNext = FALSE,
                            !.altSavepoints = <<>>]
             ELSE t
        v == IF restoreCursor /\ s.altSavedCursor /= NoCursor
             THEN [WithCursor(u, s.altSavedCursor) EXCEPT
                      !.row = MinOf(@, s.lines - 1), !.col = MinOf(@, s.columns - 1)]
             ELSE u
    IN  IF ~s.altActive THEN s ELSE [v EXCEPT !.altSavedCursor = NoCursor]

-----------------------------------------------------------------------------
(* Modes                                                                   *)

\* DECSCNM: every cell of the live buffer, and the cursor, take the rendition.
ReverseScreen(s, on) ==
    LET flip(a) == IF on THEN a \union {"reverse"} ELSE a \ {"reverse"}
    IN  [SetCells(s, DOMAIN s.buf, 0 .. s.columns - 1,
                  LAMBDA r, c : [s.buf[r][c] EXCEPT !.a = flip(@)])
         EXCEPT !.attr = flip(@)]
\* After DECCOLM changed the width: clear unless DECNCSM, home.
ColumnModeDone(s) ==
    CursorPosition(IF Has(s, "DECNCSM") THEN s ELSE EraseInDisplay(s, 2, FALSE), 0, 0)
NeedsLevel(m) == CASE m = "DECLRMM" -> 4 [] m = "DECNCSM" -> 5 [] OTHER -> 0

ApplySetMode(s0, m) ==
    LET s == [s0 EXCEPT !.mode = @ \union {m}]
    IN  CASE s0.conformanceExplicit /\ s0.conformanceLevel < NeedsLevel(m) ->
               [s EXCEPT !.mode = @ \ {m}]
          [] ~(s0.conformanceExplicit /\ s0.conformanceLevel < NeedsLevel(m)) ->
               CASE m = "DECCOLM" ->
                      IF ~Has(s, "80To132") THEN s
                      ELSE ColumnModeDone(Resize([s EXCEPT !.savedColumns = s.columns],
                                                 s.lines, WideColumns))
                 [] m = "DECSaveCursor" -> SaveCursorDEC(s)
                 [] m \in {"AltBuf", "AltBufOpt", "AltBufCursor"} ->
                      EnterAltScreen(s, m = "AltBufCursor")
                 [] m = "DECOM"   -> CursorPosition(s, 0, 0)
                 [] m = "DECSCNM" -> ReverseScreen(s, TRUE)
                 [] m = "DECTCEM" -> [s EXCEPT !.hidden = FALSE]
                 [] m = "DECLRMM" -> CursorPosition(FullWidth(s), 0, 0)
                 [] OTHER         -> s
ApplyResetMode(s0, m) ==
    LET s == [s0 EXCEPT !.mode = @ \ {m}]
        wide == s.columns = WideColumns /\ s.savedColumns /= NoColumns
    IN  CASE m = "DECCOLM" ->
               IF wide /\ ~Has(s, "80To132") THEN s
               ELSE ColumnModeDone(
                      IF wide THEN [Resize(s, s.lines, s.savedColumns)
                                       EXCEPT !.savedColumns = NoColumns]
                      ELSE s)
          [] m = "DECSaveCursor" -> RestoreCursorDEC(s)
          [] m = "AltBuf"       -> ExitAltScreen(s, FALSE, FALSE)
          [] m = "AltBufOpt"    -> ExitAltScreen(s, TRUE, FALSE)
          [] m = "AltBufCursor" -> ExitAltScreen(s, TRUE, TRUE)
          [] m = "DECOM"        -> CursorPosition(s, 0, 0)
          [] m = "DECSCNM"      -> ReverseScreen(s, FALSE)
          [] m = "DECTCEM"      -> [s EXCEPT !.hidden = TRUE]
          [] m = "DECLRMM"      -> FullWidth(s)
          [] OTHER              -> s
SetMode(s, modes)   == FoldLeft(ApplySetMode, s, modes)
ResetMode(s, modes) == FoldLeft(ApplyResetMode, s, modes)
SaveModes(s, modes) ==
    [s EXCEPT !.savedModes = FoldLeft(LAMBDA f, m : (m :> Has(s, m)) @@ f, @, modes)]
RestoreModes(s, modes) ==
    FoldLeft(LAMBDA t, m : CASE m \notin DOMAIN s.savedModes -> t
                             [] m \in DOMAIN s.savedModes /\ s.savedModes[m] ->
                                  ApplySetMode(t, m)
                             [] OTHER -> ApplyResetMode(t, m),
             s, modes)

-----------------------------------------------------------------------------
(* Titles, colours, selection                                              *)

\* applyTitleModes: a title is <<text>> or its hexadecimal form <<"hex", text>>.
TitleOf(s, param) ==
    LET v == IF s.titleHexInput /\ param /= <<>> /\ Head(param) = "hex"
             THEN Tail(param) ELSE param
    IN  IF s.titleHexOutput THEN <<"hex">> \o v ELSE v
SetTitle(s, param)    == [s EXCEPT !.title = TitleOf(s, param)]
SetIconName(s, param) == [s EXCEPT !.icon = TitleOf(s, param)]
SetTitleMode(s, params, reset) ==
    FoldLeft(LAMBDA t, p : CASE p = 0 -> [t EXCEPT !.titleHexInput = ~reset]
                             [] p = 2 -> [t EXCEPT !.titleHexInput = FALSE]
                             [] p = 1 -> [t EXCEPT !.titleHexOutput = ~reset]
                             [] p = 3 -> [t EXCEPT !.titleHexOutput = FALSE]
                             [] OTHER -> t,
             s, params)
PushTitles(s, sub) ==
    [s EXCEPT !.titleStack = IF sub \in {0, 2} THEN Append(@, s.title) ELSE @,
              !.iconStack  = IF sub \in {0, 1} THEN Append(@, s.icon) ELSE @]
\* Popping one of the two stacks alone empties the other.
PopTitles(s, sub) ==
    LET popTitle == sub \in {0, 2} /\ s.titleStack /= <<>>
        popIcon  == sub \in {0, 1} /\ s.iconStack /= <<>>
    IN  [s EXCEPT !.title = IF popTitle THEN Last(s.titleStack) ELSE @,
                  !.icon  = IF popIcon THEN Last(s.iconStack) ELSE @,
                  !.titleStack = CASE sub = 1 -> <<>>
                                   [] popTitle -> Front(@)
                                   [] OTHER -> @,
                  !.iconStack  = CASE sub = 2 -> <<>>
                                   [] popIcon -> Front(@)
                                   [] OTHER -> @]
SetSelectionData(s, data) == [s EXCEPT !.selection = data]

\* kind: "palette" (0 .. 15, above them the special colours), "dynamic", "special".
ColorKey(kind, index) ==
    IF kind = "palette" /\ index >= 16 THEN <<"special", index - 16>> ELSE <<kind, index>>
SetColor(s, kind, index, value) ==
    [s EXCEPT !.colors = (ColorKey(kind, index) :> value) @@ @]
ResetColor(s, kind, index, all) ==
    [s EXCEPT !.colors = [k \in {k \in DOMAIN @ : ~(k[1] = kind /\ (all \/ k[2] = index))}
                             |-> @[k]]]

-----------------------------------------------------------------------------
(* Window operations and reports; reply is what WriteProcessInput was last *)
(* given.                                                                  *)

Reply(s, r) == [s EXCEPT !.reply = r]
\* CSI 8 t: with one parameter the row count is the 8 itself; 0 keeps a size.
WindowSize(s, params) ==
    CASE Len(params) = 1 -> Resize(s, params[1], s.columns)
      [] Len(params) = 2 -> IF params[2] > 0 THEN Resize(s, params[2], s.columns) ELSE s
      [] OTHER -> Resize(s, IF params[2] <= 0 THEN s.lines ELSE params[2],
                            IF params[3] <= 0 THEN s.columns ELSE params[3])
WindowOp(s, params) ==
    LET sub == IF Len(params) > 1 THEN params[2] ELSE 0
    IN  IF params = <<>> THEN s
        ELSE CASE params[1] = 8  -> WindowSize(s, params)
               [] params[1] = 18 -> Reply(s, <<"size", s.lines, s.columns>>)
               [] params[1] = 20 -> Reply(s, <<"icon">> \o s.icon)
               [] params[1] = 21 -> Reply(s, <<"title">> \o s.title)
               [] params[1] = 22 -> PushTitles(s, sub)
               [] params[1] = 23 -> PopTitles(s, sub)
               [] OTHER -> s

\* DSR 6: relative to the margins in origin mode; the column is clamped to the
\* screen, so a pending wrap reports the last column.
CursorReport(s) ==
    LET y == s.row + 1 - (IF /\ Has(s, "DECOM") /\ s.margins /= NoMargins
                             /\ InScrollRegion(s)
                          THEN s.margins[1] ELSE 0)
        x == s.col + 1 - (IF /\ Has(s, "DECOM") /\ Has(s, "DECLRMM")
                             /\ BetweenMargins(s)
                          THEN s.leftMargin ELSE 0)
    IN  <<"cursor", y, Clamp(x, 1, s.columns)>>
ReportDeviceStatus(s, n) ==
    CASE n = 5 -> Reply(s, <<"ok">>)
      [] n = 6 -> Reply(s, CursorReport(s))
      [] OTHER -> s
ReportDeviceAttributes(s, n) ==
    IF n = 0 THEN Reply(s, <<"attributes", s.conformanceLevel>>) ELSE s
ReportMode(s, m) ==
    IF s.conformanceExplicit /\ s.conformanceLevel < 3 THEN s
    ELSE Reply(s, <<"mode", m, Has(s, m)>>)
RequestStatusString(s, query) ==
    CASE query = "m" -> Reply(s, <<"m", s.attr \intersect {"bold", "reverse"}>>)
      [] query = "r" -> Reply(s, <<"r", ScrollTop(s) + 1, ScrollBottom(s) + 1>>)
      [] query = "s" -> Reply(s, <<"s", Left(s) + 1, Right(s) + 1>>)
      [] query = "q" -> Reply(s, <<"q", s.cursorStyle>>)
      [] OTHER -> s
QueryColor(s, kind, index) ==
    LET k == ColorKey(kind, index)
    IN  Reply(s, <<"color", kind, index,
                   IF k \in DOMAIN s.colors THEN s.colors[k] ELSE "black">>)
QuerySelectionData(s) == Reply(s, <<"selection">> \o s.selection)

-----------------------------------------------------------------------------
(* What a viewer sees                                                      *)

\* Display: a continuation is skipped with its head, and cells of no width
\* are written after what precedes them.
VisibleFrom(line) ==
    LET step(acc, c) ==
            IF c < acc.next \/ line[c].d = Cont THEN acc
            ELSE [text |-> acc.text \o line[c].d,
                  next |-> c + MaxOf(1, Width(line[c].d))]
    IN  FoldLeft(step, [text |-> <<>>, next |-> 0],
                 [i \in 1 .. Cardinality(DOMAIN line) |-> i - 1]).text
Display(s) == [r \in DOMAIN s.buf |-> VisibleFrom(s.buf[r])]

\* A right margin past the last column, left by a resize.
StaleRightMargin(s) == s.rightMargin >= s.columns
=============================================================================
