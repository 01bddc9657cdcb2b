--------------------------- MODULE EmulatorProofs ---------------------------
(***************************************************************************)
(* The emulator of a region keeps a well-formed screen, and a history      *)
(* numbered without a gap, through every sequence of operations, resizes   *)
(* and upgrades, for every size of the screen and of the history.          *)
(*                                                                         *)
(* The invariant is HistoryOK: TopOK of the history and Fine of the        *)
(* screen, that is, ScreenOK (each field has its type, each buffer has the *)
(* screen's size, the margins lie on the screen, the cursor's row too) and *)
(* a Cause if it has panicked.  What PanicCauses says cannot be shown      *)
(* without it: an index is in range because the buffers have their size.   *)
(*                                                                         *)
(* There is one lemma for each operation of the screen: it is Calm (leaves *)
(* a ScreenOK and does not panic), Steady (and keeps the size, the modes   *)
(* and the left and right margins), Shifted (panics only with a stale      *)
(* right margin) or Fine.  Operations made of others follow from theirs;   *)
(* those that loop are folds, for which FoldLaws!FoldWithin is the         *)
(* induction.  Then the dispatch (Perform), a chunk (Replay), a resize, an *)
(* upgrade, and the theorems.                                              *)
(*                                                                         *)
(* The last part is about a shell's text.  Tame says what such a region's  *)
(* screen may be: on the page the shell writes, the cursor is in the first *)
(* column and the rows from it on are mute; a full-screen program's page   *)
(* is blank and the shell's is stashed with its cursor.  Heard says that   *)
(* what was printed is the evicted beginning, then history, then the page. *)
(***************************************************************************)
EXTENDS Terminal, SequenceTheorems, FiniteSetTheorems, TLAPS

-----------------------------------------------------------------------------
(* What a screen is. *)

Runes == {" ", "a", "W", "+", "z", "line", "b", "E", "#",
          "1", "2", "3", "4", "5", "6", "7", "8", "9"}
Flags == {"reverse", "bold", "bg", "iso", "prot"}
Cell == [d : Seq(Runes), a : SUBSET Flags]
IsBuffer(b, lines, columns) == b \in [0 .. lines - 1 -> [0 .. columns - 1 -> Cell]]
MarginsFit(m, lines) ==
    \/ m = NoMargins
    \/ m \in Nat \X Nat /\ m[1] < m[2] /\ m[2] < lines
CursorSet == [row : Nat, col : Nat, attr : SUBSET Flags, hidden : BOOLEAN]
SavedSet == [cur : CursorSet, g0 : {"lat1", "vt100"}, g1 : {"lat1", "vt100"}, charset : {0, 1},
             origin : BOOLEAN, wrap : BOOLEAN, wrapNext : BOOLEAN]

HasFields(s) ==
    {"lines", "columns", "buf", "row", "col", "attr", "hidden", "mode", "margins",
     "leftMargin", "rightMargin", "tabStops", "savepoints", "savedColumns", "lastDrawn",
     "charset", "g0", "g1", "lineWrapped", "wrapNext", "altBuf", "altSavepoints",
     "altWrapNext", "altActive", "altSavedCursor", "panicked"} \subseteq DOMAIN s

(* All but the bound on the cursor's row, which some methods restore last. *)
Afloat(s) ==
    /\ HasFields(s)
    /\ s.lines \in Nat \ {0} /\ s.columns \in Nat \ {0}
    /\ IsBuffer(s.buf, s.lines, s.columns)
    /\ s.altBuf = NoBuffer \/ IsBuffer(s.altBuf, s.lines, s.columns)
    /\ s.altActive \in BOOLEAN /\ (s.altActive => s.altBuf # NoBuffer)
    /\ s.row \in Nat /\ s.col \in Nat /\ s.attr \in SUBSET Flags
    /\ s.hidden \in BOOLEAN /\ s.wrapNext \in BOOLEAN /\ s.altWrapNext \in BOOLEAN
    /\ s.charset \in {0, 1} /\ s.g0 \in {"lat1", "vt100"} /\ s.g1 \in {"lat1", "vt100"}
    /\ MarginsFit(s.margins, s.lines)
    /\ s.leftMargin \in 0 .. s.columns - 1
    /\ s.rightMargin \in Nat /\ s.leftMargin <= s.rightMargin
    /\ s.savepoints \in Seq(SavedSet) /\ s.altSavepoints \in Seq(SavedSet)
    /\ s.altSavedCursor = NoCursor \/ s.altSavedCursor \in CursorSet
    /\ s.savedColumns \in Nat
    /\ s.tabStops \subseteq Nat \union {-1}
    /\ s.lastDrawn \in Seq(Runes)
ScreenOK(s) == Afloat(s) /\ s.row < s.lines

(* What an operation that cannot panic makes of a screen.                  *)
Calm(s, t) == ScreenOK(t) /\ t.panicked = s.panicked
(* It also leaves what the panics of Draw depend on.                       *)
Kept(s, t) ==
    /\ t.lines = s.lines /\ t.columns = s.columns /\ t.mode = s.mode
    /\ t.leftMargin = s.leftMargin /\ t.rightMargin = s.rightMargin
Steady(s, t) == Calm(s, t) /\ Kept(s, t)

-----------------------------------------------------------------------------
(* The cursor. *)

LEMMA StaysOK == ASSUME NEW s, ScreenOK(s) PROVE Steady(s, s)
  BY DEF Steady, Kept, Calm

(* Where it may go. *)
LEMMA Moves ==
    ASSUME NEW s, ScreenOK(s)
    PROVE  /\ \A r \in 0 .. s.lines - 1 :
                 /\ Steady(s, [s EXCEPT !.wrapNext = FALSE, !.row = r])
                 /\ Steady(s, [s EXCEPT !.row = r])
           /\ \A c \in Nat : 
                 /\ Steady(s, [s EXCEPT !.wrapNext = FALSE, !.col = c])
                 /\ Steady(s, [s EXCEPT !.wrapNext = TRUE, !.col = c])
                 /\ Steady(s, [s EXCEPT !.col = c])
           /\ \A r \in 0 .. s.lines - 1, c \in Nat : Steady(s, [s EXCEPT !.row = r, !.col = c])
           /\ \A w \in BOOLEAN : Steady(s, [s EXCEPT !.wrapNext = w])
<1> USE DEF Steady, Calm, Kept, ScreenOK, Afloat, HasFields
<1>1. \A r \in 0 .. s.lines - 1 : Steady(s, [s EXCEPT !.wrapNext = FALSE, !.row = r])
  OBVIOUS
<1>2. \A r \in 0 .. s.lines - 1 : Steady(s, [s EXCEPT !.row = r])
  OBVIOUS
<1>3. \A c \in Nat : Steady(s, [s EXCEPT !.wrapNext = FALSE, !.col = c])
  OBVIOUS
<1>4. \A c \in Nat : Steady(s, [s EXCEPT !.wrapNext = TRUE, !.col = c])
  OBVIOUS
<1>5. \A c \in Nat : Steady(s, [s EXCEPT !.col = c])
  OBVIOUS
<1>6. \A r \in 0 .. s.lines - 1, c \in Nat : Steady(s, [s EXCEPT !.row = r, !.col = c])
  OBVIOUS
<1>7. \A w \in BOOLEAN : Steady(s, [s EXCEPT !.wrapNext = w])
  OBVIOUS
<1> HIDE DEF Steady, Calm, Kept, ScreenOK, Afloat, HasFields
<1> QED
  BY <1>1, <1>2, <1>3, <1>4, <1>5, <1>6, <1>7, Zenon

LEMMA Ranges ==
    ASSUME NEW s, Afloat(s)
    PROVE  /\ ScrollTop(s) \in Nat /\ ScrollBottom(s) \in 0 .. s.lines - 1
           /\ ScrollTop(s) <= ScrollBottom(s)
           /\ Left(s) \in 0 .. s.columns - 1 /\ Right(s) \in Nat /\ Left(s) <= Right(s)
           /\ s.lines \in Nat \ {0} /\ s.columns \in Nat \ {0} /\ s.row \in Nat /\ s.col \in Nat
<1>1. ScrollTop(s) \in Nat /\ ScrollBottom(s) \in 0 .. s.lines - 1 /\ ScrollTop(s) <= ScrollBottom(s)
  BY DEF Afloat, MarginsFit, ScrollTop, ScrollBottom
<1>2. Left(s) \in 0 .. s.columns - 1 /\ Right(s) \in Nat /\ Left(s) <= Right(s)
  BY DEF Afloat, Left, Right
<1> QED
  BY <1>1, <1>2 DEF Afloat

LEMMA CarriageReturnOK ==
    ASSUME NEW s, ScreenOK(s)
    PROVE  Steady(s, CarriageReturn(s)) /\ CarriageReturn(s).col < s.columns
<1>1. \A c \in Nat : Steady(s, [s EXCEPT !.wrapNext = FALSE, !.col = c])
  BY Moves, Zenon
<1>2. s.leftMargin \in Nat
  BY DEF ScreenOK, Afloat
<1>3. Steady(s, CarriageReturn(s))
  BY <1>1, <1>2, Zenon DEF CarriageReturn
<1>4. CarriageReturn(s).col < s.columns
  BY DEF CarriageReturn, ScreenOK, Afloat, HasFields
<1> QED
  BY <1>3, <1>4

LEMMA CursorUpOK == ASSUME NEW s, ScreenOK(s), NEW n \in Int PROVE Steady(s, CursorUp(s, n))
<1>1. MaxOf(s.row - AtLeast1(n), IF InScrollRegion(s) THEN ScrollTop(s) ELSE 0) \in 0 .. s.lines - 1
  BY Ranges DEF ScreenOK, MaxOf, AtLeast1, InScrollRegion
<1>2. \A r \in 0 .. s.lines - 1 : Steady(s, [s EXCEPT !.wrapNext = FALSE, !.row = r])
  BY Moves, Zenon
<1> QED
  BY <1>1, <1>2, Zenon DEF CursorUp

LEMMA CursorDownOK == ASSUME NEW s, ScreenOK(s), NEW n \in Int PROVE Steady(s, CursorDown(s, n))
<1>1. MinOf(s.row + AtLeast1(n), IF InScrollRegion(s) THEN ScrollBottom(s) ELSE s.lines - 1)
          \in 0 .. s.lines - 1
  BY Ranges DEF ScreenOK, MinOf, AtLeast1, InScrollRegion
<1>2. \A r \in 0 .. s.lines - 1 : Steady(s, [s EXCEPT !.wrapNext = FALSE, !.row = r])
  BY Moves, Zenon
<1> QED
  BY <1>1, <1>2, Zenon DEF CursorDown

LEMMA CursorForwardOK ==
    ASSUME NEW s, ScreenOK(s), NEW n \in Int PROVE Steady(s, CursorForward(s, n))
<1>1. MinOf(s.col + AtLeast1(n), IF Has(s, "DECLRMM") /\ BetweenMargins(s)
                                 THEN Right(s) ELSE s.columns - 1) \in Nat
  BY Ranges DEF ScreenOK, MinOf, AtLeast1
<1>2. \A c \in Nat : Steady(s, [s EXCEPT !.wrapNext = FALSE, !.col = c])
  BY Moves, Zenon
<1> QED
  BY <1>1, <1>2, Zenon DEF CursorForward

LEMMA CursorToColumnAbsoluteOK ==
    ASSUME NEW s, ScreenOK(s), NEW n \in Int PROVE Steady(s, CursorToColumnAbsolute(s, n))
<1>1. MinOf(AtLeast1(n) - 1, s.columns - 1) \in Nat
  BY Ranges DEF ScreenOK, MinOf, AtLeast1
<1>2. \A c \in Nat : Steady(s, [s EXCEPT !.wrapNext = FALSE, !.col = c])
  BY Moves, Zenon
<1> QED
  BY <1>1, <1>2, Zenon DEF CursorToColumnAbsolute

LEMMA MoveLeft1OK == ASSUME NEW s, ScreenOK(s) PROVE Steady(s, MoveLeft1(s))
<1>1. Left(s) \in Nat /\ Right(s) \in Nat /\ s.col \in Nat
  BY Ranges DEF ScreenOK
<1>2. Steady(s, s)
  BY StaysOK
<1>3. \A c \in Nat : /\ Steady(s, [s EXCEPT !.wrapNext = FALSE, !.col = c])
                     /\ Steady(s, [s EXCEPT !.col = c])
  BY Moves, Zenon
<1> DEFINE wraps == Has(s, "DECAWM") /\ (Has(s, "RevInline") \/ Has(s, "RevExtend"))
<1>4. CASE s.wrapNext /\ wraps
  <2>1. (IF s.col = Right(s) + 1 THEN Right(s) ELSE s.col) \in Nat
    BY <1>1
  <2> QED
    BY <1>3, <1>4, <2>1, Zenon DEF MoveLeft1
<1>5. CASE s.wrapNext /\ ~wraps
  <2>1. (IF s.col = Right(s) + 1 THEN MaxOf(Left(s), Right(s) - 1) ELSE MaxOf(s.col - 1, 0)) \in Nat
    BY <1>1 DEF MaxOf
  <2> QED
    BY <1>3, <1>5, <2>1, Zenon DEF MoveLeft1
<1>6. CASE ~s.wrapNext
  <2>1. s.col > 0 => s.col - 1 \in Nat
    BY <1>1
  <2>2. Steady(s, ReverseWrap(s))
    <3>1. \A r \in 0 .. s.lines - 1, c \in Nat : Steady(s, [s EXCEPT !.row = r, !.col = c])
      BY Moves, Zenon
    <3> DEFINE target == IF Has(s, "RevExtend") /\ s.row = ScrollTop(s)
                         THEN ScrollBottom(s) ELSE s.row - 1
    <3>2. target < 0 \/ target >= s.lines \/ target \in 0 .. s.lines - 1
      BY Ranges DEF ScreenOK
    <3> QED
      BY <1>1, <1>2, <3>1, <3>2, Zenon DEF ReverseWrap
  <2> QED
    BY <1>1, <1>2, <1>3, <1>6, <2>1, <2>2, Zenon DEF MoveLeft1
<1> QED
  BY <1>4, <1>5, <1>6

(* What is afloat stays so until EnsureVB puts the row within the screen.  *)
LEMMA EnsureHBOK ==
    ASSUME NEW s, Afloat(s)
    PROVE  Afloat(EnsureHB(s)) /\ Kept(s, EnsureHB(s)) /\ EnsureHB(s).panicked = s.panicked
<1> DEFINE c == IF Has(s, "DECLRMM")
                THEN CASE s.col < Left(s)  -> MaxOf(0, s.col)
                       [] s.col > Right(s) -> MinOf(s.col, s.columns - 1)
                       [] OTHER            -> s.col
                ELSE Clamp(s.col, 0, s.columns - 1)
<1>1. c \in Nat
  BY Ranges DEF MaxOf, MinOf, Clamp
<1>2. EnsureHB(s) = [s EXCEPT !.col = c]
  BY DEF EnsureHB
<1> HIDE DEF c
<1> QED
  BY <1>1, <1>2 DEF Afloat, HasFields, Kept

LEMMA EnsureVBOK ==
    ASSUME NEW s, Afloat(s), NEW b PROVE Steady(s, EnsureVB(s, b))
<1> DEFINE r == IF (b \/ Has(s, "DECOM")) /\ s.margins /= NoMargins
                THEN Clamp(s.row, s.margins[1], s.margins[2])
                ELSE Clamp(s.row, 0, s.lines - 1)
<1>1. r \in 0 .. s.lines - 1
  BY DEF MaxOf, MinOf, Clamp, MarginsFit, Afloat
<1>2. EnsureVB(s, b) = [s EXCEPT !.row = r]
  BY DEF EnsureVB
<1> HIDE DEF r
<1> QED
  BY <1>1, <1>2 DEF Steady, Calm, ScreenOK, Afloat, HasFields, Kept

LEMMA EnsuredOK ==
    ASSUME NEW s, Afloat(s), NEW b PROVE Steady(s, EnsureVB(EnsureHB(s), b))
  BY EnsureHBOK, EnsureVBOK DEF Steady, Calm, Kept

LEMMA CursorPositionOK ==
    ASSUME NEW s, ScreenOK(s), NEW line \in Int, NEW column \in Int
    PROVE  Steady(s, CursorPosition(s, line, column))
<1> DEFINE row == AtLeast1(line) - 1
             + (IF s.margins /= NoMargins /\ Has(s, "DECOM") THEN s.margins[1] ELSE 0)
           col == AtLeast1(column) - 1
             + (IF Has(s, "DECOM") /\ Has(s, "DECLRMM") THEN s.leftMargin ELSE 0)
           t == [s EXCEPT !.wrapNext = FALSE, !.row = row, !.col = col]
<1>1. row \in Nat /\ col \in Nat
  <2>1. s.leftMargin \in Nat /\ (s.margins # NoMargins => s.margins[1] \in Nat)
    BY DEF ScreenOK, Afloat, MarginsFit
  <2> QED
    BY <2>1 DEF AtLeast1
<1>2. CursorPosition(s, line, column) \in {[s EXCEPT !.wrapNext = FALSE], EnsureVB(EnsureHB(t), FALSE)}
  BY DEF CursorPosition
<1> HIDE DEF row, col
<1>3. Afloat(t) /\ Kept(s, t) /\ t.panicked = s.panicked
  BY <1>1 DEF ScreenOK, Afloat, HasFields, Kept
<1>4. Steady(s, [s EXCEPT !.wrapNext = FALSE])
  BY Moves, Zenon
<1> HIDE DEF t
<1>5. Steady(s, EnsureVB(EnsureHB(t), FALSE))
  BY <1>3, EnsuredOK DEF Steady, Calm, Kept
<1> QED
  BY <1>2, <1>4, <1>5

LEMMA CursorToColumnOK ==
    ASSUME NEW s, ScreenOK(s), NEW n \in Int PROVE Steady(s, CursorToColumn(s, n))
<1> DEFINE c == AtLeast1(n) - 1
              + (IF Has(s, "DECOM") /\ Has(s, "DECLRMM") THEN s.leftMargin ELSE 0)
           t == [s EXCEPT !.wrapNext = FALSE, !.col = c]
<1>1. c \in Nat
  BY DEF ScreenOK, Afloat, AtLeast1
<1>2. CursorToColumn(s, n) = EnsureHB(t)
  BY DEF CursorToColumn
<1> HIDE DEF c
<1>3. Steady(s, t)
  BY <1>1, Moves, Zenon
<1> HIDE DEF t
<1>4. EnsureHB(t).row = t.row
  BY <1>3 DEF Steady, Calm, ScreenOK, Afloat, HasFields, EnsureHB
<1> QED
  BY <1>2, <1>3, <1>4, EnsureHBOK DEF Steady, Calm, Kept, ScreenOK

LEMMA CursorToLineOK ==
    ASSUME NEW s, ScreenOK(s), NEW n \in Int PROVE Steady(s, CursorToLine(s, n))
<1> DEFINE r == AtLeast1(n) - 1
              + (IF Has(s, "DECOM") /\ s.margins /= NoMargins THEN s.margins[1] ELSE 0)
           t == [s EXCEPT !.wrapNext = FALSE, !.row = r]
<1>1. r \in Nat
  BY DEF ScreenOK, Afloat, AtLeast1, MarginsFit
<1>2. CursorToLine(s, n) = EnsureVB(t, FALSE)
  BY DEF CursorToLine
<1> HIDE DEF r
<1>3. Afloat(t) /\ Kept(s, t) /\ t.panicked = s.panicked
  BY <1>1 DEF ScreenOK, Afloat, HasFields, Kept
<1> HIDE DEF t
<1>4. Steady(t, EnsureVB(t, FALSE))
  BY <1>3, EnsureVBOK
<1> QED
  BY <1>2, <1>3, <1>4 DEF Steady, Calm, Kept

LEMMA SteadyTwice ==
    ASSUME NEW s, NEW t, NEW u, Steady(s, t), Steady(t, u) PROVE Steady(s, u)
  BY DEF Steady, Calm, Kept

LEMMA CursorUp1OK == ASSUME NEW s, ScreenOK(s), NEW n \in Int PROVE Steady(s, CursorUp1(s, n))
<1>1. Steady(s, CursorUp(s, n))
  BY CursorUpOK
<1>2. Steady(CursorUp(s, n), CarriageReturn(CursorUp(s, n)))
  BY <1>1, CarriageReturnOK DEF Steady, Calm
<1> QED
  BY <1>1, <1>2, SteadyTwice DEF CursorUp1

LEMMA CursorDown1OK == ASSUME NEW s, ScreenOK(s), NEW n \in Int PROVE Steady(s, CursorDown1(s, n))
<1>1. Steady(s, CursorDown(s, n))
  BY CursorDownOK
<1>2. Steady(CursorDown(s, n), CarriageReturn(CursorDown(s, n)))
  BY <1>1, CarriageReturnOK DEF Steady, Calm
<1> QED
  BY <1>1, <1>2, SteadyTwice DEF CursorDown1

-----------------------------------------------------------------------------
(* The buffer. *)

LEMMA NewBuffer ==
    ASSUME NEW s, ScreenOK(s), NEW b, IsBuffer(b, s.lines, s.columns)
    PROVE  Steady(s, [s EXCEPT !.buf = b]) /\ [s EXCEPT !.buf = b].col = s.col
  BY DEF Steady, Calm, Kept, ScreenOK, Afloat, HasFields

LEMMA CellsOf ==
    ASSUME NEW s, ScreenOK(s)
    PROVE  /\ DOMAIN s.buf = 0 .. s.lines - 1
           /\ \A r \in 0 .. s.lines - 1 :
                 /\ DOMAIN s.buf[r] = 0 .. s.columns - 1
                 /\ s.buf[r] \in [0 .. s.columns - 1 -> Cell]
                 /\ \A c \in 0 .. s.columns - 1 : s.buf[r][c] \in Cell
  BY DEF ScreenOK, Afloat, IsBuffer

LEMMA CellOK == ASSUME NEW x \in Seq(Runes), NEW y \in SUBSET Flags PROVE [d |-> x, a |-> y] \in Cell
  BY DEF Cell

LEMMA DefaultCellOK ==
    ASSUME NEW s, ScreenOK(s) PROVE DefaultCell(s) \in Cell /\ [d |-> Blank, a |-> BceAttr(s)] \in Cell
<1>1. Blank \in Seq(Runes)
  BY DEF Blank, Runes
<1>2. DefaultAttr(s) \in SUBSET Flags /\ BceAttr(s) \in SUBSET Flags
  BY DEF DefaultAttr, BceAttr, Flags
<1> QED
  BY <1>1, <1>2, CellOK DEF DefaultCell

LEMMA ShiftRowsOK ==
    ASSUME NEW s, ScreenOK(s), NEW top \in Nat, NEW bottom \in 0 .. s.lines - 1, NEW n \in Int
    PROVE  Steady(s, ShiftRows(s, top, bottom, n)) /\ ShiftRows(s, top, bottom, n).col = s.col
<1> DEFINE F(r, c) == IF r + n \in top .. bottom THEN s.buf[r + n][c] ELSE DefaultCell(s)
           b == [r \in DOMAIN s.buf |->
                   IF r \notin top .. bottom THEN s.buf[r]
                   ELSE [c \in DOMAIN s.buf[r] |->
                           IF c \in Left(s) .. Right(s) THEN F(r, c) ELSE s.buf[r][c]]]
<1>1. \A r \in 0 .. s.lines - 1, c \in 0 .. s.columns - 1 : F(r, c) \in Cell
  <2>1. \A r \in top .. bottom : r \in 0 .. s.lines - 1
    BY DEF ScreenOK, Afloat
  <2> QED
    BY <2>1, CellsOf, DefaultCellOK
<1>2. ShiftRows(s, top, bottom, n) = [s EXCEPT !.buf = b]
  BY DEF ShiftRows, SetCells
<1> HIDE DEF F
<1>3. IsBuffer(b, s.lines, s.columns)
  BY <1>1, CellsOf DEF IsBuffer
<1> HIDE DEF b
<1> QED
  BY <1>2, <1>3, NewBuffer

LEMMA IndexOK ==
    ASSUME NEW s, ScreenOK(s)
    PROVE  Steady(s, Index(s)) /\ Index(s).col = s.col
<1> DEFINE t == [s EXCEPT !.wrapNext = FALSE]
           u == ShiftRows(t, ScrollTop(s), ScrollBottom(s), 1)
           v == [t EXCEPT !.row = @ + 1]
<1>1. Steady(s, t) /\ t.col = s.col /\ t.row = s.row
  BY Moves, Zenon DEF ScreenOK, Afloat, HasFields
<1>2. ScrollTop(s) \in Nat /\ ScrollBottom(s) \in 0 .. s.lines - 1 /\ s.lines \in Nat
      /\ s.row \in 0 .. s.lines - 1
  BY Ranges DEF ScreenOK
<1>3. Index(s) \in {t, u} \/ (s.row < s.lines - 1 /\ Index(s) = v)
  <2>1. CASE s.row = ScrollBottom(s)
    <3>1. Index(s) = (IF CanScrollHorizontal(s) THEN u ELSE t)
      BY <2>1 DEF Index
    <3> HIDE DEF t, u
    <3> QED
      BY <3>1
  <2>2. CASE s.row # ScrollBottom(s) /\ s.row < s.lines - 1
    BY <2>2 DEF Index
  <2>3. CASE s.row # ScrollBottom(s) /\ ~(s.row < s.lines - 1)
    <3>1. Index(s) = t
      BY <2>3 DEF Index
    <3> HIDE DEF t, u
    <3> QED
      BY <3>1
  <2> QED
    BY <2>1, <2>2, <2>3
<1> HIDE DEF t
<1>4. ScreenOK(t) /\ t.lines = s.lines
  BY <1>1 DEF Steady, Calm, Kept
<1>5. Steady(t, u) /\ u.col = t.col
  BY <1>2, <1>4, ShiftRowsOK
<1>6. CASE s.row < s.lines - 1
  <2>1. t.row + 1 \in 0 .. t.lines - 1
    BY <1>1, <1>2, <1>4, <1>6
  <2>2. Steady(t, v)
    <3>1. \A r \in 0 .. t.lines - 1 : Steady(t, [t EXCEPT !.row = r])
      BY <1>4, Moves, Zenon
    <3> QED
      BY <2>1, <3>1
  <2>3. v.col = t.col
    BY <1>4 DEF ScreenOK, Afloat, HasFields
  <2> HIDE DEF u, v
  <2> QED
    BY <1>1, <1>3, <1>5, <2>2, <2>3, SteadyTwice
<1>7. CASE ~(s.row < s.lines - 1)
  <2> HIDE DEF u, v
  <2> QED
    BY <1>1, <1>3, <1>5, <1>7, SteadyTwice
<1> QED
  BY <1>6, <1>7

LEMMA ReverseIndexOK ==
    ASSUME NEW s, ScreenOK(s) PROVE Steady(s, ReverseIndex(s))
<1> DEFINE t == [s EXCEPT !.wrapNext = FALSE]
           u == ShiftRows(t, ScrollTop(s), ScrollBottom(s), -1)
           v == [t EXCEPT !.row = @ - 1]
<1>1. Steady(s, t) /\ t.row = s.row
  BY Moves, Zenon DEF ScreenOK, Afloat, HasFields
<1>2. ScrollTop(s) \in Nat /\ ScrollBottom(s) \in 0 .. s.lines - 1 /\ s.lines \in Nat
      /\ s.row \in 0 .. s.lines - 1
  BY Ranges DEF ScreenOK
<1>3. ReverseIndex(s) \in {t, u} \/ (s.row > 0 /\ ReverseIndex(s) = v)
  <2>1. CASE s.row = ScrollTop(s)
    <3>1. ReverseIndex(s) = (IF CanScrollHorizontal(s) THEN u ELSE t)
      BY <2>1 DEF ReverseIndex
    <3> HIDE DEF t, u
    <3> QED
      BY <3>1
  <2>2. CASE s.row # ScrollTop(s) /\ s.row > 0
    BY <2>2 DEF ReverseIndex
  <2>3. CASE s.row # ScrollTop(s) /\ ~(s.row > 0)
    <3>1. ReverseIndex(s) = t
      BY <2>3 DEF ReverseIndex
    <3> HIDE DEF t, u
    <3> QED
      BY <3>1
  <2> QED
    BY <2>1, <2>2, <2>3
<1> HIDE DEF t
<1>4. ScreenOK(t) /\ t.lines = s.lines
  BY <1>1 DEF Steady, Calm, Kept
<1>5. Steady(t, u)
  BY <1>2, <1>4, ShiftRowsOK
<1>6. CASE s.row > 0
  <2>1. t.row - 1 \in 0 .. t.lines - 1
    BY <1>1, <1>2, <1>4, <1>6
  <2>2. Steady(t, v)
    <3>1. \A r \in 0 .. t.lines - 1 : Steady(t, [t EXCEPT !.row = r])
      BY <1>4, Moves, Zenon
    <3> QED
      BY <2>1, <3>1
  <2> HIDE DEF u, v
  <2> QED
    BY <1>1, <1>3, <1>5, <2>2, SteadyTwice
<1>7. CASE ~(s.row > 0)
  <2> HIDE DEF u, v
  <2> QED
    BY <1>1, <1>3, <1>5, <1>7, SteadyTwice
<1> QED
  BY <1>6, <1>7

LEMMA LineFeedOK ==
    ASSUME NEW s, ScreenOK(s)
    PROVE  Steady(s, LineFeed(s)) /\ (s.col < s.columns => LineFeed(s).col < s.columns)
<1>1. Steady(s, Index(s)) /\ Index(s).col = s.col
  BY IndexOK
<1>2. Steady(Index(s), CarriageReturn(Index(s))) /\ CarriageReturn(Index(s)).col < s.columns
  BY <1>1, CarriageReturnOK DEF Steady, Calm, Kept
<1> QED
  BY <1>1, <1>2, SteadyTwice DEF LineFeed

LEMMA ScrollUpOK == ASSUME NEW s, ScreenOK(s), NEW n \in Int PROVE Steady(s, ScrollUp(s, n))
<1> DEFINE k == MinOf(AtLeast1(n), ScrollBottom(s) - ScrollTop(s) + 1)
<1>1. ScrollTop(s) \in Nat /\ ScrollBottom(s) \in 0 .. s.lines - 1
  BY Ranges DEF ScreenOK
<1>2. k \in Int
  BY <1>1 DEF MinOf, AtLeast1
<1>3. ScrollUp(s, n) = ShiftRows(s, ScrollTop(s), ScrollBottom(s), k)
  BY DEF ScrollUp
<1> HIDE DEF k
<1> QED
  BY <1>1, <1>2, <1>3, ShiftRowsOK

LEMMA ScrollDownOK == ASSUME NEW s, ScreenOK(s), NEW n \in Int PROVE Steady(s, ScrollDown(s, n))
<1> DEFINE k == -MinOf(AtLeast1(n), ScrollBottom(s) - ScrollTop(s) + 1)
<1>1. ScrollTop(s) \in Nat /\ ScrollBottom(s) \in 0 .. s.lines - 1
  BY Ranges DEF ScreenOK
<1>2. k \in Int
  BY <1>1 DEF MinOf, AtLeast1
<1>3. ScrollDown(s, n) = ShiftRows(s, ScrollTop(s), ScrollBottom(s), k)
  BY DEF ScrollDown
<1> HIDE DEF k
<1> QED
  BY <1>1, <1>2, <1>3, ShiftRowsOK

(* InsertLines and DeleteLines. *)
LEMMA EditLinesOK ==
    ASSUME NEW s, ScreenOK(s), NEW n \in Int
    PROVE  Steady(s, InsertLines(s, n)) /\ Steady(s, DeleteLines(s, n))
<1> DEFINE up == ShiftRows(s, s.row, ScrollBottom(s), AtLeast1(n))
           down == ShiftRows(s, s.row, ScrollBottom(s), -AtLeast1(n))
<1>1. s.row \in Nat /\ ScrollBottom(s) \in 0 .. s.lines - 1
  BY Ranges DEF ScreenOK
<1>2. AtLeast1(n) \in Int /\ -AtLeast1(n) \in Int
  BY DEF AtLeast1
<1>3. Steady(s, up) /\ Steady(s, down)
  BY <1>1, <1>2, ShiftRowsOK
<1>4. /\ InsertLines(s, n) \in {s, CarriageReturn(down)}
      /\ DeleteLines(s, n) \in {s, CarriageReturn(up)}
  BY DEF InsertLines, DeleteLines
<1> HIDE DEF up, down
<1>5. Steady(up, CarriageReturn(up)) /\ Steady(down, CarriageReturn(down))
  BY <1>3, CarriageReturnOK DEF Steady, Calm
<1> QED
  BY <1>3, <1>4, <1>5, StaysOK, SteadyTwice

-----------------------------------------------------------------------------
(* Erasing. *)

LEMMA EraseOK ==
    ASSUME NEW s, ScreenOK(s), NEW rows, NEW cols, NEW private
    PROVE  Steady(s, Erase(s, rows, cols, private))
<1> DEFINE F(r, c) == IF Protected(s, r, c, private) THEN s.buf[r][c]
                      ELSE [d |-> Blank, a |-> BceAttr(s)]
           b == [r \in DOMAIN s.buf |->
                   IF r \notin rows THEN s.buf[r]
                   ELSE [c \in DOMAIN s.buf[r] |-> IF c \in cols THEN F(r, c) ELSE s.buf[r][c]]]
<1>1. \A r \in 0 .. s.lines - 1, c \in 0 .. s.columns - 1 : F(r, c) \in Cell
  BY CellsOf, DefaultCellOK
<1>2. Erase(s, rows, cols, private) = [s EXCEPT !.buf = b]
  BY DEF Erase, SetCells
<1> HIDE DEF F
<1>3. IsBuffer(b, s.lines, s.columns)
  BY <1>1, CellsOf DEF IsBuffer
<1> HIDE DEF b
<1> QED
  BY <1>2, <1>3, NewBuffer

LEMMA EraseLineOK ==
    ASSUME NEW s, ScreenOK(s), NEW n, NEW private
    PROVE  Steady(s, EraseCharacters(s, n)) /\ Steady(s, EraseInLine(s, n, private))
  BY EraseOK, StaysOK DEF EraseCharacters, EraseInLine

LEMMA EraseDisplayOK ==
    ASSUME NEW s, ScreenOK(s), NEW how, NEW private
    PROVE  /\ Steady(s, EraseInDisplay(s, how, private))
           /\ Steady(s, EraseInDisplaySelective(s, how))
<1>1. ASSUME NEW p PROVE Steady(s, EraseInDisplayWith(s, how, p))
  <2> DEFINE k == IF how = 3 THEN 2 ELSE how
             t == IF k \in {0, 1} THEN EraseInLine(s, k, p) ELSE s
  <2>1. Steady(s, t)
    BY EraseLineOK, StaysOK
  <2>2. \E rows : EraseInDisplayWith(s, how, p) = Erase(t, rows, 0 .. s.columns - 1, p)
    BY DEF EraseInDisplayWith
  <2> HIDE DEF t
  <2>3. \A rows, cols : Steady(t, Erase(t, rows, cols, p))
    BY <2>1, EraseOK DEF Steady, Calm
  <2> QED
    BY <2>1, <2>2, <2>3, SteadyTwice
<1> QED
  BY <1>1, StaysOK DEF EraseInDisplay, EraseInDisplaySelective
LEMMA SelectiveEraseRectangleOK ==
    ASSUME NEW s, ScreenOK(s), NEW top, NEW left0, NEW bottom, NEW right
    PROVE  Steady(s, SelectiveEraseRectangle(s, top, left0, bottom, right)) /\ SelectiveEraseRectangle(s, top, left0, bottom, right).col = s.col
<1> DEFINE F(r, c) == IF "prot" \in s.buf[r][c].a THEN s.buf[r][c] ELSE DefaultCell(s)
           b == [r \in DOMAIN s.buf |->
                   IF r \notin RectRows(s, top, bottom) THEN s.buf[r]
                   ELSE [c \in DOMAIN s.buf[r] |->
                           IF c \in RectCols(s, left0, right) THEN F(r, c) ELSE s.buf[r][c]]]
<1>1. \A r \in 0 .. s.lines - 1, c \in 0 .. s.columns - 1 :
          r \in RectRows(s, top, bottom) /\ c \in RectCols(s, left0, right) => F(r, c) \in Cell
  BY CellsOf, DefaultCellOK
<1>2. SelectiveEraseRectangle(s, top, left0, bottom, right) = [s EXCEPT !.buf = b]
  BY DEF SelectiveEraseRectangle, SetCells
<1> HIDE DEF F
<1>3. IsBuffer(b, s.lines, s.columns)
  BY <1>1, CellsOf DEF IsBuffer
<1> HIDE DEF b
<1> QED
  BY <1>2, <1>3, NewBuffer

LEMMA FillRectangleOK ==
    ASSUME NEW s, ScreenOK(s), NEW ch \in Seq(Runes), NEW top, NEW left0, NEW bottom, NEW right
    PROVE  Steady(s, FillRectangle(s, ch, top, left0, bottom, right)) /\ FillRectangle(s, ch, top, left0, bottom, right).col = s.col
<1> DEFINE F(r, c) == IF "prot" \in s.buf[r][c].a THEN s.buf[r][c] ELSE [s.buf[r][c] EXCEPT !.d = ch]
           b == [r \in DOMAIN s.buf |->
                   IF r \notin RectRows(s, top, bottom) THEN s.buf[r]
                   ELSE [c \in DOMAIN s.buf[r] |->
                           IF c \in RectCols(s, left0, right) THEN F(r, c) ELSE s.buf[r][c]]]
<1>1. \A r \in 0 .. s.lines - 1, c \in 0 .. s.columns - 1 :
          r \in RectRows(s, top, bottom) /\ c \in RectCols(s, left0, right) => F(r, c) \in Cell
  <2>1. \A x \in Cell : [x EXCEPT !.d = ch] \in Cell
    BY DEF Cell
  <2> QED
    BY <2>1, CellsOf
<1>2. FillRectangle(s, ch, top, left0, bottom, right) = [s EXCEPT !.buf = b]
  BY DEF FillRectangle, SetCells
<1> HIDE DEF F
<1>3. IsBuffer(b, s.lines, s.columns)
  BY <1>1, CellsOf DEF IsBuffer
<1> HIDE DEF b
<1>4. Steady(s, [s EXCEPT !.buf = b]) /\ [s EXCEPT !.buf = b].col = s.col
  BY <1>3, NewBuffer
<1> QED
  BY <1>2, <1>4

(* A rectangle begins and ends on the screen. *)
LEMMA RectOK ==
    ASSUME NEW s, ScreenOK(s), NEW top \in Int, NEW left0 \in Int, NEW bottom \in Int, NEW right \in Int
    PROVE  /\ RectRows(s, top, bottom) \subseteq 0 .. s.lines - 1
           /\ RectCols(s, left0, right) \subseteq 0 .. s.columns - 1
<1>1. OriginShift(s)[1] \in Nat /\ OriginShift(s)[2] \in Nat
  BY DEF OriginShift, ScreenOK, Afloat, MarginsFit
<1>2. s.lines \in Nat /\ s.columns \in Nat
  BY DEF ScreenOK, Afloat
<1> QED
  BY <1>1, <1>2 DEF RectRows, RectCols, OrElse, MinOf

LEMMA CopyRectangleOK ==
    ASSUME NEW s, ScreenOK(s),
           NEW top \in Int, NEW left0 \in Int, NEW bottom \in Int, NEW right \in Int,
           NEW dstTop \in Int, NEW dstLeft \in Int
    PROVE  Steady(s, CopyRectangle(s, top, left0, bottom, right, dstTop, dstLeft)) /\ CopyRectangle(s, top, left0, bottom, right, dstTop, dstLeft).col = s.col
<1> DEFINE dr == OrElse(dstTop, 1) - OrElse(top, 1)
           dc == OrElse(dstLeft, 1) - OrElse(left0, 1)
           F(r, c) == s.buf[r - dr][c - dc]
           b == [r \in DOMAIN s.buf |->
                   IF r \notin {q + dr : q \in RectRows(s, top, bottom)} THEN s.buf[r]
                   ELSE [c \in DOMAIN s.buf[r] |->
                           IF c \in {k + dc : k \in RectCols(s, left0, right)} THEN F(r, c) ELSE s.buf[r][c]]]
<1>1. \A r \in 0 .. s.lines - 1, c \in 0 .. s.columns - 1 :
          r \in {q + dr : q \in RectRows(s, top, bottom)} /\ c \in {k + dc : k \in RectCols(s, left0, right)} => F(r, c) \in Cell
  <2>1. dr \in Int /\ dc \in Int
    BY DEF OrElse
  <2> HIDE DEF dr, dc
  <2>2. \A r \in {q + dr : q \in RectRows(s, top, bottom)} : r - dr \in 0 .. s.lines - 1
    <3>1. \A x \in RectRows(s, top, bottom) : x \in Int /\ x \in 0 .. s.lines - 1
      BY RectOK
    <3> QED
      BY <2>1, <3>1
  <2>3. \A c \in {k + dc : k \in RectCols(s, left0, right)} : c - dc \in 0 .. s.columns - 1
    <3>1. \A x \in RectCols(s, left0, right) : x \in Int /\ x \in 0 .. s.columns - 1
      BY RectOK
    <3> QED
      BY <2>1, <3>1
  <2> QED
    BY <2>2, <2>3, CellsOf
<1>2. CopyRectangle(s, top, left0, bottom, right, dstTop, dstLeft) = [s EXCEPT !.buf = b]
  BY DEF CopyRectangle, SetCells
<1> HIDE DEF F
<1>3. IsBuffer(b, s.lines, s.columns)
  BY <1>1, CellsOf DEF IsBuffer
<1> HIDE DEF b
<1> QED
  BY <1>2, <1>3, NewBuffer

LEMMA AlignmentDisplayOK == ASSUME NEW s, ScreenOK(s) PROVE Calm(s, AlignmentDisplay(s))
<1> DEFINE F(r, c) == [s.buf[r][c] EXCEPT !.d = <<"E">>]
           b == [r \in DOMAIN s.buf |->
                   IF r \notin DOMAIN s.buf THEN s.buf[r]
                   ELSE [c \in DOMAIN s.buf[r] |->
                           IF c \in 0 .. s.columns - 1 THEN F(r, c) ELSE s.buf[r][c]]]
           t == [s EXCEPT !.buf = b, !.margins = NoMargins, !.leftMargin = 0,
                          !.rightMargin = s.columns - 1, !.lineWrapped = {}, !.wrapNext = FALSE]
<1>1. \A r \in 0 .. s.lines - 1, c \in 0 .. s.columns - 1 : F(r, c) \in Cell
  <2>1. <<"E">> \in Seq(Runes)
    BY DEF Runes
  <2>2. \A x \in Cell : [x EXCEPT !.d = <<"E">>] \in Cell
    BY <2>1 DEF Cell
  <2> QED
    BY <2>2, CellsOf
<1>2. AlignmentDisplay(s) = CursorPosition(t, 0, 0)
  BY DEF AlignmentDisplay, SetCells
<1> HIDE DEF F
<1>3. IsBuffer(b, s.lines, s.columns)
  BY <1>1, CellsOf DEF IsBuffer
<1> HIDE DEF b
<1>4. Calm(s, t)
  BY <1>3 DEF Calm, ScreenOK, Afloat, HasFields, MarginsFit
<1> HIDE DEF t
<1> QED
  BY <1>2, <1>4, CursorPositionOK DEF Steady, Calm

-----------------------------------------------------------------------------
(* Shifting characters: what may panic, and why. *)

Stale(s) == Has(s, "DECLRMM") /\ StaleRightMargin(s)
Shifted(s, t) ==
    /\ ScreenOK(t) /\ Kept(s, t) /\ t.col = s.col
    /\ t.panicked => s.panicked \/ Stale(s)

LEMMA PanicOK ==
    ASSUME NEW s, ScreenOK(s)
    PROVE  ScreenOK(Panic(s)) /\ Kept(s, Panic(s)) /\ Panic(s).col = s.col
  BY DEF Panic, ScreenOK, Afloat, HasFields, Kept

(* The cells of rows and cols moved left or right by n, or blanked. *)
MovedLeft(s, rows, cols, right, n) ==
    SetCells(s, rows, cols, LAMBDA r, c : IF c + n <= right THEN s.buf[r][c + n] ELSE DefaultCell(s))
MovedRight(s, rows, cols, from, n) ==
    SetCells(s, rows, cols, LAMBDA r, c : IF c - n >= from THEN s.buf[r][c - n] ELSE DefaultCell(s))
Blanked(s, rows, cols) == SetCells(s, rows, cols, LAMBDA r, c : DefaultCell(s))

LEMMA MovedLeftOK ==
    ASSUME NEW s, ScreenOK(s), NEW rows, NEW cols, NEW right \in Nat, NEW n \in Nat,
           \A c \in cols : c + n <= right => c + n < s.columns
    PROVE  Steady(s, MovedLeft(s, rows, cols, right, n)) /\ MovedLeft(s, rows, cols, right, n).col = s.col
<1> DEFINE F(r, c) == IF c + n <= right THEN s.buf[r][c + n] ELSE DefaultCell(s)
           b == [r \in DOMAIN s.buf |->
                   IF r \notin rows THEN s.buf[r]
                   ELSE [c \in DOMAIN s.buf[r] |->
                           IF c \in cols THEN F(r, c) ELSE s.buf[r][c]]]
<1>1. \A r \in 0 .. s.lines - 1, c \in 0 .. s.columns - 1 :
          r \in rows /\ c \in cols => F(r, c) \in Cell
  <2> SUFFICES ASSUME NEW r \in 0 .. s.lines - 1, NEW c \in 0 .. s.columns - 1, c \in cols
               PROVE  F(r, c) \in Cell
    OBVIOUS
  <2>1. s.columns \in Nat
    BY DEF ScreenOK, Afloat
  <2>2. c + n <= right => c + n \in 0 .. s.columns - 1
    BY <2>1
  <2> QED
    BY <2>2, CellsOf, DefaultCellOK
<1>2. MovedLeft(s, rows, cols, right, n) = [s EXCEPT !.buf = b]
  BY DEF MovedLeft, SetCells
<1> HIDE DEF F
<1>3. IsBuffer(b, s.lines, s.columns)
  BY <1>1, CellsOf DEF IsBuffer
<1> HIDE DEF b
<1> QED
  BY <1>2, <1>3, NewBuffer

LEMMA MovedRightOK ==
    ASSUME NEW s, ScreenOK(s), NEW rows, NEW cols, NEW from \in Nat, NEW n \in Nat
    PROVE  Steady(s, MovedRight(s, rows, cols, from, n)) /\ MovedRight(s, rows, cols, from, n).col = s.col
<1> DEFINE F(r, c) == IF c - n >= from THEN s.buf[r][c - n] ELSE DefaultCell(s)
           b == [r \in DOMAIN s.buf |->
                   IF r \notin rows THEN s.buf[r]
                   ELSE [c \in DOMAIN s.buf[r] |->
                           IF c \in cols THEN F(r, c) ELSE s.buf[r][c]]]
<1>1. \A r \in 0 .. s.lines - 1, c \in 0 .. s.columns - 1 :
          r \in rows /\ c \in cols => F(r, c) \in Cell
  <2> SUFFICES ASSUME NEW r \in 0 .. s.lines - 1, NEW c \in 0 .. s.columns - 1
               PROVE  F(r, c) \in Cell
    OBVIOUS
  <2>1. s.columns \in Nat
    BY DEF ScreenOK, Afloat
  <2>2. c - n >= from => c - n \in 0 .. s.columns - 1
    BY <2>1
  <2> QED
    BY <2>2, CellsOf, DefaultCellOK
<1>2. MovedRight(s, rows, cols, from, n) = [s EXCEPT !.buf = b]
  BY DEF MovedRight, SetCells
<1> HIDE DEF F
<1>3. IsBuffer(b, s.lines, s.columns)
  BY <1>1, CellsOf DEF IsBuffer
<1> HIDE DEF b
<1> QED
  BY <1>2, <1>3, NewBuffer

LEMMA BlankedOK ==
    ASSUME NEW s, ScreenOK(s), NEW rows, NEW cols
    PROVE  Steady(s, Blanked(s, rows, cols)) /\ Blanked(s, rows, cols).col = s.col
<1> DEFINE F(r, c) == DefaultCell(s)
           b == [r \in DOMAIN s.buf |->
                   IF r \notin rows THEN s.buf[r]
                   ELSE [c \in DOMAIN s.buf[r] |->
                           IF c \in cols THEN F(r, c) ELSE s.buf[r][c]]]
<1>1. \A r \in 0 .. s.lines - 1, c \in 0 .. s.columns - 1 :
          r \in rows /\ c \in cols => F(r, c) \in Cell
  BY DefaultCellOK
<1>2. Blanked(s, rows, cols) = [s EXCEPT !.buf = b]
  BY DEF Blanked, SetCells
<1> HIDE DEF F
<1>3. IsBuffer(b, s.lines, s.columns)
  BY <1>1, CellsOf DEF IsBuffer
<1> HIDE DEF b
<1> QED
  BY <1>2, <1>3, NewBuffer

LEMMA ShiftLeftOK ==
    ASSUME NEW s, ScreenOK(s), NEW rows, NEW from \in Nat, NEW right \in Nat, NEW n \in Nat,
           right >= s.columns => Stale(s)
    PROVE  Shifted(s, ShiftLeft(s, rows, from, right, n))
<1> DEFINE first == {r \in rows : \A q \in rows : r <= q}
           t == MovedLeft(s, rows, from .. right, right, n)
           u == MovedLeft(s, first, from .. s.columns - 1 - n, right, n)
           v == Blanked(s, first, from .. right)
<1>0. s.columns \in Nat
  BY DEF ScreenOK, Afloat
<1>1. right < s.columns => Steady(s, t) /\ t.col = s.col
  <2> SUFFICES ASSUME right < s.columns PROVE Steady(s, t) /\ t.col = s.col
    OBVIOUS
  <2>1. \A c \in from .. right : c + n <= right => c + n < s.columns
    BY <1>0
  <2> QED
    BY <2>1, MovedLeftOK
<1>2. Steady(s, u) /\ u.col = s.col
  <2>1. \A c \in from .. s.columns - 1 - n : c + n <= right => c + n < s.columns
    BY <1>0
  <2> DEFINE cols == from .. s.columns - 1 - n
  <2>2. \A c \in cols : c + n <= right => c + n < s.columns
    BY <2>1
  <2> HIDE DEF first, cols
  <2>3. Steady(s, MovedLeft(s, first, cols, right, n)) /\ MovedLeft(s, first, cols, right, n).col = s.col
    BY <2>2, MovedLeftOK
  <2> QED
    BY <2>3 DEF cols
<1>3. Steady(s, v) /\ v.col = s.col
  BY BlankedOK
<1>4. \/ right < s.columns /\ ShiftLeft(s, rows, from, right, n) = t
      \/ right >= s.columns /\ ShiftLeft(s, rows, from, right, n) = Panic(u)
      \/ right >= s.columns /\ ShiftLeft(s, rows, from, right, n) = Panic(v)
  <2>1. s.columns \in Nat
    BY DEF ScreenOK, Afloat
  <2> QED
    BY <2>1 DEF ShiftLeft, MovedLeft, Blanked, SetCells
<1> HIDE DEF t, u, v
<1> QED
  BY <1>1, <1>2, <1>3, <1>4, PanicOK DEF Shifted, Steady, Calm, Kept

LEMMA ShiftRightOK ==
    ASSUME NEW s, ScreenOK(s), NEW rows, NEW from \in Nat, NEW right \in Nat, NEW n \in Nat,
           right >= s.columns => Stale(s)
    PROVE  Shifted(s, ShiftRight(s, rows, from, right, n))
<1> DEFINE first == {r \in rows : \A q \in rows : r <= q}
           t == MovedRight(s, rows, from .. right, from, n)
           v == Blanked(s, first, from .. right)
<1>1. Steady(s, t) /\ t.col = s.col
  BY MovedRightOK
<1>2. Steady(s, s)
  BY StaysOK
<1>3. Steady(s, v) /\ v.col = s.col
  BY BlankedOK
<1>4. \/ right < s.columns /\ ShiftRight(s, rows, from, right, n) = t
      \/ right >= s.columns /\ ShiftRight(s, rows, from, right, n) = Panic(s)
      \/ right >= s.columns /\ ShiftRight(s, rows, from, right, n) = Panic(v)
  <2>1. s.columns \in Nat
    BY DEF ScreenOK, Afloat
  <2> QED
    BY <2>1 DEF ShiftRight, MovedRight, Blanked, SetCells
<1> HIDE DEF t, v
<1> QED
  BY <1>1, <1>2, <1>3, <1>4, PanicOK DEF Shifted, Steady, Calm, Kept

(* Insert and delete, of characters and of columns. *)
LEMMA EditCharactersOK ==
    ASSUME NEW s, ScreenOK(s), NEW n \in Int
    PROVE  /\ Shifted(s, InsertCharacters(s, n)) /\ Shifted(s, DeleteCharacters(s, n))
           /\ Shifted(s, InsertColumns(s, n)) /\ Shifted(s, DeleteColumns(s, n))
<1>1. s.col \in Nat /\ Right(s) \in Nat
  BY Ranges DEF ScreenOK
<1>2. Right(s) >= s.columns => Stale(s)
  BY DEF ScreenOK, Afloat, Right, Stale, StaleRightMargin
<1>3. s.col <= Right(s) => RoomRight(s, n) \in Nat
  BY <1>1 DEF RoomRight, MinOf, AtLeast1
<1>4. Shifted(s, s)
  BY DEF Shifted, Kept
<1>5. ASSUME NEW rows, s.col <= Right(s)
      PROVE  /\ Shifted(s, ShiftRight(s, rows, s.col, Right(s), RoomRight(s, n)))
             /\ Shifted(s, ShiftLeft(s, rows, s.col, Right(s), RoomRight(s, n)))
  BY <1>1, <1>2, <1>3, <1>5, ShiftLeftOK, ShiftRightOK
<1>6. Shifted(s, InsertCharacters(s, n))
  BY <1>4, <1>5 DEF InsertCharacters, EditsChars, BetweenMargins
<1>7. Shifted(s, DeleteCharacters(s, n))
  BY <1>4, <1>5 DEF DeleteCharacters, EditsChars, BetweenMargins
<1>8. Shifted(s, InsertColumns(s, n))
  BY <1>4, <1>5 DEF InsertColumns, EditsColumns
<1>9. Shifted(s, DeleteColumns(s, n))
  BY <1>4, <1>5 DEF DeleteColumns, EditsColumns
<1> QED
  BY <1>6, <1>7, <1>8, <1>9

LEMMA SidewaysOK ==
    ASSUME NEW s, ScreenOK(s), ~s.panicked
    PROVE  /\ ScreenOK(ForwardIndex(s)) /\ (ForwardIndex(s).panicked => Stale(ForwardIndex(s)))
           /\ ScreenOK(BackIndex(s)) /\ (BackIndex(s).panicked => Stale(BackIndex(s)))
<1> DEFINE right == MinOf(Right(s), s.columns - 1)
           rows == ScrollTop(s) .. ScrollBottom(s)
<1>1. s.col \in Nat /\ Right(s) \in Nat /\ Left(s) \in Nat /\ s.columns \in Nat \ {0}
  BY Ranges DEF ScreenOK
<1>2. right \in Nat /\ right < s.columns
  BY <1>1 DEF MinOf
<1>3. \A c \in Nat : Steady(s, [s EXCEPT !.col = c])
  BY Moves, Zenon
<1>4. ~Steady(s, s) => FALSE
  BY StaysOK
<1>5. \A t : Steady(s, t) => ScreenOK(t) /\ (t.panicked => Stale(t))
  BY DEF Steady, Calm
<1> DEFINE sl == ShiftLeft(s, rows, Left(s), right, 1)
           sr == ShiftRight(s, rows, Left(s), right, 1)
<1>6. Shifted(s, sl) /\ Shifted(s, sr)
  BY <1>1, <1>2, ShiftLeftOK, ShiftRightOK
<1>7. \A t : Shifted(s, t) => ScreenOK(t) /\ (t.panicked => Stale(t))
  BY DEF Shifted, Kept, Stale, StaleRightMargin, Has
<1>8. \/ ForwardIndex(s) \in {s, sl}
      \/ ForwardIndex(s) = [s EXCEPT !.col = s.col + 1]
      \/ ForwardIndex(s) = [s EXCEPT !.col = IF s.col < s.columns - 1 THEN s.col + 1 ELSE s.col]
  <2>1. CASE Has(s, "DECLRMM") /\ ~BetweenMargins(s)
    BY <2>1 DEF ForwardIndex
  <2>2. CASE ~(Has(s, "DECLRMM") /\ ~BetweenMargins(s)) /\ CanScrollHorizontal(s) /\ s.col < Right(s)
    BY <2>2 DEF ForwardIndex
  <2>3. CASE ~(Has(s, "DECLRMM") /\ ~BetweenMargins(s)) /\ ~(CanScrollHorizontal(s) /\ s.col < Right(s))
    <3>1. ForwardIndex(s) = IF Left(s) > right THEN s ELSE sl
      BY <2>3 DEF ForwardIndex
    <3> HIDE DEF sl
    <3> QED
      BY <3>1
  <2> QED
    BY <2>1, <2>2, <2>3
<1>9. \/ BackIndex(s) \in {s, sr}
      \/ BackIndex(s) = [s EXCEPT !.col = MaxOf(s.col - 1, 0)]
      \/ s.col > Left(s) /\ BackIndex(s) = [s EXCEPT !.col = s.col - 1]
  <2>1. CASE Has(s, "DECLRMM") /\ ~BetweenMargins(s)
    BY <2>1 DEF BackIndex
  <2>2. CASE ~(Has(s, "DECLRMM") /\ ~BetweenMargins(s)) /\ CanScrollHorizontal(s) /\ s.col > Left(s)
    BY <2>2 DEF BackIndex
  <2>3. CASE ~(Has(s, "DECLRMM") /\ ~BetweenMargins(s)) /\ ~(CanScrollHorizontal(s) /\ s.col > Left(s))
    <3>1. BackIndex(s) = IF Left(s) > right THEN s ELSE sr
      BY <2>3 DEF BackIndex
    <3> HIDE DEF sr
    <3> QED
      BY <3>1
  <2> QED
    BY <2>1, <2>2, <2>3
<1> HIDE DEF sl, sr, right
<1>10. /\ s.col + 1 \in Nat /\ (IF s.col < s.columns - 1 THEN s.col + 1 ELSE s.col) \in Nat
       /\ MaxOf(s.col - 1, 0) \in Nat /\ (s.col > Left(s) => s.col - 1 \in Nat)
  BY <1>1 DEF MaxOf
<1>11. ScreenOK(ForwardIndex(s)) /\ (ForwardIndex(s).panicked => Stale(ForwardIndex(s)))
  BY <1>3, <1>4, <1>5, <1>6, <1>7, <1>8, <1>10
<1>12. ScreenOK(BackIndex(s)) /\ (BackIndex(s).panicked => Stale(BackIndex(s)))
  BY <1>3, <1>4, <1>5, <1>6, <1>7, <1>9, <1>10
<1> QED
  BY <1>11, <1>12

-----------------------------------------------------------------------------
(* Drawing. *)

Cause(s) == Stale(s) \/ s.col > s.columns \/ NilMap \in {s.lineWrapped, s.tabStops}
Fine(s) == ScreenOK(s) /\ (s.panicked => Cause(s))

LEMMA CalmIsFine == ASSUME NEW s, NEW t, ~s.panicked, Calm(s, t) PROVE Fine(t)
  BY DEF Calm, Fine

LEMMA ShiftedIsFine == ASSUME NEW s, NEW t, ~s.panicked, Shifted(s, t) PROVE Fine(t)
  BY DEF Shifted, Fine, Cause, Stale, StaleRightMargin, Has, Kept

LEMMA CombineAtOK ==
    ASSUME NEW s, ScreenOK(s), ~s.panicked, NEW x \in Seq(Runes),
           NEW row \in Int, row < s.lines, NEW col \in Nat, col >= s.columns => s.col > s.columns
    PROVE  Fine(CombineAt(s, x, row, col))
<1> DEFINE cell == [s.buf[row][col] EXCEPT !.d = @ \o x]
           line == [s.buf[row] EXCEPT ![col] = cell]
           b == [s.buf EXCEPT ![row] = line]
<1>1. s.columns \in Nat /\ s.lines \in Nat
  BY DEF ScreenOK, Afloat
<1>2. CASE row < 0
  <2>1. CombineAt(s, x, row, col) = s
    BY <1>2 DEF CombineAt
  <2> QED
    BY <2>1 DEF Fine
<1>3. CASE row >= 0 /\ col >= s.columns
  <2>1. CombineAt(s, x, row, col) = Panic(s)
    BY <1>1, <1>3 DEF CombineAt
  <2> QED
    BY <1>3, <2>1, PanicOK DEF Fine, Cause, Kept
<1>4. CASE row >= 0 /\ col < s.columns
  <2>1. CombineAt(s, x, row, col) = [s EXCEPT !.buf = b]
    <3>1. ~(row < 0) /\ ~(row >= 0 /\ col >= s.columns)
      BY <1>1, <1>4
    <3> QED
      BY <3>1 DEF CombineAt
  <2>2. row \in 0 .. s.lines - 1 /\ col \in 0 .. s.columns - 1
    BY <1>1, <1>4
  <2>3. s.buf[row][col] \in Cell
    BY <2>2, CellsOf
  <2>4. cell \in Cell
    <3>1. s.buf[row][col].d \in Seq(Runes)
      BY <2>3 DEF Cell
    <3>2. s.buf[row][col].d \o x \in Seq(Runes)
      BY <3>1
    <3> QED
      BY <2>3, <3>2 DEF Cell
  <2> HIDE DEF cell
  <2>5. IsBuffer(b, s.lines, s.columns)
    <3>1. line \in [0 .. s.columns - 1 -> Cell]
      BY <2>2, <2>4, CellsOf
    <3> HIDE DEF line
    <3> QED
      BY <2>2, <3>1 DEF IsBuffer, ScreenOK, Afloat
  <2> HIDE DEF b
  <2>6. Steady(s, [s EXCEPT !.buf = b])
    BY <2>5, NewBuffer
  <2> QED
    BY <2>1, <2>6, CalmIsFine DEF Steady
<1> QED
  BY <1>1, <1>2, <1>3, <1>4

LEMMA CombineOK ==
    ASSUME NEW s, ScreenOK(s), ~s.panicked, NEW x \in Seq(Runes) PROVE Fine(Combine(s, x))
<1>1. s.columns \in Nat \ {0} /\ s.lines \in Nat /\ s.row \in 0 .. s.lines - 1 /\ s.col \in Nat
  BY DEF ScreenOK, Afloat
<1>2. CASE s.col > 0
  <2>1. s.row \in Int /\ s.row < s.lines /\ s.col - 1 \in Nat /\ (s.col - 1 >= s.columns => s.col > s.columns)
    BY <1>1, <1>2
  <2> QED
    BY <1>2, <2>1, CombineAtOK DEF Combine
<1>3. CASE ~(s.col > 0)
  <2>1. s.row - 1 \in Int /\ s.row - 1 < s.lines /\ s.columns - 1 \in Nat /\ ~(s.columns - 1 >= s.columns)
    BY <1>1
  <2> QED
    BY <1>3, <2>1, CombineAtOK DEF Combine
<1> QED
  BY <1>2, <1>3

LEMMA ClearWidePairAtOK ==
    ASSUME NEW n \in Nat, NEW line \in [0 .. n - 1 -> Cell], NEW col \in Int
    PROVE  ClearWidePairAt(line, col) \in [0 .. n - 1 -> Cell]
<1> DEFINE tail == IF Width(line[col].d) = 2 /\ col + 1 \in DOMAIN line
                   THEN [line EXCEPT ![col + 1].d = Blank] ELSE line
<1>1. \A x \in Cell : [x EXCEPT !.d = Blank] \in Cell
  <2>1. Blank \in Seq(Runes)
    BY DEF Blank, Runes
  <2> QED
    BY <2>1 DEF Cell
<1>2. \A l \in [0 .. n - 1 -> Cell], k \in 0 .. n - 1 : [l EXCEPT ![k].d = Blank] \in [0 .. n - 1 -> Cell]
  BY <1>1
<1>3. tail \in [0 .. n - 1 -> Cell]
  BY <1>2
<1>4. ClearWidePairAt(line, col)
        = IF col \notin DOMAIN line THEN line
          ELSE IF tail[col].d = Cont /\ col > 0 /\ Width(tail[col - 1].d) = 2
               THEN [tail EXCEPT ![col - 1].d = Blank] ELSE tail
  BY DEF ClearWidePairAt
<1> HIDE DEF tail
<1>5. CASE col \in 0 .. n - 1 /\ col > 0
  <2>1. col - 1 \in 0 .. n - 1
    BY <1>5
  <2>2. [tail EXCEPT ![col - 1].d = Blank] \in [0 .. n - 1 -> Cell]
    BY <1>2, <1>3, <2>1
  <2> QED
    BY <1>3, <1>4, <1>5, <2>2
<1>6. CASE ~(col \in 0 .. n - 1 /\ col > 0)
  BY <1>3, <1>4, <1>6
<1> QED
  BY <1>5, <1>6

LEMMA PutClusterOK ==
    ASSUME NEW s, ScreenOK(s), NEW x \in Seq(Runes)
    PROVE  /\ ScreenOK(PutCluster(s, x)) /\ Kept(s, PutCluster(s, x))
           /\ PutCluster(s, x).col = s.col
           /\ PutCluster(s, x).panicked => s.panicked \/ s.col >= s.columns
<1> DEFINE Line == [0 .. s.columns - 1 -> Cell]
           one == ClearWidePairAt(s.buf[s.row], s.col)
           wide == [ClearWidePairAt(one, s.col + 1) EXCEPT ![s.col + 1] = [d |-> Cont, a |-> s.attr]]
           two == IF Width(x) = 2 /\ s.col + 1 < s.columns THEN wide ELSE one
           line == [two EXCEPT ![s.col] = [d |-> x, a |-> s.attr]]
<1>1. /\ s.columns \in Nat /\ s.row \in 0 .. s.lines - 1 /\ s.attr \in SUBSET Flags
      /\ s.col \in Nat /\ s.col \in Int /\ s.col + 1 \in Int
  BY SMTT(30) DEF ScreenOK, Afloat
<1>2. s.buf[s.row] \in Line
  BY <1>1, CellsOf
<1>3. [d |-> Cont, a |-> s.attr] \in Cell /\ [d |-> x, a |-> s.attr] \in Cell
  <2>1. <<>> \in Seq(Runes)
    OBVIOUS
  <2> QED
    BY <1>1, <2>1, CellOK DEF Cont
<1>4. one \in Line
  BY <1>1, <1>2, ClearWidePairAtOK
<1>5. PutCluster(s, x) = IF s.col >= s.columns THEN Panic(s) ELSE SetLine(s, s.row, line)
  BY DEF PutCluster
<1> HIDE DEF one
<1>6. ClearWidePairAt(one, s.col + 1) \in Line
  BY <1>1, <1>4, ClearWidePairAtOK
<1>7. wide \in Line
  BY <1>3, <1>6
<1> HIDE DEF wide
<1>8. line \in Line
  BY <1>3, <1>4, <1>7
<1> HIDE DEF line
<1>9. CASE s.col >= s.columns
  BY <1>5, <1>9, PanicOK DEF Kept
<1>10. CASE s.col < s.columns
  <2> DEFINE b == [s.buf EXCEPT ![s.row] = line]
  <2>1. PutCluster(s, x) = [s EXCEPT !.buf = b]
    BY <1>1, <1>5, <1>10 DEF SetLine
  <2>2. IsBuffer(b, s.lines, s.columns)
    BY <1>1, <1>8 DEF IsBuffer, ScreenOK, Afloat
  <2> HIDE DEF b
  <2>3. Steady(s, [s EXCEPT !.buf = b]) /\ [s EXCEPT !.buf = b].col = s.col
    BY <2>2, NewBuffer
  <2> DEFINE t == [s EXCEPT !.buf = b]
  <2> HIDE DEF t
  <2> QED
    BY <2>1, <2>3 DEF Steady, Calm, t
<1> QED
  BY <1>1, <1>9, <1>10

LEMMA MarkWrappedOK ==
    ASSUME NEW s, ScreenOK(s)
    PROVE  /\ ScreenOK(MarkWrapped(s)) /\ Kept(s, MarkWrapped(s)) /\ MarkWrapped(s).col = s.col
           /\ MarkWrapped(s).panicked => s.panicked \/ MarkWrapped(s).lineWrapped = NilMap
<1>1. CASE s.lineWrapped = NilMap
  BY <1>1 DEF MarkWrapped, Panic, ScreenOK, Afloat, HasFields, Kept
<1>2. CASE s.lineWrapped # NilMap
  BY <1>2 DEF MarkWrapped, ScreenOK, Afloat, HasFields, Kept
<1> QED
  BY <1>1, <1>2

LEMMA FeedOK ==      \* a line feed after a carriage return
    ASSUME NEW s, ScreenOK(s)
    PROVE  /\ Steady(s, LineFeed(CarriageReturn(s)))
           /\ LineFeed(CarriageReturn(s)).col < s.columns
<1>1. Steady(s, CarriageReturn(s)) /\ CarriageReturn(s).col < s.columns
  BY CarriageReturnOK
<1>2. ScreenOK(CarriageReturn(s)) /\ CarriageReturn(s).columns = s.columns
  BY <1>1 DEF Steady, Calm, Kept
<1> QED
  BY <1>1, <1>2, LineFeedOK, SteadyTwice

LEMMA WrapWideOK ==
    ASSUME NEW s, ScreenOK(s), ~s.panicked
    PROVE  /\ ScreenOK(WrapWide(s)) /\ Kept(s, WrapWide(s))
           /\ WrapWide(s).panicked => s.col >= s.columns \/ WrapWide(s).lineWrapped = NilMap
           /\ ~WrapWide(s).panicked => WrapWide(s).col < s.columns
<1> DEFINE b == [s.buf EXCEPT ![s.row] = [@ EXCEPT ![s.col] = DefaultCell(s)]]
           t == [s EXCEPT !.buf = b]
           u == MarkWrapped(t)
<1>1. s.columns \in Nat /\ s.col \in Nat /\ s.row \in 0 .. s.lines - 1
  BY DEF ScreenOK, Afloat
<1>2. CASE s.col >= s.columns
  <2>1. WrapWide(s) = Panic(s)
    BY <1>2 DEF WrapWide
  <2>2. Panic(s).panicked
    BY DEF Panic, ScreenOK, Afloat, HasFields
  <2> QED
    BY <1>2, <2>1, <2>2, PanicOK
<1>3. CASE s.col < s.columns
  <2>1. IsBuffer(b, s.lines, s.columns)
    BY <1>1, <1>3, CellsOf, DefaultCellOK DEF IsBuffer, ScreenOK, Afloat
  <2>2. WrapWide(s) = IF u.panicked THEN u ELSE LineFeed(CarriageReturn(u))
    BY <1>1, <1>3 DEF WrapWide, Then
  <2> HIDE DEF b
  <2>3. Steady(s, t)
    BY <2>1, NewBuffer
  <2> HIDE DEF t
  <2>4. /\ ScreenOK(u) /\ Kept(s, u) /\ (u.panicked => u.lineWrapped = NilMap)
    BY <2>3, MarkWrappedOK DEF Steady, Calm, Kept
  <2> HIDE DEF u
  <2>5. Steady(u, LineFeed(CarriageReturn(u))) /\ LineFeed(CarriageReturn(u)).col < s.columns
    BY <2>4, FeedOK DEF Kept
  <2> QED
    BY <2>2, <2>4, <2>5 DEF Steady, Calm, Kept
<1> QED
  BY <1>1, <1>2, <1>3

LEMMA WidthIs == ASSUME NEW x PROVE Width(x) \in {0, 1, 2}
  BY DEF Width

LEMMA MakeRoomOK ==
    ASSUME NEW s, ScreenOK(s), ~s.panicked, NEW w \in {0, 1, 2}
    PROVE  LET t == MakeRoom(s, w)
           IN  /\ ScreenOK(t) /\ Kept(s, t)
               /\ t.panicked => s.col >= s.columns \/ Stale(s) \/ t.lineWrapped = NilMap
               /\ ~t.panicked => t.col = s.col \/ t.col < s.columns
<1> DEFINE fits == ~(/\ w = 2 /\ s.col = DrawLimit(s) /\ s.col > 0
                     /\ s.row < s.lines - 1 /\ Has(s, "DECAWM"))
           t == IF fits THEN s ELSE WrapWide(s)
           u == IF Has(t, "IRM") THEN InsertCharacters(t, w) ELSE t
<1>1. MakeRoom(s, w) = IF t.panicked THEN t ELSE u
  BY DEF MakeRoom, Then
<1>2. /\ ScreenOK(t) /\ Kept(s, t)
      /\ t.panicked => s.col >= s.columns \/ t.lineWrapped = NilMap
      /\ ~t.panicked => t.col = s.col \/ t.col < s.columns
  BY WrapWideOK DEF Kept
<1> HIDE DEF fits, t
<1>3. ~t.panicked => Shifted(t, u)
  <2>1. w \in Int
    OBVIOUS
  <2>2. Shifted(t, InsertCharacters(t, w))
    BY <1>2, <2>1, EditCharactersOK
  <2>3. Shifted(t, t)
    BY <1>2 DEF Shifted, Kept
  <2> QED
    BY <2>2, <2>3
<1> HIDE DEF u
<1>4. ~t.panicked => ScreenOK(u) /\ Kept(s, u) /\ u.col = t.col /\ (u.panicked => Stale(s))
  BY <1>2, <1>3 DEF Shifted, Kept, Stale, StaleRightMargin, Has
<1> QED
  BY <1>1, <1>2, <1>4

LEMMA AdvanceOK ==
    ASSUME NEW s, ScreenOK(s), ~s.panicked, NEW x \in Seq(Runes) PROVE Fine(Advance(s, x))
<1> DEFINE limit == DrawLimit(s)
           next == s.col + Width(x)
           t == [s EXCEPT !.lastDrawn = x]
           m == MarkWrapped(t)
           after == IF Has(s, "DECLRMM") THEN limit ELSE limit + 1
<1>1. limit \in Nat /\ next \in Nat /\ after \in Nat
  <2>1. s.col \in Nat /\ s.rightMargin \in Nat /\ s.columns \in Nat \ {0} /\ Width(x) \in Nat
    <3>1. Width(x) \in Nat
      BY WidthIs
    <3> QED
      BY <3>1 DEF ScreenOK, Afloat
  <2> QED
    BY <2>1 DEF DrawLimit
<1>2. Steady(s, t)
  BY DEF Steady, Calm, Kept, ScreenOK, Afloat, HasFields
<1> DEFINE n == [t EXCEPT !.col = next]
           e == [m EXCEPT !.wrapNext = TRUE, !.col = limit + 1]
           o == [t EXCEPT !.col = after]
<1>3. \/ Advance(s, x) = n \/ Advance(s, x) = m \/ Advance(s, x) = o
      \/ (~m.panicked /\ Advance(s, x) = e)
  <2>1. CASE next <= limit
    <3>1. ~(next > limit)
      BY <1>1, <2>1
    <3>2. Advance(s, x) = n
      BY <2>1, <3>1 DEF Advance, Then
    <3> QED
      BY <3>2
  <2>2. CASE ~(next <= limit) /\ Has(s, "DECAWM")
    <3>1. next > limit
      BY <1>1, <2>2
    <3>2. Advance(s, x) = IF m.panicked THEN m ELSE e
      BY <2>2, <3>1 DEF Advance, Then
    <3> HIDE DEF m, e
    <3> QED
      BY <3>2
  <2>3. CASE ~(next <= limit) /\ ~Has(s, "DECAWM")
    <3>1. Advance(s, x) = o
      BY <2>3 DEF Advance, Then
    <3> QED
      BY <3>1
  <2> QED
    BY <2>1, <2>2, <2>3
<1> HIDE DEF limit, next, t, after
<1>4. ScreenOK(t) /\ ~t.panicked
  BY <1>2 DEF Steady, Calm
<1>5. ScreenOK(m) /\ (m.panicked => m.lineWrapped = NilMap)
  BY <1>4, MarkWrappedOK
<1> HIDE DEF m
<1>6. Steady(t, n) /\ Steady(t, o)
  <2>1. \A c \in Nat : Steady(t, [t EXCEPT !.col = c])
    BY <1>4, Moves, Zenon
  <2> QED
    BY <1>1, <2>1
<1>7. Steady(m, e)
  <2>1. \A c \in Nat : Steady(m, [m EXCEPT !.wrapNext = TRUE, !.col = c])
    BY <1>5, Moves, Zenon
  <2>2. limit + 1 \in Nat
    BY <1>1
  <2> QED
    BY <2>1, <2>2, Zenon
<1> HIDE DEF n, e, o
<1>8. Fine(m)
  BY <1>5 DEF Fine, Cause
<1>9. Fine(n) /\ Fine(o) /\ (~m.panicked => Fine(e))
  BY <1>4, <1>6, <1>7, CalmIsFine DEF Steady
<1> QED
  BY <1>3, <1>8, <1>9

LEMMA DrawWideOK ==
    ASSUME NEW s, ScreenOK(s), ~s.panicked, NEW x \in Seq(Runes) PROVE Fine(DrawWide(s, x))
<1> DEFINE w == IF s.wrapNext THEN WrapPending(s) ELSE s
           c == MinOf(w.col, DrawLimit(s))
           t == [w EXCEPT !.col = c]
           u == MakeRoom(t, Width(x))
           v == IF u.panicked THEN u ELSE PutCluster(u, x)
<1>1. DrawWide(s, x) = IF v.panicked THEN v ELSE Advance(v, x)
  BY DEF DrawWide, Then
<1>2. Steady(s, w)
  <2> DEFINE y == [s EXCEPT !.wrapNext = FALSE]
  <2>1. WrapPending(s) = LineFeed(CarriageReturn(y))
    BY DEF WrapPending
  <2>2. Steady(s, y)
    BY Moves, Zenon
  <2> HIDE DEF y
  <2>3. Steady(y, LineFeed(CarriageReturn(y)))
    BY <2>2, FeedOK DEF Steady, Calm
  <2> QED
    BY <2>1, <2>2, <2>3, SteadyTwice, StaysOK
<1> HIDE DEF w
<1>3. c \in Nat /\ (c >= s.columns => Stale(s))
  <2>1. w.col \in Nat /\ s.columns \in Nat \ {0} /\ s.rightMargin \in Nat
    BY <1>2 DEF Steady, Calm, ScreenOK, Afloat
  <2> QED
    BY <2>1 DEF MinOf, DrawLimit, Stale, StaleRightMargin
<1>4. ScreenOK(w) /\ "col" \in DOMAIN w
  BY <1>2 DEF Steady, Calm, ScreenOK, Afloat, HasFields
<1>5. t.col = c
  BY <1>4
<1> HIDE DEF c
<1>6. Steady(w, t)
  BY <1>3, <1>4, Moves, Zenon
<1> HIDE DEF t
<1>7. Steady(s, t) /\ ScreenOK(t) /\ ~t.panicked /\ t.columns = s.columns /\ (Stale(t) <=> Stale(s))
  BY <1>2, <1>6, SteadyTwice DEF Steady, Calm, Kept, Stale, StaleRightMargin, Has
<1>8. /\ ScreenOK(u) /\ Kept(s, u)
      /\ u.panicked => Stale(s) \/ u.lineWrapped = NilMap
      /\ ~u.panicked => (u.col >= s.columns => Stale(s))
  <2>1. Width(x) \in {0, 1, 2}
    BY WidthIs
  <2>2. u.col \in Nat /\ s.columns \in Nat
    BY <2>1, <1>7, MakeRoomOK DEF ScreenOK, Afloat
  <2> QED
    BY <1>3, <1>5, <1>7, <2>1, <2>2, MakeRoomOK DEF Kept, Steady
<1> HIDE DEF u
<1>9. /\ ScreenOK(v) /\ Kept(s, v)
      /\ v.panicked => Stale(s) \/ v.lineWrapped = NilMap
  BY <1>8, PutClusterOK DEF Kept
<1> HIDE DEF v
<1>10. v.panicked => Fine(v)
  BY <1>9 DEF Fine, Cause, Kept, Stale, StaleRightMargin, Has
<1>11. ~v.panicked => Fine(Advance(v, x))
  BY <1>9, AdvanceOK
<1> QED
  BY <1>1, <1>10, <1>11

-----------------------------------------------------------------------------
(* Methods that repeat another one.  Each fold has laws of its own.        *)

(* A set of naturals without a smallest element is empty (WellFoundedInduction). *)
LEMMA NaturalInduction ==
    \A S : 0 \in S /\ (\A n \in Nat : n \in S => n + 1 \in S) => Nat \subseteq S
<1> DEFINE R == {z \in Nat \X Nat : z[1] < z[2]}
<1>1. IsWellFoundedOn(R, Nat)
  BY NatLessThanWellFounded DEF OpToRel
<1> SUFFICES ASSUME NEW S, 0 \in S, \A n \in Nat : n \in S => n + 1 \in S, NEW k \in Nat \ S PROVE FALSE
  OBVIOUS
<1> DEFINE U == Nat \ S
<1>2. U \subseteq Nat /\ U # {}
  OBVIOUS
<1>3. PICK x \in U : \A y \in U : ~(<<y, x>> \in R)
  <2> HIDE DEF U, R
  <2> QED
    BY <1>1, <1>2, WFMin
<1>4. x # 0 /\ x - 1 \in Nat
  OBVIOUS
<1>5. x - 1 \in U
  BY <1>4
<1>6. <<x - 1, x>> \in R
  BY <1>4
<1> QED
  BY <1>3, <1>5, <1>6

CursorBackStep(p, t, i) == MoveLeft1(t)
BackLaws == INSTANCE FoldLaws WITH Op <- CursorBackStep
ForwardTabStep(p, t, i) == Tab(t)
ForwardTabLaws == INSTANCE FoldLaws WITH Op <- ForwardTabStep
BackTabStep(p, t, i) == BackTab1(t)
BackTabLaws == INSTANCE FoldLaws WITH Op <- BackTabStep
DrawStep(p, acc, raw) ==
    LET c == Translate(p, raw)
    IN  IF acc.stop \/ acc.s.panicked THEN acc
        ELSE IF Width(c) > 0 THEN [acc EXCEPT !.s = DrawWide(@, c)]
        ELSE IF Combining(c) THEN [acc EXCEPT !.s = Combine(@, c)]
        ELSE [acc EXCEPT !.stop = TRUE]
DrawLaws == INSTANCE FoldLaws WITH Op <- DrawStep
RepeatStep(p, t, i) == Then(t, LAMBDA u : Draw(u, <<u.lastDrawn>>))
RepeatLaws == INSTANCE FoldLaws WITH Op <- RepeatStep
LEMMA RepeatInduction ==
    /\ BackLaws!Induction /\ ForwardTabLaws!Induction /\ BackTabLaws!Induction
    /\ DrawLaws!Induction /\ RepeatLaws!Induction
  BY NaturalInduction DEF BackLaws!Induction, ForwardTabLaws!Induction, BackTabLaws!Induction,
     DrawLaws!Induction, RepeatLaws!Induction

Times(n) == [i \in 1 .. AtLeast1(n) |-> i]
LEMMA TimesSeq == ASSUME NEW n \in Int PROVE Times(n) \in Seq(Int)
<1>1. AtLeast1(n) \in Nat
  BY DEF AtLeast1
<1> QED
  BY <1>1 DEF Times

LEMMA CursorBackOK == ASSUME NEW s, ScreenOK(s), NEW n \in Int PROVE Steady(s, CursorBack(s, n))
<1>1. CursorBack(s, n) = BackLaws!Fold(0, s, Times(n))
  BY DEF CursorBack, FoldLeft, MapThenFoldSet, Max, BackLaws!Fold, BackLaws!Greatest, CursorBackStep, Times
<1>2. PICK R : BackLaws!Within(0, s, Times(n), Int, R)
  BY TimesSeq, RepeatInduction, BackLaws!FoldWithin
<1> DEFINE T == {t \in R : Steady(s, t)}
<1>3. \A t : Steady(s, t) => Steady(s, CursorBackStep(0, t, 0))
  BY MoveLeft1OK, SteadyTwice DEF CursorBackStep, Steady, Calm
<1>4. \A t, i : CursorBackStep(0, t, i) = CursorBackStep(0, t, 0)
  BY DEF CursorBackStep
<1>5. BackLaws!Fold(0, s, Times(n)) \in T
  BY <1>2, <1>3, <1>4, StaysOK DEF BackLaws!Within
<1> QED
  BY <1>1, <1>5

LEMMA LeastOf ==
    ASSUME NEW B \in SUBSET Nat, B # {} PROVE \E c \in B : \A d \in B : c <= d
<1> SUFFICES ASSUME \A c \in B : \E d \in B : ~(c <= d) PROVE FALSE
  OBVIOUS
<1> DEFINE S == {k \in Nat : \A d \in B : d >= k}
<1>1. 0 \in S
  OBVIOUS
<1>2. ASSUME NEW k \in Nat, k \in S PROVE k + 1 \in S
  <2>1. k \notin B
    BY <1>2
  <2> QED
    BY <1>2, <2>1
<1>3. Nat \subseteq S
  BY <1>1, <1>2, RepeatInduction, BackLaws!SetInduction
<1>4. PICK b \in B : TRUE
  OBVIOUS
<1>5. b + 1 \in S
  BY <1>3
<1> QED
  BY <1>5

LEMMA GreatestOf ==
    ASSUME NEW n \in Nat, NEW B \in SUBSET (0 .. n), B # {} PROVE \E c \in B : \A d \in B : d <= c
<1> DEFINE D == {n - c : c \in B}
<1>1. D \in SUBSET Nat /\ D # {}
  <2>1. PICK b \in B : TRUE
    OBVIOUS
  <2>2. n - b \in D
    OBVIOUS
  <2> QED
    BY <2>2
<1>2. PICK e \in D : \A d \in D : e <= d
  BY <1>1, LeastOf
<1>3. PICK c \in B : e = n - c
  OBVIOUS
<1>4. ASSUME NEW d \in B PROVE d <= c
  <2>1. n - d \in D
    OBVIOUS
  <2>2. n - c <= n - d
    BY <1>2, <1>3, <2>1
  <2> QED
    BY <2>2
<1> QED
  BY <1>4

LEMMA TabOK == ASSUME NEW s, ScreenOK(s) PROVE Steady(s, Tab(s))
<1> DEFINE keep == s.wrapNext /\ ~Has(s, "MoreFix")
           w == [s EXCEPT !.wrapNext = FALSE]
           t == IF s.wrapNext /\ Has(s, "MoreFix") THEN CarriageReturn(LineFeed(w)) ELSE s
           later == {c \in s.tabStops : t.col < c}
           stop == IF later = {} THEN DrawLimit(s)
                   ELSE CHOOSE c \in later : \A d \in later : c <= d
           col == MinOf(stop, DrawLimit(s))
           wrap == keep /\ t.wrapNext
<1>1. Steady(s, t)
  <2>1. Steady(s, w)
    BY Moves, Zenon
  <2> HIDE DEF w
  <2>2. Steady(w, LineFeed(w))
    BY <2>1, LineFeedOK DEF Steady, Calm
  <2>3. Steady(LineFeed(w), CarriageReturn(LineFeed(w)))
    BY <2>2, CarriageReturnOK DEF Steady, Calm
  <2> QED
    BY <2>1, <2>2, <2>3, SteadyTwice, StaysOK
<1>2. Tab(s) = [t EXCEPT !.col = col, !.wrapNext = wrap]
  BY <1>1 DEF Tab, Steady, Calm, ScreenOK, Afloat, HasFields
<1> HIDE DEF t
<1>3. t.col \in Nat /\ DrawLimit(s) \in Nat /\ wrap \in BOOLEAN
  <2>1. /\ t.col \in Nat /\ s.wrapNext \in BOOLEAN /\ t.wrapNext \in BOOLEAN
        /\ s.rightMargin \in Nat /\ s.columns \in Nat \ {0}
    BY <1>1 DEF Steady, Calm, ScreenOK, Afloat
  <2>2. DrawLimit(s) \in Nat
    BY <2>1 DEF DrawLimit
  <2>3. wrap \in BOOLEAN
    OBVIOUS
  <2> QED
    BY <2>1, <2>2, <2>3
<1>4. stop \in Nat
  <2>1. later \in SUBSET Nat
    BY <1>1, <1>3 DEF ScreenOK, Afloat
  <2> HIDE DEF later
  <2>2. later # {} => \E c \in later : \A d \in later : c <= d
    BY <2>1, LeastOf
  <2> QED
    BY <1>3, <2>1, <2>2
<1> HIDE DEF stop
<1>5. col \in Nat
  BY <1>3, <1>4 DEF MinOf
<1> HIDE DEF col, wrap
<1>6. \A c \in Nat, b \in BOOLEAN : Steady(t, [t EXCEPT !.col = c, !.wrapNext = b])
  BY <1>1, SMTT(30) DEF Steady, Calm, Kept, ScreenOK, Afloat, HasFields
<1> QED
  BY <1>1, <1>2, <1>3, <1>5, <1>6, SteadyTwice, Zenon

LEMMA BackTab1OK == ASSUME NEW s, ScreenOK(s) PROVE Steady(s, BackTab1(s))
<1> DEFINE before == {c \in s.tabStops : 0 < c /\ c < s.col}
           last == CHOOSE c \in before : \A d \in before : c >= d
           col == IF before = {} THEN 0 ELSE last
<1>1. s.col \in Nat /\ before \in SUBSET (0 .. s.col)
  BY DEF ScreenOK, Afloat
<1>2. BackTab1(s) = [s EXCEPT !.col = col]
  BY DEF BackTab1
<1> HIDE DEF before
<1>3. col \in Nat
  <2>1. before # {} => \E c \in before : \A d \in before : d <= c
    BY <1>1, GreatestOf
  <2>2. before # {} => \E c \in before : \A d \in before : c >= d
    BY <1>1, <2>1
  <2>3. before # {} => last \in before
    BY <2>2
  <2> HIDE DEF last
  <2>4. before # {} => last \in 0 .. s.col
    BY <1>1, <2>3
  <2>5. \A c \in 0 .. s.col : c \in Nat
    BY <1>1
  <2> QED
    BY <2>4, <2>5
<1> HIDE DEF col
<1>4. \A c \in Nat : Steady(s, [s EXCEPT !.col = c])
  BY Moves, Zenon
<1> QED
  BY <1>2, <1>3, <1>4

LEMMA TabsOK ==
    ASSUME NEW s, ScreenOK(s), NEW n \in Int
    PROVE  Steady(s, CursorForwardTab(s, n)) /\ Steady(s, CursorBackTab(s, n))
<1> DEFINE w == [s EXCEPT !.wrapNext = FALSE]
<1>1. Steady(s, w)
  BY Moves, Zenon
<1>2. CursorForwardTab(s, n) = ForwardTabLaws!Fold(0, w, Times(n))
  BY DEF CursorForwardTab, FoldLeft, MapThenFoldSet, Max, ForwardTabLaws!Fold,
         ForwardTabLaws!Greatest, ForwardTabStep, Times
<1>3. CursorBackTab(s, n) = BackTabLaws!Fold(0, w, Times(n))
  BY DEF CursorBackTab, FoldLeft, MapThenFoldSet, Max, BackTabLaws!Fold,
         BackTabLaws!Greatest, BackTabStep, Times
<1> HIDE DEF w
<1>4. Steady(s, ForwardTabLaws!Fold(0, w, Times(n)))
  <2>1. PICK R : ForwardTabLaws!Within(0, w, Times(n), Int, R)
    BY TimesSeq, RepeatInduction, ForwardTabLaws!FoldWithin
  <2> DEFINE T == {t \in R : Steady(s, t)}
  <2>2. \A t, i : Steady(s, t) => Steady(s, ForwardTabStep(0, t, i))
    BY TabOK, SteadyTwice DEF ForwardTabStep, Steady, Calm
  <2>3. ForwardTabLaws!Fold(0, w, Times(n)) \in T
    BY <1>1, <2>1, <2>2 DEF ForwardTabLaws!Within
  <2> QED
    BY <2>3
<1>5. Steady(s, BackTabLaws!Fold(0, w, Times(n)))
  <2>1. PICK R : BackTabLaws!Within(0, w, Times(n), Int, R)
    BY TimesSeq, RepeatInduction, BackTabLaws!FoldWithin
  <2> DEFINE T == {t \in R : Steady(s, t)}
  <2>2. \A t, i : Steady(s, t) => Steady(s, BackTabStep(0, t, i))
    BY BackTab1OK, SteadyTwice DEF BackTabStep, Steady, Calm
  <2>3. BackTabLaws!Fold(0, w, Times(n)) \in T
    BY <1>1, <2>1, <2>2 DEF BackTabLaws!Within
  <2> QED
    BY <2>3
<1> QED
  BY <1>2, <1>3, <1>4, <1>5

LEMMA TabStopsOK ==
    ASSUME NEW s, ScreenOK(s), ~s.panicked, NEW how
    PROVE  Fine(SetTabStop(s)) /\ Fine(ClearTabStop(s, how))
<1>1. \A u \in SUBSET (Nat \union {-1}) : Calm(s, [s EXCEPT !.tabStops = u])
  BY DEF Calm, ScreenOK, Afloat, HasFields
<1>2. s.tabStops \subseteq Nat \union {-1} /\ s.col \in Nat
  BY DEF ScreenOK, Afloat
<1>3. Fine(s)
  BY DEF Fine
<1>4. Fine(ClearTabStop(s, how))
  <2>1. s.tabStops \ {s.col} \in SUBSET (Nat \union {-1}) /\ {} \in SUBSET (Nat \union {-1})
    BY <1>2
  <2>2. \/ ClearTabStop(s, how) = s
        \/ ClearTabStop(s, how) = [s EXCEPT !.tabStops = s.tabStops \ {s.col}]
        \/ ClearTabStop(s, how) = [s EXCEPT !.tabStops = {}]
    BY DEF ClearTabStop
  <2> QED
    BY <1>1, <1>3, <2>1, <2>2, CalmIsFine
<1>5. CASE s.tabStops = NilMap
  <2>1. SetTabStop(s) = Panic(s)
    BY <1>5 DEF SetTabStop
  <2>2. Panic(s).tabStops = NilMap
    BY <1>5 DEF Panic, ScreenOK, Afloat, HasFields
  <2> QED
    BY <2>1, <2>2, PanicOK, <1>4 DEF Fine, Cause
<1>6. CASE s.tabStops # NilMap
  <2>1. s.tabStops \union {s.col} \in SUBSET (Nat \union {-1})
    BY <1>2
  <2>2. SetTabStop(s) = [s EXCEPT !.tabStops = s.tabStops \union {s.col}]
    BY <1>6 DEF SetTabStop
  <2>3. Calm(s, [s EXCEPT !.tabStops = s.tabStops \union {s.col}])
    BY <1>1, <2>1
  <2> QED
    BY <2>2, <2>3, CalmIsFine, <1>4
<1> QED
  BY <1>4, <1>5, <1>6

LEMMA TranslateOK == ASSUME NEW s, NEW x \in Seq(Runes) PROVE Translate(s, x) \in Seq(Runes)
<1> DEFINE y == [i \in DOMAIN x |-> IF x[i] = "a" THEN "line" ELSE x[i]]
<1>1. y \in Seq(Runes)
  <2>1. Len(x) \in Nat /\ DOMAIN x = 1 .. Len(x) /\ \A i \in 1 .. Len(x) : x[i] \in Runes
    OBVIOUS
  <2>2. "line" \in Runes
    BY Zenon DEF Runes
  <2>3. y \in [1 .. Len(x) -> Runes]
    BY <2>1, <2>2
  <2> QED
    BY <2>1, <2>3
<1>2. Translate(s, x) = x \/ Translate(s, x) = y
  BY DEF Translate
<1> QED
  BY <1>1, <1>2

DrawingOK(acc) == {"s", "stop"} \subseteq DOMAIN acc /\ Fine(acc.s)
LEMMA DrawOK ==
    ASSUME NEW s, ScreenOK(s), ~s.panicked, NEW clusters \in Seq(Seq(Runes)) PROVE Fine(Draw(s, clusters))
<1> DEFINE b == [s |-> s, stop |-> FALSE]
<1>1. Draw(s, clusters) = DrawLaws!Fold(s, b, clusters).s
  BY DEF Draw, FoldLeft, MapThenFoldSet, Max, DrawLaws!Fold, DrawLaws!Greatest, DrawStep
<1>2. DrawingOK(b)
  BY DEF DrawingOK, Fine
<1> HIDE DEF b
<1>3. PICK R : DrawLaws!Within(s, b, clusters, Seq(Runes), R)
  BY RepeatInduction, DrawLaws!FoldWithin
<1> DEFINE T == {t \in R : DrawingOK(t)}
<1>4. ASSUME NEW acc, DrawingOK(acc), NEW raw \in Seq(Runes) PROVE DrawingOK(DrawStep(s, acc, raw))
  <2> DEFINE x == Translate(s, raw)
  <2>1. x \in Seq(Runes)
    BY TranslateOK
  <2>2. DrawStep(s, acc, raw) = IF acc.stop \/ acc.s.panicked THEN acc
                                ELSE IF Width(x) > 0 THEN [acc EXCEPT !.s = DrawWide(acc.s, x)]
                                ELSE IF Combining(x) THEN [acc EXCEPT !.s = Combine(acc.s, x)]
                                ELSE [acc EXCEPT !.stop = TRUE]
    BY DEF DrawStep
  <2> HIDE DEF x
  <2>3. ~acc.s.panicked => Fine(DrawWide(acc.s, x)) /\ Fine(Combine(acc.s, x))
    BY <1>4, <2>1, DrawWideOK, CombineOK DEF DrawingOK, Fine
  <2>4. \A t : Fine(t) => DrawingOK([acc EXCEPT !.s = t])
    BY <1>4 DEF DrawingOK
  <2>5. DrawingOK([acc EXCEPT !.stop = TRUE])
    BY <1>4 DEF DrawingOK
  <2> QED
    BY <1>4, <2>2, <2>3, <2>4, <2>5
<1>5. DrawLaws!Fold(s, b, clusters) \in T
  BY <1>2, <1>3, <1>4 DEF DrawLaws!Within
<1> QED
  BY <1>1, <1>5 DEF DrawingOK

LEMMA RepeatLastOK ==
    ASSUME NEW s, ScreenOK(s), ~s.panicked, NEW n \in Int PROVE Fine(RepeatLast(s, n))
<1>1. CASE s.lastDrawn = <<>>
  BY <1>1 DEF RepeatLast, Fine
<1>2. CASE s.lastDrawn # <<>>
  <2>1. RepeatLast(s, n) = RepeatLaws!Fold(0, s, Times(n))
    BY <1>2 DEF RepeatLast, FoldLeft, MapThenFoldSet, Max, RepeatLaws!Fold,
                RepeatLaws!Greatest, RepeatStep, Times
  <2>2. PICK R : RepeatLaws!Within(0, s, Times(n), Int, R)
    BY TimesSeq, RepeatInduction, RepeatLaws!FoldWithin
  <2> DEFINE T == {t \in R : Fine(t)}
  <2>3. ASSUME NEW t, Fine(t), NEW i PROVE Fine(RepeatStep(0, t, i))
    <3>1. RepeatStep(0, t, i) = IF t.panicked THEN t ELSE Draw(t, <<t.lastDrawn>>)
      BY DEF RepeatStep, Then
    <3>2. <<t.lastDrawn>> \in Seq(Seq(Runes))
      BY <2>3 DEF Fine, ScreenOK, Afloat
    <3> QED
      BY <2>3, <3>1, <3>2, DrawOK DEF Fine
  <2>4. RepeatLaws!Fold(0, s, Times(n)) \in T
    BY <2>2, <2>3 DEF RepeatLaws!Within, Fine
  <2> QED
    BY <2>1, <2>4
<1> QED
  BY <1>1, <1>2

-----------------------------------------------------------------------------
(* Rendition, character sets, saved cursors, margins. *)

RenditionStep(p, a, c) == Rendition(c, p, a)
RenditionLaws == INSTANCE FoldLaws WITH Op <- RenditionStep
LEMMA RenditionInduction == RenditionLaws!Induction
  BY NaturalInduction DEF RenditionLaws!Induction

LEMMA RenditionOK ==
    ASSUME NEW s, NEW code, NEW attr \in SUBSET Flags PROVE Rendition(code, s, attr) \in SUBSET Flags
  BY DEF Rendition, DefaultAttr, Flags

LEMMA SelectGraphicRenditionOK ==
    ASSUME NEW s, ScreenOK(s), NEW C, NEW codes \in Seq(C), NEW private
    PROVE  Calm(s, SelectGraphicRendition(s, codes, private))
<1> DEFINE a == FoldLeft(LAMBDA x, c : Rendition(c, s, x), s.attr, codes)
<1>1. \A x \in SUBSET Flags : Calm(s, [s EXCEPT !.attr = x])
  BY DEF Calm, ScreenOK, Afloat, HasFields
<1>2. a = RenditionLaws!Fold(s, s.attr, codes)
  BY DEF FoldLeft, MapThenFoldSet, Max, RenditionLaws!Fold, RenditionLaws!Greatest, RenditionStep
<1>3. a \in SUBSET Flags
  <2>1. s.attr \in SUBSET Flags
    BY DEF ScreenOK, Afloat
  <2>2. RenditionLaws!Closed(s, SUBSET Flags, C)
    BY RenditionOK DEF RenditionLaws!Closed, RenditionStep
  <2> HIDE DEF a
  <2> QED
    BY <1>2, <2>1, <2>2, RenditionInduction, RenditionLaws!FoldStaysIn
<1>4. \/ SelectGraphicRendition(s, codes, private) = s
      \/ SelectGraphicRendition(s, codes, private) = [s EXCEPT !.attr = DefaultAttr(s)]
      \/ SelectGraphicRendition(s, codes, private) = [s EXCEPT !.attr = a]
  BY Zenon DEF SelectGraphicRendition
<1> HIDE DEF a
<1>5. DefaultAttr(s) \in SUBSET Flags
  BY DEF DefaultAttr, Flags
<1>6. Calm(s, s)
  BY DEF Calm
<1> QED
  BY <1>1, <1>3, <1>4, <1>5, <1>6

LEMMA ProtectionOK ==
    ASSUME NEW s, ScreenOK(s), NEW m
    PROVE  /\ Calm(s, StartProtectedArea(s)) /\ Calm(s, EndProtectedArea(s))
           /\ Calm(s, SetCharacterProtection(s, m))
<1>1. \A x \in SUBSET Flags : /\ Calm(s, [s EXCEPT !.attr = x])
                              /\ Calm(s, [s EXCEPT !.protection = m, !.attr = x])
  BY DEF Calm, ScreenOK, Afloat, HasFields
<1>2. /\ s.attr \union {"iso"} \in SUBSET Flags /\ s.attr \ {"iso"} \in SUBSET Flags
      /\ s.attr \union {"prot"} \in SUBSET Flags /\ s.attr \ {"prot"} \in SUBSET Flags
  BY DEF ScreenOK, Afloat, Flags
<1>3. Calm(s, StartProtectedArea(s)) /\ Calm(s, EndProtectedArea(s))
  BY <1>1, <1>2, Zenon DEF StartProtectedArea, EndProtectedArea
<1>4. \/ SetCharacterProtection(s, m) = [s EXCEPT !.protection = m, !.attr = s.attr \union {"prot"}]
      \/ SetCharacterProtection(s, m) = [s EXCEPT !.protection = m, !.attr = s.attr \ {"prot"}]
  BY Zenon DEF SetCharacterProtection
<1> QED
  BY <1>1, <1>2, <1>3, <1>4, Zenon

LEMMA CharsetOK ==
    ASSUME NEW s, ScreenOK(s), NEW code, NEW slot
    PROVE  Calm(s, DefineCharset(s, code, slot)) /\ Calm(s, ShiftIn(s)) /\ Calm(s, ShiftOut(s))
<1>1. \A g \in {"lat1", "vt100"} : Calm(s, [s EXCEPT !.g0 = g]) /\ Calm(s, [s EXCEPT !.g1 = g])
  BY DEF Calm, ScreenOK, Afloat, HasFields
<1>2. Calm(s, s)
  BY DEF Calm
<1>3. Calm(s, DefineCharset(s, code, slot))
  BY <1>1, <1>2 DEF DefineCharset
<1>4. Calm(s, ShiftIn(s)) /\ Calm(s, ShiftOut(s))
  BY DEF ShiftIn, ShiftOut, Calm, ScreenOK, Afloat, HasFields
<1> QED
  BY <1>3, <1>4

(* Fields that ScreenOK does not speak of. *)
LEMMA StylesOK ==
    ASSUME NEW s, ScreenOK(s), NEW x
    PROVE  /\ Calm(s, SetCursorStyle(s, x)) /\ Calm(s, SetActiveStatusDisplay(s, x))
           /\ Calm(s, Reply(s, x)) /\ Calm(s, [s EXCEPT !.selection = x])
           /\ Calm(s, [s EXCEPT !.colors = x]) /\ Calm(s, [s EXCEPT !.title = x])
           /\ Calm(s, [s EXCEPT !.icon = x]) /\ Calm(s, [s EXCEPT !.savedModes = x])
           /\ Calm(s, [s EXCEPT !.titleHexInput = x]) /\ Calm(s, [s EXCEPT !.titleHexOutput = x])
<1> USE DEF Calm, ScreenOK, Afloat, HasFields
<1>1. Calm(s, SetCursorStyle(s, x)) /\ Calm(s, SetActiveStatusDisplay(s, x)) /\ Calm(s, Reply(s, x))
  BY DEF SetCursorStyle, SetActiveStatusDisplay, Reply
<1>2. Calm(s, [s EXCEPT !.selection = x]) /\ Calm(s, [s EXCEPT !.colors = x])
  OBVIOUS
<1>3. Calm(s, [s EXCEPT !.title = x]) /\ Calm(s, [s EXCEPT !.icon = x])
  OBVIOUS
<1>4. Calm(s, [s EXCEPT !.savedModes = x])
  OBVIOUS
<1>5. Calm(s, [s EXCEPT !.titleHexInput = x]) /\ Calm(s, [s EXCEPT !.titleHexOutput = x])
  OBVIOUS
<1> HIDE DEF Calm, ScreenOK, Afloat, HasFields
<1> QED
  BY <1>1, <1>2, <1>3, <1>4, <1>5

LEMMA SaveCursorOK ==
    ASSUME NEW s, ScreenOK(s), NEW m
    PROVE  /\ Steady(s, SaveCursorState(s, m))
           /\ SaveCursorState(s, m).savepoints # <<>>
<1> DEFINE p == [cur |-> Cursor(s), g0 |-> s.g0, g1 |-> s.g1, charset |-> s.charset,
                 origin |-> Has(s, "DECOM"), wrap |-> m /\ Has(s, "DECAWM"), wrapNext |-> s.wrapNext]
           q == Append(s.savepoints, p)
<1>1. SaveCursorState(s, m) = [s EXCEPT !.savepoints = q]
  BY DEF SaveCursorState
<1>2. Cursor(s) \in CursorSet
  BY DEF Cursor, CursorSet, ScreenOK, Afloat
<1>3. p \in SavedSet
  <2>1. /\ s.g0 \in {"lat1", "vt100"} /\ s.g1 \in {"lat1", "vt100"} /\ s.charset \in {0, 1}
        /\ s.wrapNext \in BOOLEAN
    BY DEF ScreenOK, Afloat
  <2>2. Has(s, "DECOM") \in BOOLEAN /\ (m /\ Has(s, "DECAWM")) \in BOOLEAN
    BY DEF Has
  <2> QED
    BY <1>2, <2>1, <2>2 DEF SavedSet
<1> HIDE DEF p
<1>4. q \in Seq(SavedSet) /\ q # <<>>
  <2>1. s.savepoints \in Seq(SavedSet)
    BY DEF ScreenOK, Afloat
  <2> QED
    BY <1>3, <2>1
<1> HIDE DEF q
<1> QED
  BY <1>1, <1>4 DEF Steady, Calm, Kept, ScreenOK, Afloat, HasFields

LEMMA OriginModeOK == ASSUME NEW s, ScreenOK(s), NEW on PROVE Calm(s, OriginMode(s, on))
<1> DEFINE m == IF on THEN s.mode \union {"DECOM"} ELSE s.mode \ {"DECOM"}
           t == [s EXCEPT !.mode = m]
<1>1. OriginMode(s, on) = CursorPosition(t, 0, 0)
  BY DEF OriginMode
<1> HIDE DEF m
<1>2. Calm(s, t)
  BY DEF Calm, ScreenOK, Afloat, HasFields
<1> HIDE DEF t
<1> QED
  BY <1>1, <1>2, CursorPositionOK DEF Calm, Steady

LEMMA WrapModeOK == ASSUME NEW s, ScreenOK(s), NEW on PROVE Calm(s, WrapMode(s, on))
  BY DEF WrapMode, Calm, ScreenOK, Afloat, HasFields

LEMMA RestoreCursorOK == ASSUME NEW s, ScreenOK(s), NEW m PROVE Calm(s, RestoreCursorState(s, m))
<1>1. CASE s.savepoints = <<>>
  BY <1>1, OriginModeOK DEF RestoreCursorState
<1>2. CASE s.savepoints # <<>>
  <2> DEFINE last == s.savepoints[Len(s.savepoints)]
             t == [s EXCEPT !.savepoints = Front(@), !.g0 = last.g0,
                            !.g1 = last.g1, !.charset = last.charset]
             u == OriginMode(t, last.origin)
             back == IF m THEN WrapMode(u, last.wrap) ELSE u
             v == WithCursor([back EXCEPT !.wrapNext = last.wrapNext], last.cur)
  <2>1. RestoreCursorState(s, m) = EnsureVB(EnsureHB(v), TRUE)
    BY <1>2 DEF RestoreCursorState
  <2>2. last \in SavedSet /\ Front(s.savepoints) \in Seq(SavedSet)
    <3>1. s.savepoints \in Seq(SavedSet)
      BY DEF ScreenOK, Afloat
    <3> QED
      BY <1>2, <3>1 DEF Front
  <2> HIDE DEF last
  <2>3. Calm(s, t)
    BY <2>2 DEF Calm, ScreenOK, Afloat, HasFields, SavedSet
  <2> HIDE DEF t
  <2>4. Calm(s, u)
    BY <2>3, OriginModeOK DEF Calm
  <2> HIDE DEF u
  <2>5. Calm(s, back)
    BY <2>4, WrapModeOK DEF Calm
  <2> HIDE DEF back
  <2>6. last.cur \in CursorSet /\ last.wrapNext \in BOOLEAN
    BY <2>2 DEF SavedSet
  <2> DEFINE c == last.cur
             w == last.wrapNext
  <2>7. v = [back EXCEPT !.wrapNext = w, !.row = c.row, !.col = c.col, !.attr = c.attr, !.hidden = c.hidden]
    BY DEF WithCursor
  <2> HIDE DEF v, c, w
  <2>8. Afloat(v) /\ v.panicked = s.panicked
    <3>1. c.row \in Nat /\ c.col \in Nat /\ c.attr \in SUBSET Flags /\ c.hidden \in BOOLEAN /\ w \in BOOLEAN
      BY <2>6 DEF CursorSet, c, w
    <3> QED
      BY <2>5, <2>7, <3>1 DEF Calm, ScreenOK, Afloat, HasFields
  <2> QED
    BY <2>1, <2>8, EnsuredOK DEF Steady, Calm
<1> QED
  BY <1>1, <1>2

LEMMA SetMarginsOK ==
    ASSUME NEW s, ScreenOK(s), NEW top \in Int, NEW bottom \in Int
    PROVE  Calm(s, SetMargins(s, top, bottom))
<1> DEFINE m == IF s.margins = NoMargins THEN <<0, s.lines - 1>> ELSE s.margins
           t == Clamp((IF top = 0 THEN m[1] + 1 ELSE top) - 1, 0, s.lines - 1)
           b == Clamp((IF bottom = 0 THEN m[2] + 1 ELSE bottom) - 1, 0, s.lines - 1)
           n == [s EXCEPT !.margins = NoMargins]
           u == [s EXCEPT !.margins = <<t, b>>]
<1>1. \/ SetMargins(s, top, bottom) = s
      \/ SetMargins(s, top, bottom) = n
      \/ b - t >= 1 /\ SetMargins(s, top, bottom) = CursorPosition(u, 0, 0)
  BY DEF SetMargins
<1>2. s.lines \in Nat \ {0} /\ m[1] \in Nat /\ m[2] \in Nat
  BY DEF ScreenOK, Afloat, MarginsFit
<1> HIDE DEF m
<1>3. t \in 0 .. s.lines - 1 /\ b \in 0 .. s.lines - 1
  BY <1>2 DEF Clamp, MaxOf, MinOf
<1> HIDE DEF t, b
<1>4. Calm(s, s) /\ Calm(s, n)
  BY DEF Calm, ScreenOK, Afloat, HasFields, MarginsFit
<1>5. b - t >= 1 => Calm(s, u)
  <2> SUFFICES ASSUME b - t >= 1 PROVE Calm(s, u)
    OBVIOUS
  <2>1. MarginsFit(<<t, b>>, s.lines)
    BY <1>2, <1>3 DEF MarginsFit
  <2> DEFINE x == <<t, b>>
  <2> HIDE DEF x
  <2>2. MarginsFit(x, s.lines) /\ u = [s EXCEPT !.margins = x]
    BY <2>1 DEF x
  <2> QED
    BY <2>2 DEF Calm, ScreenOK, Afloat, HasFields
<1> HIDE DEF u, n
<1>6. b - t >= 1 => Calm(s, CursorPosition(u, 0, 0))
  BY <1>5, CursorPositionOK DEF Calm, Steady
<1> QED
  BY <1>1, <1>4, <1>6

LEMMA FullWidthOK == ASSUME NEW s, ScreenOK(s) PROVE Calm(s, FullWidth(s))
  BY DEF FullWidth, Calm, ScreenOK, Afloat, HasFields

LEMMA SetLeftRightMarginsOK ==
    ASSUME NEW s, ScreenOK(s), NEW left0 \in Int, NEW right \in Int
    PROVE  Calm(s, SetLeftRightMargins(s, left0, right))
<1> DEFINE l == Clamp(IF left0 = 0 THEN 1 ELSE left0, 1, s.columns)
           r == Clamp(IF right = 0 THEN s.columns ELSE right, 1, s.columns)
           f == FullWidth(s)
           u == [s EXCEPT !.leftMargin = l - 1, !.rightMargin = r - 1]
<1>1. \/ SetLeftRightMargins(s, left0, right) = s
      \/ SetLeftRightMargins(s, left0, right) = CursorPosition(f, 0, 0)
      \/ r - l >= 1 /\ SetLeftRightMargins(s, left0, right) = CursorPosition(u, 0, 0)
  BY DEF SetLeftRightMargins
<1>2. s.columns \in Nat \ {0}
  BY DEF ScreenOK, Afloat
<1>3. l \in 1 .. s.columns /\ r \in 1 .. s.columns
  BY <1>2 DEF Clamp, MaxOf, MinOf
<1> HIDE DEF l, r
<1>4. Calm(s, s) /\ Calm(s, f)
  BY FullWidthOK DEF Calm
<1>5. r - l >= 1 => Calm(s, u)
  <2> DEFINE a == l - 1
             b == r - 1
             v == [s EXCEPT !.leftMargin = a, !.rightMargin = b]
  <2>1. r - l >= 1 => a \in 0 .. s.columns - 1 /\ b \in Nat /\ a <= b
    BY <1>2, <1>3
  <2> HIDE DEF a, b
  <2>2. a \in 0 .. s.columns - 1 /\ b \in Nat /\ a <= b => ScreenOK(v) /\ v.panicked = s.panicked
    BY DEF ScreenOK, Afloat, HasFields
  <2> QED
    BY <2>1, <2>2 DEF Calm, a, b
<1> HIDE DEF f, u
<1>6. /\ Calm(s, CursorPosition(f, 0, 0))
      /\ r - l >= 1 => Calm(s, CursorPosition(u, 0, 0))
  BY <1>4, <1>5, CursorPositionOK DEF Calm, Steady
<1> QED
  BY <1>1, <1>4, <1>6

-----------------------------------------------------------------------------
(* Resize and reset. *)

LEMMA BlankBufferOK ==
    ASSUME NEW lines \in Nat, NEW columns \in Nat PROVE IsBuffer(BlankBuffer(lines, columns), lines, columns)
<1>1. [d |-> Blank, a |-> PlainAttr] \in Cell
  <2>1. Blank \in Seq(Runes)
    BY DEF Blank, Runes
  <2> QED
    BY <2>1, CellOK DEF PlainAttr
<1> QED
  BY <1>1 DEF IsBuffer, BlankBuffer, BlankLine

(* Rows of any number, each of any width, of which some are kept. *)
IsRow(row) == \E n \in Nat : row \in [0 .. n - 1 -> Cell]
LEMMA FittedOK ==
    ASSUME NEW buf, \A r \in DOMAIN buf : IsRow(buf[r]), NEW from, NEW blank \in Cell,
           NEW lines \in Nat, NEW columns \in Nat
    PROVE  IsBuffer(RowsFrom(FitRowsWidth(buf, columns, blank), from, lines, BlankLine(columns, blank)),
                    lines, columns)
<1> DEFINE fit == FitRowsWidth(buf, columns, blank)
           Line == [0 .. columns - 1 -> Cell]
<1>1. DOMAIN fit = DOMAIN buf /\ \A r \in DOMAIN buf : fit[r] \in Line
  <2> SUFFICES ASSUME NEW r \in DOMAIN buf
               PROVE  [c \in 0 .. columns - 1 |-> IF c \in DOMAIN buf[r] THEN buf[r][c] ELSE blank] \in Line
    BY DEF FitRowsWidth
  <2>1. \A c \in DOMAIN buf[r] : buf[r][c] \in Cell
    BY DEF IsRow
  <2> QED
    BY <2>1
<1> HIDE DEF fit
<1>2. BlankLine(columns, blank) \in Line
  BY DEF BlankLine
<1>3. \A r \in 0 .. lines - 1 :
         (IF r + from \in DOMAIN fit THEN fit[r + from] ELSE BlankLine(columns, blank)) \in Line
  BY <1>1, <1>2
<1> HIDE DEF Line
<1>4. RowsFrom(fit, from, lines, BlankLine(columns, blank)) \in [0 .. lines - 1 -> Line]
  BY <1>3 DEF RowsFrom
<1> QED
  BY <1>4 DEF IsBuffer, fit, Line

LEMMA BufferRows ==
    ASSUME NEW b, NEW lines \in Nat, NEW columns \in Nat, IsBuffer(b, lines, columns)
    PROVE  DOMAIN b = 0 .. lines - 1 /\ \A r \in DOMAIN b : IsRow(b[r])
<1>1. DOMAIN b = 0 .. lines - 1 /\ \A r \in 0 .. lines - 1 : b[r] \in [0 .. columns - 1 -> Cell]
  BY DEF IsBuffer
<1> QED
  BY <1>1 DEF IsRow

LEMMA FitToOK ==
    ASSUME NEW s, ScreenOK(s), NEW lines \in Nat \ {0}, NEW columns \in Nat \ {0}
    PROVE  Calm(s, FitTo(s, lines, columns))
<1> DEFINE b == RowsFrom(FitRowsWidth(s.buf, columns, DefaultCell(s)), 0, lines,
                         BlankLine(columns, DefaultCell(s)))
           alt == IF s.altBuf = NoBuffer THEN s.altBuf ELSE BlankBuffer(lines, columns)
           mapped == IF s.altBuf = NoBuffer THEN s.altLineWrapped ELSE {}
           saved == IF s.altBuf = NoBuffer THEN s.altSavepoints ELSE <<>>
           pending == s.altBuf = NoBuffer /\ s.altWrapNext
           row == MinOf(s.row, lines - 1)
           col == MinOf(s.col, columns - 1)
           t == [s EXCEPT !.buf = b, !.lines = lines, !.columns = columns, !.row = row, !.col = col,
                          !.margins = NoMargins, !.leftMargin = 0, !.rightMargin = columns - 1,
                          !.lineWrapped = {}, !.wrapNext = FALSE, !.altBuf = alt,
                          !.altLineWrapped = mapped, !.altSavepoints = saved, !.altWrapNext = pending]
<1>1. FitTo(s, lines, columns) = t
  BY DEF FitTo
<1>2. IsBuffer(b, lines, columns)
  <2>1. s.lines \in Nat /\ s.columns \in Nat /\ IsBuffer(s.buf, s.lines, s.columns)
    BY DEF ScreenOK, Afloat
  <2>2. \A r \in DOMAIN s.buf : IsRow(s.buf[r])
    BY <2>1, BufferRows
  <2> QED
    BY <2>2, FittedOK, DefaultCellOK
<1>3. /\ alt = NoBuffer \/ IsBuffer(alt, lines, columns)
      /\ s.altActive => alt # NoBuffer
  <2>1. s.altBuf # NoBuffer => IsBuffer(alt, lines, columns)
    BY BlankBufferOK
  <2>2. IsBuffer(alt, lines, columns) => alt # NoBuffer
    BY DEF NoBuffer, IsBuffer
  <2>3. s.altActive => s.altBuf # NoBuffer
    BY DEF ScreenOK, Afloat
  <2>4. s.altBuf = NoBuffer => alt = NoBuffer
    OBVIOUS
  <2> HIDE DEF alt
  <2> QED
    BY <2>1, <2>2, <2>3, <2>4
<1>4. saved \in Seq(SavedSet) /\ pending \in BOOLEAN
  BY DEF ScreenOK, Afloat
<1>5. row \in 0 .. lines - 1 /\ col \in Nat
  BY DEF ScreenOK, Afloat, MinOf
<1> HIDE DEF b, alt, mapped, saved, pending, row, col
<1>6. /\ HasFields(t) /\ t.lines = lines /\ t.columns = columns /\ t.buf = b /\ t.row = row /\ t.col = col
      /\ t.altBuf = alt /\ t.altSavepoints = saved /\ t.altWrapNext = pending /\ t.margins = NoMargins
      /\ t.leftMargin = 0 /\ t.rightMargin = columns - 1 /\ t.wrapNext = FALSE
      /\ t.panicked = s.panicked
      /\ t.altActive = s.altActive /\ t.attr = s.attr /\ t.hidden = s.hidden /\ t.charset = s.charset
      /\ t.g0 = s.g0 /\ t.g1 = s.g1 /\ t.savepoints = s.savepoints /\ t.altSavedCursor = s.altSavedCursor
      /\ t.savedColumns = s.savedColumns /\ t.tabStops = s.tabStops /\ t.lastDrawn = s.lastDrawn
  BY Zenon DEF ScreenOK, Afloat, HasFields
<1> HIDE DEF t
<1>7. /\ s.altActive \in BOOLEAN /\ s.attr \in SUBSET Flags /\ s.hidden \in BOOLEAN
      /\ s.charset \in {0, 1} /\ s.g0 \in {"lat1", "vt100"} /\ s.g1 \in {"lat1", "vt100"}
      /\ s.savepoints \in Seq(SavedSet) /\ s.savedColumns \in Nat
      /\ s.altSavedCursor = NoCursor \/ s.altSavedCursor \in CursorSet
      /\ s.tabStops \subseteq Nat \union {-1} /\ s.lastDrawn \in Seq(Runes)
  BY DEF ScreenOK, Afloat
<1>8. /\ MarginsFit(NoMargins, lines) /\ 0 \in 0 .. columns - 1 /\ columns - 1 \in Nat /\ 0 <= columns - 1
      /\ row \in Nat /\ row < lines
  BY <1>5 DEF MarginsFit
<1>9. ScreenOK(t)
  BY <1>2, <1>3, <1>4, <1>5, <1>6, <1>7, <1>8 DEF ScreenOK, Afloat
<1> QED
  BY <1>1, <1>6, <1>9 DEF Calm

LEMMA CalmTwice == ASSUME NEW s, NEW t, NEW u, Calm(s, t), Calm(t, u) PROVE Calm(s, u)
  BY DEF Calm

LEMMA ResizeOK ==
    ASSUME NEW s, ScreenOK(s), NEW l \in Int, NEW c \in Int PROVE Calm(s, Resize(s, l, c))
<1> DEFINE lines == AtLeast1(l)
           columns == AtLeast1(c)
           saved == SaveCursor(s)
           home == CursorPosition(saved, 0, 0)
           cut == DeleteLines(home, s.lines - lines)
           t == IF lines >= s.lines THEN s ELSE RestoreCursor(cut)
<1>1. Resize(s, l, c) = IF s.lines = lines /\ s.columns = columns THEN s ELSE FitTo(t, lines, columns)
  BY DEF Resize
<1>2. lines \in Nat \ {0} /\ columns \in Nat \ {0} /\ s.lines - lines \in Int
  BY DEF AtLeast1, ScreenOK, Afloat
<1> HIDE DEF lines, columns
<1>3. Calm(s, s)
  BY DEF Calm
<1>4. Calm(s, saved)
  BY SaveCursorOK DEF SaveCursor, Steady
<1> HIDE DEF saved
<1>5. Calm(s, home)
  BY <1>4, CursorPositionOK, CalmTwice DEF Steady, Calm
<1> HIDE DEF home
<1>6. Calm(s, cut)
  BY <1>2, <1>5, EditLinesOK DEF Steady, Calm
<1> HIDE DEF cut
<1>7. Calm(s, RestoreCursor(cut))
  BY <1>6, RestoreCursorOK DEF RestoreCursor, Calm
<1>8. Calm(s, t)
  BY <1>3, <1>7
<1> HIDE DEF t
<1>9. Calm(s, FitTo(t, lines, columns))
  BY <1>2, <1>8, FitToOK DEF Calm
<1> QED
  BY <1>1, <1>3, <1>9

LEMMA CommonResetOK == ASSUME NEW s, ScreenOK(s) PROVE Calm(s, CommonReset(s))
<1> DEFINE f == FullWidth(s)
<1>1. ScreenOK(f) /\ f.panicked = s.panicked
  BY FullWidthOK DEF Calm
<1>2. CommonReset(s) = [f EXCEPT
        !.margins = NoMargins, !.mode = ResetModes, !.attr = PlainAttr, !.hidden = FALSE,
        !.charset = 0, !.g0 = "lat1", !.g1 = "vt100", !.wrapNext = FALSE,
        !.savedModes = <<>>, !.selection = <<>>, !.colors = <<>>,
        !.titleHexInput = FALSE, !.titleHexOutput = FALSE,
        !.conformanceLevel = 1, !.conformanceExplicit = FALSE, !.cursorStyle = 0,
        !.protection = 0, !.statusDisplay = 0, !.titleStack = <<>>, !.iconStack = <<>>]
  BY DEF CommonReset
<1> HIDE DEF f
<1> DEFINE t == CommonReset(s)
<1>3. /\ HasFields(t) /\ t.lines = f.lines /\ t.columns = f.columns /\ t.buf = f.buf /\ t.row = f.row /\ t.col = f.col
      /\ t.altBuf = f.altBuf /\ t.altSavepoints = f.altSavepoints /\ t.altWrapNext = f.altWrapNext
      /\ t.margins = NoMargins /\ t.leftMargin = f.leftMargin /\ t.rightMargin = f.rightMargin
      /\ t.wrapNext = FALSE /\ t.panicked = f.panicked /\ t.altActive = f.altActive
      /\ t.attr = {} /\ t.hidden = FALSE /\ t.charset = 0
      /\ t.g0 = "lat1" /\ t.g1 = "vt100" /\ t.savepoints = f.savepoints /\ t.altSavedCursor = f.altSavedCursor
      /\ t.savedColumns = f.savedColumns /\ t.tabStops = f.tabStops /\ t.lastDrawn = f.lastDrawn
  <2>1. HasFields(f)
    BY <1>1 DEF ScreenOK, Afloat
  <2>2. HasFields(t)
    BY <1>2, <2>1, Zenon DEF HasFields
  <2>3. /\ t.lines = f.lines /\ t.columns = f.columns /\ t.buf = f.buf /\ t.row = f.row /\ t.col = f.col
    BY <1>2, <2>1 DEF HasFields
  <2>4. /\ t.altBuf = f.altBuf /\ t.altSavepoints = f.altSavepoints /\ t.altWrapNext = f.altWrapNext
        /\ t.altActive = f.altActive /\ t.altSavedCursor = f.altSavedCursor
    BY <1>2, <2>1 DEF HasFields
  <2>5. /\ t.margins = NoMargins /\ t.leftMargin = f.leftMargin /\ t.rightMargin = f.rightMargin
        /\ t.wrapNext = FALSE /\ t.panicked = f.panicked
    BY <1>2, <2>1 DEF HasFields
  <2>6. /\ t.attr = {} /\ t.hidden = FALSE /\ t.charset = 0 /\ t.g0 = "lat1" /\ t.g1 = "vt100"
    BY <1>2, <2>1 DEF HasFields, PlainAttr
  <2>7. /\ t.savepoints = f.savepoints /\ t.savedColumns = f.savedColumns /\ t.tabStops = f.tabStops
        /\ t.lastDrawn = f.lastDrawn
    BY <1>2, <2>1 DEF HasFields
  <2> QED
    BY <2>2, <2>3, <2>4, <2>5, <2>6, <2>7
<1> HIDE DEF t
<1>4. ScreenOK(t) /\ t.panicked = f.panicked
  BY <1>1, <1>3 DEF ScreenOK, Afloat, MarginsFit
<1> QED
  BY <1>1, <1>4 DEF Calm, t

LEMMA ResetAllOK == ASSUME NEW s, ScreenOK(s) PROVE Calm(s, ResetAll(s))
<1> DEFINE f == CommonReset(s)
           b == BlankBuffer(s.lines, s.columns)
           stops == Stops(s.columns)
<1>1. ScreenOK(f) /\ f.panicked = s.panicked
  BY CommonResetOK DEF Calm
<1>2. ResetAll(s) = [f EXCEPT
        !.savedColumns = NoColumns, !.buf = b,
        !.altBuf = NoBuffer, !.altSavepoints = <<>>, !.altLineWrapped = NilMap,
        !.altWrapNext = FALSE, !.altActive = FALSE, !.altSavedCursor = NoCursor,
        !.title = <<>>, !.icon = <<>>, !.tabStops = stops,
        !.row = 0, !.col = 0, !.lineWrapped = {}]
  BY DEF ResetAll
<1>3. /\ s.lines \in Nat \ {0} /\ s.columns \in Nat \ {0} /\ f.lines = s.lines /\ f.columns = s.columns
  <2>1. f.lines = s.lines /\ f.columns = s.columns
    BY DEF CommonReset, FullWidth, ScreenOK, Afloat, HasFields
  <2> QED
    BY <2>1 DEF ScreenOK, Afloat
<1>4. IsBuffer(b, s.lines, s.columns)
  BY <1>3, BlankBufferOK
<1>5. stops \subseteq Nat \union {-1}
  BY <1>3 DEF Stops
<1> HIDE DEF f, b, stops
<1> DEFINE t == ResetAll(s)
<1>6. /\ HasFields(t) /\ t.lines = f.lines /\ t.columns = f.columns /\ t.buf = b /\ t.row = 0 /\ t.col = 0
      /\ t.altBuf = NoBuffer /\ t.altSavepoints = <<>> /\ t.altWrapNext = FALSE
      /\ t.margins = f.margins /\ t.leftMargin = f.leftMargin /\ t.rightMargin = f.rightMargin
      /\ t.wrapNext = f.wrapNext /\ t.panicked = f.panicked /\ t.altActive = FALSE
      /\ t.attr = f.attr /\ t.hidden = f.hidden /\ t.charset = f.charset
      /\ t.g0 = f.g0 /\ t.g1 = f.g1 /\ t.savepoints = f.savepoints /\ t.altSavedCursor = NoCursor
      /\ t.savedColumns = 0 /\ t.tabStops = stops /\ t.lastDrawn = f.lastDrawn
  <2>1. HasFields(f)
    BY <1>1 DEF ScreenOK, Afloat
  <2>2. HasFields(t)
    BY <1>2, <2>1, Zenon DEF HasFields
  <2>6. /\ t.lines = f.lines /\ t.columns = f.columns /\ t.buf = b /\ t.row = 0 /\ t.col = 0
    BY <1>2, <2>1, SMTT(30) DEF HasFields
  <2>3. /\ t.altBuf = NoBuffer /\ t.altSavepoints = <<>> /\ t.altWrapNext = FALSE
        /\ t.margins = f.margins /\ t.leftMargin = f.leftMargin /\ t.rightMargin = f.rightMargin
    BY <1>2, <2>1 DEF HasFields
  <2>4. /\ t.wrapNext = f.wrapNext /\ t.panicked = f.panicked /\ t.altActive = FALSE
        /\ t.attr = f.attr /\ t.hidden = f.hidden /\ t.charset = f.charset
    BY <1>2, <2>1 DEF HasFields
  <2>5. /\ t.g0 = f.g0 /\ t.g1 = f.g1 /\ t.savepoints = f.savepoints /\ t.altSavedCursor = NoCursor
        /\ t.savedColumns = 0 /\ t.tabStops = stops /\ t.lastDrawn = f.lastDrawn
    BY <1>2, <2>1 DEF HasFields, NoColumns
  <2> QED
    BY <2>2, <2>3, <2>4, <2>5, <2>6
<1> HIDE DEF t
<1>7. ScreenOK(t) /\ t.panicked = f.panicked
  <2>1. /\ 0 \in Nat /\ 0 < s.lines /\ <<>> \in Seq(SavedSet) /\ IsBuffer(b, t.lines, t.columns)
        /\ t.lines \in Nat \ {0} /\ t.columns \in Nat \ {0}
    BY <1>3, <1>4, <1>6
  <2>2. /\ f.attr \in SUBSET Flags /\ f.hidden \in BOOLEAN /\ f.wrapNext \in BOOLEAN
        /\ f.charset \in {0, 1} /\ f.g0 \in {"lat1", "vt100"} /\ f.g1 \in {"lat1", "vt100"}
        /\ f.savepoints \in Seq(SavedSet) /\ f.lastDrawn \in Seq(Runes)
        /\ MarginsFit(f.margins, f.lines) /\ f.leftMargin \in 0 .. f.columns - 1
        /\ f.rightMargin \in Nat /\ f.leftMargin <= f.rightMargin
    BY <1>1 DEF ScreenOK, Afloat
  <2> QED
    BY <1>3, <1>5, <1>6, <2>1, <2>2 DEF ScreenOK, Afloat
<1> QED
  BY <1>1, <1>7 DEF Calm, t

LEMMA ResetOK ==
    ASSUME NEW s, ScreenOK(s), NEW level \in Int
    PROVE  Calm(s, Reset(s)) /\ Calm(s, SoftReset(s)) /\ Calm(s, SetConformance(s, level))
<1>1. Calm(s, Reset(s))
  <2>1. s.lines \in Int /\ s.savedColumns \in Int
    BY DEF ScreenOK, Afloat
  <2> DEFINE t == IF s.savedColumns = NoColumns THEN s ELSE Resize(s, s.lines, s.savedColumns)
  <2>2. Calm(s, t)
    BY <2>1, ResizeOK DEF Calm
  <2>3. Reset(s) = ResetAll(t)
    BY DEF Reset
  <2> HIDE DEF t
  <2> QED
    BY <2>2, <2>3, ResetAllOK DEF Calm
<1>2. ASSUME NEW t, ScreenOK(t), NEW x, NEW y
      PROVE  /\ Calm(t, [t EXCEPT !.savepoints = <<>>])
             /\ Calm(t, [t EXCEPT !.savepoints = <<>>, !.conformanceLevel = x, !.conformanceExplicit = y])
  <2> DEFINE q == <<>>
  <2>1. q \in Seq(SavedSet)
    OBVIOUS
  <2> HIDE DEF q
  <2>2. Calm(t, [t EXCEPT !.savepoints = q])
    BY <1>2, <2>1 DEF Calm, ScreenOK, Afloat, HasFields
  <2>3. Calm(t, [t EXCEPT !.savepoints = q, !.conformanceLevel = x, !.conformanceExplicit = y])
    BY <1>2, <2>1 DEF Calm, ScreenOK, Afloat, HasFields
  <2> QED
    BY <2>2, <2>3 DEF q
<1>3. Calm(s, SoftReset(s))
  <2> DEFINE t == CommonReset(s)
  <2>1. Calm(s, t)
    BY CommonResetOK
  <2>2. SoftReset(s) = [t EXCEPT !.savepoints = <<>>]
    BY DEF SoftReset
  <2> HIDE DEF t
  <2> QED
    BY <1>2, <2>1, <2>2, CalmTwice, Zenon DEF Calm
<1>4. Calm(s, SetConformance(s, level))
  <2> DEFINE t == Reset(s)
             l == IF level >= 60 THEN level - 60 ELSE level
             u == [t EXCEPT !.savepoints = <<>>, !.conformanceLevel = l, !.conformanceExplicit = TRUE]
  <2>1. SetConformance(s, level) = IF l <= 0 THEN s ELSE u
    BY DEF SetConformance
  <2> HIDE DEF t, l
  <2>2. Calm(t, u)
    BY <1>1, <1>2, Zenon DEF Calm, t
  <2> HIDE DEF u
  <2>3. Calm(s, u) /\ Calm(s, s)
    BY <1>1, <2>2, CalmTwice DEF Calm, t
  <2> QED
    BY <2>1, <2>3
<1> QED
  BY <1>1, <1>3, <1>4

-----------------------------------------------------------------------------
(* The alternate screen. *)

LEMMA SwapBuffersOK ==
    ASSUME NEW s, ScreenOK(s), s.altBuf # NoBuffer
    PROVE  /\ Calm(s, SwapBuffers(s))
           /\ SwapBuffers(s).lines = s.lines /\ SwapBuffers(s).columns = s.columns
           /\ SwapBuffers(s).altBuf # NoBuffer
<1> DEFINE t == SwapBuffers(s)
<1>1. /\ HasFields(t) /\ t.lines = s.lines /\ t.columns = s.columns /\ t.buf = s.altBuf
      /\ t.row = s.row /\ t.col = s.col /\ t.altBuf = s.buf /\ t.altSavepoints = s.savepoints
      /\ t.savepoints = s.altSavepoints /\ t.wrapNext = s.altWrapNext /\ t.altWrapNext = s.wrapNext
      /\ t.altActive = ~s.altActive
  BY DEF SwapBuffers, ScreenOK, Afloat, HasFields
<1>2. /\ t.margins = s.margins /\ t.leftMargin = s.leftMargin /\ t.rightMargin = s.rightMargin
      /\ t.panicked = s.panicked /\ t.attr = s.attr /\ t.hidden = s.hidden /\ t.charset = s.charset
      /\ t.g0 = s.g0 /\ t.g1 = s.g1 /\ t.altSavedCursor = s.altSavedCursor
      /\ t.savedColumns = s.savedColumns /\ t.tabStops = s.tabStops /\ t.lastDrawn = s.lastDrawn
  BY DEF SwapBuffers, ScreenOK, Afloat, HasFields
<1> HIDE DEF t
<1>3. s.buf # NoBuffer
  BY DEF ScreenOK, Afloat, IsBuffer, NoBuffer
<1>4. ScreenOK(t)
  BY <1>1, <1>2, <1>3 DEF ScreenOK, Afloat
<1> QED
  BY <1>1, <1>2, <1>3, <1>4 DEF Calm, t

LEMMA EnterAltScreenOK ==
    ASSUME NEW s, ScreenOK(s), NEW asCursor PROVE Calm(s, EnterAltScreen(s, asCursor))
<1> DEFINE cur == Cursor(s)
           blank == BlankBuffer(s.lines, s.columns)
           saved == IF asCursor THEN [s EXCEPT !.altSavedCursor = cur] ELSE s
           ready == IF s.altBuf /= NoBuffer THEN saved
                    ELSE [saved EXCEPT !.altBuf = blank, !.altLineWrapped = {}]
           t == SwapBuffers(ready)
           u == [t EXCEPT !.buf = blank, !.lineWrapped = {}, !.wrapNext = FALSE]
<1>1. EnterAltScreen(s, asCursor) = IF s.altActive THEN s ELSE IF ~asCursor THEN t
                                    ELSE CursorPosition(u, 0, 0)
  BY DEF EnterAltScreen
<1>2. cur \in CursorSet
  BY DEF Cursor, CursorSet, ScreenOK, Afloat
<1>3. IsBuffer(blank, s.lines, s.columns) /\ blank # NoBuffer
  <2>1. s.lines \in Nat \ {0} /\ s.columns \in Nat \ {0}
    BY DEF ScreenOK, Afloat
  <2>2. IsBuffer(blank, s.lines, s.columns)
    BY <2>1, BlankBufferOK
  <2> QED
    BY <2>1, <2>2 DEF IsBuffer, NoBuffer
<1> HIDE DEF cur, blank
<1>4. Calm(s, saved) /\ saved.lines = s.lines /\ saved.columns = s.columns /\ saved.altBuf = s.altBuf
  BY <1>2 DEF Calm, ScreenOK, Afloat, HasFields
<1> HIDE DEF saved
<1>5. /\ Calm(s, ready) /\ ready.lines = s.lines /\ ready.columns = s.columns
      /\ ready.altBuf # NoBuffer
  <2> DEFINE x == [saved EXCEPT !.altBuf = blank, !.altLineWrapped = {}]
  <2>1. Calm(s, x) /\ x.lines = s.lines /\ x.columns = s.columns /\ x.altBuf = blank
    BY <1>3, <1>4 DEF Calm, ScreenOK, Afloat, HasFields
  <2>2. ready = IF s.altBuf /= NoBuffer THEN saved ELSE x
    OBVIOUS
  <2> HIDE DEF ready, x
  <2> QED
    BY <1>3, <1>4, <2>1, <2>2
<1> HIDE DEF ready
<1>6. Calm(s, t) /\ t.lines = s.lines /\ t.columns = s.columns
  BY <1>5, SwapBuffersOK DEF Calm
<1> HIDE DEF t
<1>7. Calm(s, u)
  BY <1>3, <1>6 DEF Calm, ScreenOK, Afloat, HasFields
<1> HIDE DEF u
<1>8. Calm(s, CursorPosition(u, 0, 0))
  BY <1>7, CursorPositionOK DEF Calm, Steady
<1>9. Calm(s, s)
  BY DEF Calm
<1> QED
  BY <1>1, <1>6, <1>8, <1>9

LEMMA ExitAltScreenOK ==
    ASSUME NEW s, ScreenOK(s), NEW clear, NEW restoreCursor
    PROVE  Calm(s, ExitAltScreen(s, clear, restoreCursor))
<1>1. CASE ~s.altActive
  BY <1>1 DEF ExitAltScreen, Calm
<1>2. CASE s.altActive
  <2> DEFINE t == SwapBuffers(s)
             blank == BlankBuffer(s.lines, s.columns)
             u == IF clear
                  THEN [t EXCEPT !.altBuf = blank, !.altLineWrapped = {}, !.altWrapNext = FALSE,
                                 !.altSavepoints = <<>>]
                  ELSE t
             cur == s.altSavedCursor
             w == [WithCursor(u, cur) EXCEPT
                      !.row = MinOf(@, s.lines - 1), !.col = MinOf(@, s.columns - 1)]
             v == IF restoreCursor /\ cur /= NoCursor THEN w ELSE u
  <2>1. ExitAltScreen(s, clear, restoreCursor) = [v EXCEPT !.altSavedCursor = NoCursor]
    BY <1>2 DEF ExitAltScreen
  <2>2. s.lines \in Nat \ {0} /\ s.columns \in Nat \ {0} /\ s.altBuf # NoBuffer
    BY <1>2 DEF ScreenOK, Afloat
  <2>3. Calm(s, t) /\ t.lines = s.lines /\ t.columns = s.columns /\ t.altBuf # NoBuffer
    BY <2>2, SwapBuffersOK
  <2>4. IsBuffer(blank, s.lines, s.columns) /\ blank # NoBuffer
    <3>1. IsBuffer(blank, s.lines, s.columns)
      BY <2>2, BlankBufferOK
    <3> QED
      BY <2>2, <3>1 DEF IsBuffer, NoBuffer
  <2> HIDE DEF t, blank
  <2>5. Calm(s, u) /\ u.lines = s.lines /\ u.columns = s.columns
    <3> DEFINE q == <<>>
               x == [t EXCEPT !.altBuf = blank, !.altLineWrapped = {}, !.altWrapNext = FALSE,
                              !.altSavepoints = q]
    <3>1. q \in Seq(SavedSet)
      OBVIOUS
    <3> HIDE DEF q
    <3>2. Calm(s, x) /\ x.lines = s.lines /\ x.columns = s.columns
      BY <2>3, <2>4, <3>1 DEF Calm, ScreenOK, Afloat, HasFields
    <3>3. u = x \/ u = t
      BY DEF q
    <3> HIDE DEF u, x
    <3> QED
      BY <2>3, <3>2, <3>3
  <2> HIDE DEF u
  <2>6. cur # NoCursor => Calm(s, w)
    <3> SUFFICES ASSUME cur # NoCursor PROVE Calm(s, w)
      OBVIOUS
    <3>1. cur \in CursorSet
      BY DEF ScreenOK, Afloat
    <3> HIDE DEF cur
    <3>2. cur.row \in Nat /\ cur.col \in Nat /\ cur.attr \in SUBSET Flags /\ cur.hidden \in BOOLEAN
      BY <3>1 DEF CursorSet
    <3> DEFINE row == MinOf(cur.row, s.lines - 1)
               col == MinOf(cur.col, s.columns - 1)
               x == WithCursor(u, cur)
    <3>3. row \in 0 .. s.lines - 1 /\ col \in Nat
      BY <2>2, <3>2 DEF MinOf
    <3>4. Afloat(x) /\ x.panicked = s.panicked /\ x.row = cur.row /\ x.col = cur.col /\ x.lines = s.lines
      BY <2>5, <3>2 DEF WithCursor, Calm, ScreenOK, Afloat, HasFields
    <3> HIDE DEF x
    <3>5. w = [x EXCEPT !.row = row, !.col = col]
      BY <3>4 DEF x
    <3>6. row \in Nat /\ row < s.lines
      BY <2>2, <3>3
    <3> HIDE DEF row, col, w
    <3>7. w.row = row /\ w.lines = s.lines /\ w.panicked = s.panicked
      BY <3>4, <3>5 DEF Afloat, HasFields
    <3>8. Afloat(w)
      BY <3>3, <3>4, <3>5, <3>6 DEF Afloat, HasFields
    <3> QED
      BY <3>6, <3>7, <3>8 DEF Calm, ScreenOK
  <2> HIDE DEF cur, w
  <2>7. Calm(s, v)
    BY <2>5, <2>6
  <2> HIDE DEF v
  <2> QED
    BY <2>1, <2>7 DEF Calm, ScreenOK, Afloat, HasFields
<1> QED
  BY <1>1, <1>2

-----------------------------------------------------------------------------
(* Modes. *)

LEMMA ReverseScreenOK == ASSUME NEW s, ScreenOK(s), NEW on PROVE Calm(s, ReverseScreen(s, on))
<1> DEFINE flip(a) == IF on THEN a \union {"reverse"} ELSE a \ {"reverse"}
           F(r, c) == [s.buf[r][c] EXCEPT !.a = flip(@)]
           b == [r \in DOMAIN s.buf |->
                   IF r \notin DOMAIN s.buf THEN s.buf[r]
                   ELSE [c \in DOMAIN s.buf[r] |->
                           IF c \in 0 .. s.columns - 1 THEN F(r, c) ELSE s.buf[r][c]]]
           x == flip(s.attr)
<1>1. \A a \in SUBSET Flags : flip(a) \in SUBSET Flags
  BY DEF Flags
<1>2. \A r \in 0 .. s.lines - 1, c \in 0 .. s.columns - 1 : F(r, c) \in Cell
  <2>1. \A r \in 0 .. s.lines - 1, c \in 0 .. s.columns - 1 : s.buf[r][c] \in Cell
    BY CellsOf
  <2>2. ASSUME NEW y \in Cell PROVE [y EXCEPT !.a = flip(@)] \in Cell
    <3>1. y.a \in SUBSET Flags
      BY DEF Cell
    <3>2. flip(y.a) \in SUBSET Flags
      BY <1>1, <3>1
    <3> HIDE DEF flip
    <3> QED
      BY <3>2 DEF Cell
  <2> HIDE DEF flip
  <2> QED
    BY <2>1, <2>2
<1>3. x \in SUBSET Flags
  BY <1>1 DEF ScreenOK, Afloat
<1>4. ReverseScreen(s, on) = [[s EXCEPT !.buf = b] EXCEPT !.attr = x]
  BY DEF ReverseScreen, SetCells, ScreenOK, Afloat, HasFields
<1> HIDE DEF F, x
<1>5. IsBuffer(b, s.lines, s.columns)
  BY <1>2, CellsOf DEF IsBuffer
<1> HIDE DEF b
<1> DEFINE t == [s EXCEPT !.buf = b]
<1>6. Calm(s, t)
  BY <1>5, NewBuffer DEF Steady
<1> HIDE DEF t
<1>7. Calm(s, [t EXCEPT !.attr = x])
  BY <1>3, <1>6 DEF Calm, ScreenOK, Afloat, HasFields
<1> QED
  BY <1>4, <1>7 DEF t

LEMMA ColumnModeDoneOK == ASSUME NEW s, ScreenOK(s) PROVE Calm(s, ColumnModeDone(s))
<1> DEFINE t == IF Has(s, "DECNCSM") THEN s ELSE EraseInDisplay(s, 2, FALSE)
<1>1. Calm(s, t)
  BY EraseDisplayOK DEF Steady, Calm
<1>2. ColumnModeDone(s) = CursorPosition(t, 0, 0)
  BY DEF ColumnModeDone
<1> HIDE DEF t
<1> QED
  BY <1>1, <1>2, CursorPositionOK DEF Calm, Steady

LEMMA ApplySetModeOK == ASSUME NEW s0, ScreenOK(s0), NEW m PROVE Calm(s0, ApplySetMode(s0, m))
<1> DEFINE s == [s0 EXCEPT !.mode = s0.mode \union {m}]
           off == [s EXCEPT !.mode = s.mode \ {m}]
           n == [s EXCEPT !.savedColumns = s.columns]
           wide == Resize(n, s.lines, WideColumns)
           shown == [s EXCEPT !.hidden = FALSE]
           full == FullWidth(s)
<1>1. \/ ApplySetMode(s0, m) = off \/ ApplySetMode(s0, m) = s
      \/ ApplySetMode(s0, m) = ColumnModeDone(wide)
      \/ ApplySetMode(s0, m) = SaveCursorDEC(s)
      \/ ApplySetMode(s0, m) = EnterAltScreen(s, m = "AltBufCursor")
      \/ ApplySetMode(s0, m) = CursorPosition(s, 0, 0)
      \/ ApplySetMode(s0, m) = ReverseScreen(s, TRUE)
      \/ ApplySetMode(s0, m) = shown
      \/ ApplySetMode(s0, m) = CursorPosition(full, 0, 0)
  BY Zenon DEF ApplySetMode
<1>2. Calm(s0, s)
  BY DEF Calm, ScreenOK, Afloat, HasFields
<1> HIDE DEF s
<1>3. ScreenOK(s) /\ s.panicked = s0.panicked
  BY <1>2 DEF Calm
<1>4. Calm(s, off) /\ Calm(s, s) /\ Calm(s, shown)
  BY <1>3 DEF Calm, ScreenOK, Afloat, HasFields
<1>5. Calm(s, ColumnModeDone(wide))
  <2>1. Calm(s, n)
    BY <1>3 DEF Calm, ScreenOK, Afloat, HasFields
  <2>2. s.lines \in Int /\ WideColumns \in Int
    BY <1>3, WideColumnsAssumption DEF ScreenOK, Afloat
  <2> HIDE DEF n
  <2>3. Calm(s, wide)
    BY <2>1, <2>2, ResizeOK DEF Calm
  <2> HIDE DEF wide
  <2> QED
    BY <2>3, ColumnModeDoneOK DEF Calm
<1>6. Calm(s, SaveCursorDEC(s))
  BY <1>3, SaveCursorOK DEF SaveCursorDEC, Steady
<1>7. Calm(s, EnterAltScreen(s, m = "AltBufCursor"))
  BY <1>3, EnterAltScreenOK
<1>8. Calm(s, CursorPosition(s, 0, 0)) /\ Calm(s, ReverseScreen(s, TRUE))
  <2>1. Calm(s, CursorPosition(s, 0, 0))
    BY <1>3, CursorPositionOK DEF Steady
  <2> QED
    BY <1>3, <2>1, ReverseScreenOK
<1>9. Calm(s, CursorPosition(full, 0, 0))
  BY <1>3, FullWidthOK, CursorPositionOK DEF Steady, Calm
<1> HIDE DEF off, wide, shown, full
<1> QED
  BY <1>1, <1>3, <1>4, <1>5, <1>6, <1>7, <1>8, <1>9 DEF Calm

LEMMA ApplyResetModeOK == ASSUME NEW s0, ScreenOK(s0), NEW m PROVE Calm(s0, ApplyResetMode(s0, m))
<1> DEFINE s == [s0 EXCEPT !.mode = s0.mode \ {m}]
           back == Resize(s, s.lines, s.savedColumns)
           narrow == [back EXCEPT !.savedColumns = NoColumns]
           hid == [s EXCEPT !.hidden = TRUE]
<1>1. \/ ApplyResetMode(s0, m) = s
      \/ ApplyResetMode(s0, m) = ColumnModeDone(narrow)
      \/ ApplyResetMode(s0, m) = ColumnModeDone(s)
      \/ ApplyResetMode(s0, m) = RestoreCursorDEC(s)
      \/ ApplyResetMode(s0, m) = ExitAltScreen(s, FALSE, FALSE)
      \/ ApplyResetMode(s0, m) = ExitAltScreen(s, TRUE, FALSE)
      \/ ApplyResetMode(s0, m) = ExitAltScreen(s, TRUE, TRUE)
      \/ ApplyResetMode(s0, m) = CursorPosition(s, 0, 0)
      \/ ApplyResetMode(s0, m) = ReverseScreen(s, FALSE)
      \/ ApplyResetMode(s0, m) = hid
      \/ ApplyResetMode(s0, m) = FullWidth(s)
  BY Zenon DEF ApplyResetMode
<1>2. Calm(s0, s)
  BY DEF Calm, ScreenOK, Afloat, HasFields
<1> HIDE DEF s
<1>3. ScreenOK(s) /\ s.panicked = s0.panicked
  BY <1>2 DEF Calm
<1>4. Calm(s, s) /\ Calm(s, hid)
  BY <1>3 DEF Calm, ScreenOK, Afloat, HasFields
<1>5. Calm(s, ColumnModeDone(narrow)) /\ Calm(s, ColumnModeDone(s))
  <2>1. s.lines \in Int /\ s.savedColumns \in Int
    BY <1>3 DEF ScreenOK, Afloat
  <2>2. Calm(s, back)
    BY <1>3, <2>1, ResizeOK
  <2> HIDE DEF back
  <2>3. Calm(s, narrow)
    BY <2>2 DEF Calm, ScreenOK, Afloat, HasFields, NoColumns
  <2> HIDE DEF narrow
  <2> QED
    BY <1>3, <2>3, ColumnModeDoneOK DEF Calm
<1>6. Calm(s, RestoreCursorDEC(s))
  BY <1>3, RestoreCursorOK DEF RestoreCursorDEC
<1>7. /\ Calm(s, ExitAltScreen(s, FALSE, FALSE)) /\ Calm(s, ExitAltScreen(s, TRUE, FALSE))
      /\ Calm(s, ExitAltScreen(s, TRUE, TRUE))
  BY <1>3, ExitAltScreenOK
<1>8. /\ Calm(s, CursorPosition(s, 0, 0)) /\ Calm(s, ReverseScreen(s, FALSE)) /\ Calm(s, FullWidth(s))
  <2>1. Calm(s, CursorPosition(s, 0, 0))
    BY <1>3, CursorPositionOK DEF Steady
  <2> QED
    BY <1>3, <2>1, ReverseScreenOK, FullWidthOK
<1> HIDE DEF hid, narrow
<1> QED
  BY <1>1, <1>3, <1>4, <1>5, <1>6, <1>7, <1>8 DEF Calm

SetModeStep(p, t, m) == ApplySetMode(t, m)
SetModeLaws == INSTANCE FoldLaws WITH Op <- SetModeStep
ResetModeStep(p, t, m) == ApplyResetMode(t, m)
ResetModeLaws == INSTANCE FoldLaws WITH Op <- ResetModeStep
RestoreModesStep(p, t, m) ==
    CASE m \notin DOMAIN p.savedModes -> t
      [] m \in DOMAIN p.savedModes /\ p.savedModes[m] -> ApplySetMode(t, m)
      [] OTHER -> ApplyResetMode(t, m)
RestoreModesLaws == INSTANCE FoldLaws WITH Op <- RestoreModesStep
LEMMA ModeInduction == SetModeLaws!Induction /\ ResetModeLaws!Induction /\ RestoreModesLaws!Induction
  BY NaturalInduction DEF SetModeLaws!Induction, ResetModeLaws!Induction, RestoreModesLaws!Induction

LEMMA ModesOK ==
    ASSUME NEW s, ScreenOK(s), NEW M, NEW modes \in Seq(M)
    PROVE  /\ Calm(s, SetMode(s, modes)) /\ Calm(s, ResetMode(s, modes))
           /\ Calm(s, SaveModes(s, modes)) /\ Calm(s, RestoreModes(s, modes))
<1>1. Calm(s, s)
  BY DEF Calm
<1>2. Calm(s, SetMode(s, modes))
  <2>1. SetMode(s, modes) = SetModeLaws!Fold(0, s, modes)
    BY DEF SetMode, FoldLeft, MapThenFoldSet, Max, SetModeLaws!Fold, SetModeLaws!Greatest, SetModeStep
  <2>2. PICK R : SetModeLaws!Within(0, s, modes, M, R)
    BY ModeInduction, SetModeLaws!FoldWithin
  <2> DEFINE T == {t \in R : Calm(s, t)}
  <2>3. \A t, m : Calm(s, t) => Calm(s, SetModeStep(0, t, m))
    BY ApplySetModeOK, CalmTwice DEF SetModeStep, Calm
  <2>4. SetModeLaws!Fold(0, s, modes) \in T
    BY <1>1, <2>2, <2>3 DEF SetModeLaws!Within
  <2> QED
    BY <2>1, <2>4
<1>3. Calm(s, ResetMode(s, modes))
  <2>1. ResetMode(s, modes) = ResetModeLaws!Fold(0, s, modes)
    BY DEF ResetMode, FoldLeft, MapThenFoldSet, Max, ResetModeLaws!Fold, ResetModeLaws!Greatest, ResetModeStep
  <2>2. PICK R : ResetModeLaws!Within(0, s, modes, M, R)
    BY ModeInduction, ResetModeLaws!FoldWithin
  <2> DEFINE T == {t \in R : Calm(s, t)}
  <2>3. \A t, m : Calm(s, t) => Calm(s, ResetModeStep(0, t, m))
    BY ApplyResetModeOK, CalmTwice DEF ResetModeStep, Calm
  <2>4. ResetModeLaws!Fold(0, s, modes) \in T
    BY <1>1, <2>2, <2>3 DEF ResetModeLaws!Within
  <2> QED
    BY <2>1, <2>4
<1>4. Calm(s, SaveModes(s, modes))
  <2>1. \A x : Calm(s, [s EXCEPT !.savedModes = x])
    BY StylesOK
  <2> QED
    BY <2>1, Zenon DEF SaveModes
<1>5. Calm(s, RestoreModes(s, modes))
  <2>1. RestoreModes(s, modes) = RestoreModesLaws!Fold(s, s, modes)
    BY DEF RestoreModes, FoldLeft, MapThenFoldSet, Max, RestoreModesLaws!Fold,
           RestoreModesLaws!Greatest, RestoreModesStep
  <2>2. PICK R : RestoreModesLaws!Within(s, s, modes, M, R)
    BY ModeInduction, RestoreModesLaws!FoldWithin
  <2> DEFINE T == {t \in R : Calm(s, t)}
  <2>3. \A t, m : Calm(s, t) => Calm(s, ApplySetMode(t, m)) /\ Calm(s, ApplyResetMode(t, m))
    BY ApplySetModeOK, ApplyResetModeOK, CalmTwice DEF Calm
  <2>4. \A t, m : Calm(s, t) => Calm(s, RestoreModesStep(s, t, m))
    BY <2>3 DEF RestoreModesStep
  <2>5. RestoreModesLaws!Fold(s, s, modes) \in T
    BY <1>1, <2>2, <2>4 DEF RestoreModesLaws!Within
  <2> QED
    BY <2>1, <2>5
<1> QED
  BY <1>2, <1>3, <1>4, <1>5

-----------------------------------------------------------------------------
(* Titles, colours, window operations, reports. *)

TitleModeStep(p, t, x) ==
    CASE x = 0 -> [t EXCEPT !.titleHexInput = ~p]
      [] x = 2 -> [t EXCEPT !.titleHexInput = FALSE]
      [] x = 1 -> [t EXCEPT !.titleHexOutput = ~p]
      [] x = 3 -> [t EXCEPT !.titleHexOutput = FALSE]
      [] OTHER -> t
TitleModeLaws == INSTANCE FoldLaws WITH Op <- TitleModeStep
LEMMA TitleModeInduction == TitleModeLaws!Induction
  BY NaturalInduction DEF TitleModeLaws!Induction

LEMMA TitlesOK ==
    ASSUME NEW s, ScreenOK(s), NEW param, NEW P, NEW params \in Seq(P), NEW reset
    PROVE  /\ Calm(s, SetTitle(s, param)) /\ Calm(s, SetIconName(s, param))
           /\ Calm(s, SetTitleMode(s, params, reset))
<1>1. Calm(s, SetTitle(s, param)) /\ Calm(s, SetIconName(s, param))
  BY StylesOK DEF SetTitle, SetIconName
<1>2. SetTitleMode(s, params, reset) = TitleModeLaws!Fold(reset, s, params)
  BY DEF SetTitleMode, FoldLeft, MapThenFoldSet, Max, TitleModeLaws!Fold,
         TitleModeLaws!Greatest, TitleModeStep
<1>3. PICK R : TitleModeLaws!Within(reset, s, params, P, R)
  BY TitleModeInduction, TitleModeLaws!FoldWithin
<1> DEFINE T == {t \in R : Calm(s, t)}
<1>4. \A t, x : Calm(s, t) => Calm(s, TitleModeStep(reset, t, x))
  <2> SUFFICES ASSUME NEW t, Calm(s, t), NEW x PROVE Calm(s, TitleModeStep(reset, t, x))
    OBVIOUS
  <2>1. \A y : Calm(t, [t EXCEPT !.titleHexInput = y]) /\ Calm(t, [t EXCEPT !.titleHexOutput = y])
    BY StylesOK DEF Calm
  <2>2. Calm(t, t)
    BY DEF Calm
  <2>3. Calm(t, TitleModeStep(reset, t, x))
    BY <2>1, <2>2 DEF TitleModeStep
  <2> QED
    BY <2>3, CalmTwice
<1>5. Calm(s, s)
  BY DEF Calm
<1>6. TitleModeLaws!Fold(reset, s, params) \in T
  BY <1>3, <1>4, <1>5 DEF TitleModeLaws!Within
<1> QED
  BY <1>1, <1>2, <1>6

LEMMA ColorsOK ==
    ASSUME NEW s, ScreenOK(s), NEW kind, NEW index, NEW value, NEW all, NEW data
    PROVE  /\ Calm(s, SetColor(s, kind, index, value)) /\ Calm(s, ResetColor(s, kind, index, all))
           /\ Calm(s, SetSelectionData(s, data)) /\ Calm(s, QueryColor(s, kind, index))
           /\ Calm(s, QuerySelectionData(s))
<1>1. Calm(s, SetColor(s, kind, index, value))
  BY StylesOK DEF SetColor
<1>2. Calm(s, ResetColor(s, kind, index, all))
  BY StylesOK DEF ResetColor
<1>3. Calm(s, SetSelectionData(s, data)) /\ Calm(s, QueryColor(s, kind, index)) /\ Calm(s, QuerySelectionData(s))
  BY StylesOK DEF SetSelectionData, QueryColor, QuerySelectionData
<1> QED
  BY <1>1, <1>2, <1>3

LEMMA WindowOpOK ==
    ASSUME NEW s, ScreenOK(s), NEW params \in Seq(Int) PROVE Calm(s, WindowOp(s, params))
<1>1. Calm(s, s)
  BY DEF Calm
<1>2. \A sub : Calm(s, PushTitles(s, sub)) /\ Calm(s, PopTitles(s, sub))
  <2>1. \A x, y : Calm(s, [s EXCEPT !.titleStack = x, !.iconStack = y])
    BY DEF Calm, ScreenOK, Afloat, HasFields
  <2>2. \A x, y, v, w : Calm(s, [s EXCEPT !.title = v, !.icon = w, !.titleStack = x, !.iconStack = y])
    BY DEF Calm, ScreenOK, Afloat, HasFields
  <2>3. \A sub : Calm(s, PushTitles(s, sub))
    BY <2>1, Zenon DEF PushTitles
  <2>4. \A sub : Calm(s, PopTitles(s, sub))
    BY <2>2, Zenon DEF PopTitles
  <2> QED
    BY <2>3, <2>4
<1>3. \A r : Calm(s, Reply(s, r))
  BY StylesOK
<1>4. params # <<>> => Calm(s, WindowSize(s, params))
  <2> SUFFICES ASSUME params # <<>> PROVE Calm(s, WindowSize(s, params))
    OBVIOUS
  <2>1. s.lines \in Int /\ s.columns \in Int
    BY DEF ScreenOK, Afloat
  <2>2. \A l, c \in Int : Calm(s, Resize(s, l, c))
    BY ResizeOK
  <2>3. CASE Len(params) = 1
    BY <2>1, <2>2, <2>3 DEF WindowSize
  <2>4. CASE Len(params) = 2
    <3>1. params[2] \in Int
      BY <2>4
    <3> QED
      BY <1>1, <2>1, <2>2, <2>4, <3>1 DEF WindowSize
  <2>5. CASE Len(params) # 1 /\ Len(params) # 2
    <3>1. params[2] \in Int /\ params[3] \in Int
      <4> DEFINE n == Len(params)
      <4>1. n \in Nat /\ n # 0 /\ n # 1 /\ n # 2
        BY <2>5
      <4> HIDE DEF n
      <4>2. 2 \in 1 .. n /\ 3 \in 1 .. n
        BY <4>1
      <4> QED
        BY <4>2 DEF n
    <3> DEFINE l == IF params[2] <= 0 THEN s.lines ELSE params[2]
               c == IF params[3] <= 0 THEN s.columns ELSE params[3]
    <3>2. WindowSize(s, params) = Resize(s, l, c)
      BY <2>5 DEF WindowSize
    <3>3. l \in Int /\ c \in Int
      BY <2>1, <3>1
    <3> HIDE DEF l, c
    <3> QED
      BY <2>2, <3>2, <3>3
  <2> QED
    BY <2>3, <2>4, <2>5
<1> QED
  BY <1>1, <1>2, <1>3, <1>4 DEF WindowOp

LEMMA ReportsOK ==
    ASSUME NEW s, ScreenOK(s), NEW x
    PROVE  /\ Calm(s, ReportDeviceStatus(s, x)) /\ Calm(s, ReportDeviceAttributes(s, x))
           /\ Calm(s, ReportMode(s, x)) /\ Calm(s, RequestStatusString(s, x))
<1>1. Calm(s, s)
  BY DEF Calm
<1>2. \A r : Calm(s, Reply(s, r))
  BY StylesOK
<1>3. Calm(s, ReportDeviceStatus(s, x))
  BY <1>1, <1>2 DEF ReportDeviceStatus
<1>4. Calm(s, ReportDeviceAttributes(s, x)) /\ Calm(s, ReportMode(s, x))
  BY <1>1, <1>2 DEF ReportDeviceAttributes, ReportMode
<1>5. Calm(s, RequestStatusString(s, x))
  BY <1>1, <1>2 DEF RequestStatusString
<1> QED
  BY <1>3, <1>4, <1>5

LEMMA NewScreenOK ==
    ASSUME NEW columns \in Nat \ {0}, NEW lines \in Nat \ {0}
    PROVE  ScreenOK(NewScreen(columns, lines)) /\ ~NewScreen(columns, lines).panicked
<1> DEFINE b == BlankBuffer(lines, columns)
           stops == Stops(columns)
           t == NewScreen(columns, lines)
<1>1. IsBuffer(b, lines, columns) /\ stops \subseteq Nat \union {-1}
  BY BlankBufferOK DEF Stops
<1> HIDE DEF b, stops
<1>2. /\ HasFields(t) /\ t.lines = lines /\ t.columns = columns /\ t.buf = b /\ t.row = 0 /\ t.col = 0
      /\ t.altBuf = NoBuffer /\ t.altSavepoints = <<>> /\ t.altWrapNext = FALSE
      /\ t.margins = NoMargins /\ t.leftMargin = 0 /\ t.rightMargin = columns - 1
      /\ t.wrapNext = FALSE /\ t.panicked = FALSE /\ t.altActive = FALSE
      /\ t.attr = {} /\ t.hidden = FALSE /\ t.charset = 0
      /\ t.g0 = "lat1" /\ t.g1 = "vt100" /\ t.savepoints = <<>> /\ t.altSavedCursor = NoCursor
      /\ t.savedColumns = 0 /\ t.tabStops = stops /\ t.lastDrawn = <<>>
  BY DEF NewScreen, HasFields, b, stops, PlainAttr, NoColumns
<1> HIDE DEF t
<1>3. /\ <<>> \in Seq(SavedSet) /\ <<>> \in Seq(Runes) /\ 0 \in 0 .. columns - 1 /\ columns - 1 \in Nat
      /\ 0 <= columns - 1 /\ 0 < lines /\ MarginsFit(NoMargins, lines)
  BY DEF MarginsFit
<1>4. ScreenOK(t)
  <2>1. /\ t.lines \in Nat \ {0} /\ t.columns \in Nat \ {0} /\ IsBuffer(t.buf, t.lines, t.columns)
        /\ t.row \in Nat /\ t.row < t.lines /\ t.col \in Nat /\ t.savedColumns \in Nat
        /\ t.leftMargin \in 0 .. t.columns - 1 /\ t.rightMargin \in Nat /\ t.leftMargin <= t.rightMargin
    BY <1>1, <1>2, <1>3
  <2>2. /\ t.altBuf = NoBuffer /\ t.altActive \in BOOLEAN /\ (t.altActive => t.altBuf # NoBuffer)
        /\ t.attr \in SUBSET Flags /\ t.hidden \in BOOLEAN /\ t.wrapNext \in BOOLEAN
        /\ t.altWrapNext \in BOOLEAN /\ t.charset \in {0, 1} /\ t.g0 \in {"lat1", "vt100"}
        /\ t.g1 \in {"lat1", "vt100"} /\ t.altSavedCursor = NoCursor
    BY <1>2
  <2>3. /\ MarginsFit(t.margins, t.lines) /\ t.savepoints \in Seq(SavedSet) /\ t.altSavepoints \in Seq(SavedSet)
        /\ t.tabStops \subseteq Nat \union {-1} /\ t.lastDrawn \in Seq(Runes)
    BY <1>1, <1>2, <1>3
  <2> QED
    BY <1>2, <2>1, <2>2, <2>3 DEF ScreenOK, Afloat
<1> QED
  BY <1>2, <1>4 DEF t

-----------------------------------------------------------------------------
(* One operation.  The arguments that the methods take. *)

StateOps == {"SetMode", "ResetMode", "SaveModes", "RestoreModes", "SetMargins",
    "SetLeftRightMargins", "SelectGraphicRendition", "DefineCharset", "ShiftIn", "ShiftOut",
    "StartProtectedArea", "EndProtectedArea", "SetCharacterProtection", "SoftReset",
    "SetConformance", "SetTitle", "SetIconName", "SetTitleMode", "WindowOp", "SetColor",
    "ResetColor", "SetSelectionData"}
CountOps == {"CursorUp", "CursorDown", "CursorForward", "CursorBack", "CursorUp1", "CursorDown1",
    "CursorToColumn", "CursorToColumnAbsolute", "CursorToLine", "CursorBackTab", "CursorForwardTab",
    "RepeatLast", "ScrollUp", "ScrollDown", "InsertLines", "DeleteLines", "InsertCharacters",
    "DeleteCharacters", "InsertColumns", "DeleteColumns", "SetConformance"}
PairOps == {"CursorPosition", "SetMargins", "SetLeftRightMargins"}
RectOps == {"EraseRectangle", "FillRectangle", "CopyRectangle", "SelectiveEraseRectangle"}
ListOps == {"SetMode", "ResetMode", "SaveModes", "RestoreModes", "SelectGraphicRendition",
    "SetTitleMode"}
OpNames == {"Bell", "Index", "LineFeed", "Reset", "EraseInDisplay"} \union PlainOps
    \union CursorOps \union EditOps \union ReportOps \union StateOps

OpOK(e) ==
    /\ e[1] \in OpNames
    /\ e[1] \in CountOps => e[2] \in Int
    /\ e[1] \in PairOps => e[2] \in Int /\ e[3] \in Int
    /\ e[1] \in RectOps => e[2] \in Int /\ e[3] \in Int /\ e[4] \in Int /\ e[5] \in Int
    /\ e[1] = "CopyRectangle" => e[6] \in Int /\ e[7] \in Int
    /\ e[1] \in ListOps => \E M : e[2] \in Seq(M)
    /\ e[1] = "Draw" => e[2] \in Seq(Seq(Runes))
    /\ e[1] = "WindowOp" => e[2] \in Seq(Int)

LEMMA CursorOpOK ==
    ASSUME NEW s, ScreenOK(s), ~s.panicked, NEW e, OpOK(e), e[1] \in CursorOps
    PROVE  Fine(CursorOp(s, e))
<1>1. \A t : Steady(s, t) => Fine(t)
  BY CalmIsFine DEF Steady
<1>2. \A n \in Int :
         /\ Fine(CursorUp(s, n)) /\ Fine(CursorDown(s, n)) /\ Fine(CursorForward(s, n))
         /\ Fine(CursorBack(s, n)) /\ Fine(CursorUp1(s, n)) /\ Fine(CursorDown1(s, n))
  BY <1>1, CursorUpOK, CursorDownOK, CursorForwardOK, CursorBackOK, CursorUp1OK, CursorDown1OK
<1>3. \A n \in Int :
         /\ Fine(CursorToColumn(s, n)) /\ Fine(CursorToColumnAbsolute(s, n)) /\ Fine(CursorToLine(s, n))
         /\ Fine(CursorBackTab(s, n)) /\ Fine(CursorForwardTab(s, n))
         /\ \A m \in Int : Fine(CursorPosition(s, n, m))
  BY <1>1, CursorToColumnOK, CursorToColumnAbsoluteOK, CursorToLineOK, TabsOK, CursorPositionOK
<1>4. /\ Fine(Backspace(s)) /\ Fine(Tab(s)) /\ Fine(CarriageReturn(s)) /\ Fine(SetTabStop(s))
      /\ \A how : Fine(ClearTabStop(s, how))
  BY <1>1, MoveLeft1OK, TabOK, CarriageReturnOK, TabStopsOK DEF Backspace
<1>5. /\ e[1] \in CountOps => e[2] \in Int
      /\ e[1] = "CursorPosition" => e[2] \in Int /\ e[3] \in Int
  BY DEF OpOK, PairOps
<1>6. CASE e[1] \in CountOps
  BY <1>2, <1>3, <1>5, <1>6 DEF CursorOp, CursorOps, CountOps
<1>7. CASE e[1] \notin CountOps
  BY <1>3, <1>4, <1>5, <1>7 DEF CursorOp, CursorOps, CountOps
<1> QED
  BY <1>6, <1>7

LEMMA EditOpOK ==
    ASSUME NEW s, ScreenOK(s), ~s.panicked, NEW e, OpOK(e), e[1] \in EditOps
    PROVE  Fine(EditOp(s, e))
<1>1. /\ \A t : Steady(s, t) => Fine(t)
      /\ \A t : Calm(s, t) => Fine(t)
      /\ \A t : Shifted(s, t) => Fine(t)
  BY CalmIsFine, ShiftedIsFine DEF Steady
<1>2. \A n \in Int :
         /\ Fine(RepeatLast(s, n)) /\ Fine(ScrollUp(s, n)) /\ Fine(ScrollDown(s, n))
         /\ Fine(InsertLines(s, n)) /\ Fine(DeleteLines(s, n)) /\ Fine(InsertCharacters(s, n))
         /\ Fine(DeleteCharacters(s, n)) /\ Fine(InsertColumns(s, n)) /\ Fine(DeleteColumns(s, n))
  BY <1>1, RepeatLastOK, ScrollUpOK, ScrollDownOK, EditLinesOK, EditCharactersOK
<1>3. /\ Fine(ReverseIndex(s)) /\ Fine(ForwardIndex(s)) /\ Fine(BackIndex(s)) /\ Fine(AlignmentDisplay(s))
  BY <1>1, ReverseIndexOK, SidewaysOK, AlignmentDisplayOK DEF Fine, Cause
<1>4. \A n, p : Fine(EraseCharacters(s, n)) /\ Fine(EraseInLine(s, n, p))
  BY <1>1, EraseLineOK
<1>5. \A t, l, b, r \in Int :
         /\ Fine(EraseRectangle(s, t, l, b, r)) /\ Fine(FillRectangle(s, <<"b">>, t, l, b, r))
         /\ \A y, x \in Int : Fine(CopyRectangle(s, t, l, b, r, y, x))
  <2>1. Blank \in Seq(Runes) /\ <<"b">> \in Seq(Runes)
    BY DEF Blank, Runes
  <2>2. \A t, l, b, r \in Int :
           /\ Fine(FillRectangle(s, Blank, t, l, b, r)) /\ Fine(FillRectangle(s, <<"b">>, t, l, b, r))
           /\ \A y, x \in Int : Fine(CopyRectangle(s, t, l, b, r, y, x))
    BY <1>1, <2>1, FillRectangleOK, CopyRectangleOK
  <2> QED
    BY <2>2 DEF EraseRectangle
<1>6. CASE e[1] \in CountOps
  <2>1. e[2] \in Int
    BY <1>6 DEF OpOK
  <2> QED
    BY <1>2, <1>6, <2>1 DEF EditOp, EditOps, CountOps
<1>7. CASE e[1] \in RectOps
  <2>1. /\ e[2] \in Int /\ e[3] \in Int /\ e[4] \in Int /\ e[5] \in Int
        /\ e[1] = "CopyRectangle" => e[6] \in Int /\ e[7] \in Int
    BY <1>7 DEF OpOK
  <2> QED
    BY <1>5, <1>7, <2>1 DEF EditOp, EditOps, RectOps
<1>8. CASE e[1] = "Draw"
  <2>1. e[2] \in Seq(Seq(Runes))
    BY <1>8 DEF OpOK
  <2>2. EditOp(s, e) = Draw(s, e[2])
    BY <1>8 DEF EditOp
  <2> QED
    BY <2>1, <2>2, DrawOK
<1>9. CASE e[1] \notin CountOps \union RectOps \union {"Draw"}
  BY <1>3, <1>4, <1>9 DEF EditOp, EditOps, RectOps, CountOps
<1> QED
  BY <1>6, <1>7, <1>8, <1>9

LEMMA StateOpOK ==
    ASSUME NEW s, ScreenOK(s), ~s.panicked, NEW e, OpOK(e), e[1] \in StateOps
    PROVE  Fine(StateOp(s, e))
<1>1. \A t : Calm(s, t) => Fine(t)
  BY CalmIsFine
<1>2. CASE e[1] \in ListOps
  <2>1. PICK M : e[2] \in Seq(M)
    BY <1>2 DEF OpOK
  <2>2. /\ Fine(SetMode(s, e[2])) /\ Fine(ResetMode(s, e[2])) /\ Fine(SaveModes(s, e[2]))
        /\ Fine(RestoreModes(s, e[2])) /\ Fine(SelectGraphicRendition(s, e[2], FALSE))
        /\ Fine(SetTitleMode(s, e[2], e[3]))
    BY <1>1, <2>1, ModesOK, SelectGraphicRenditionOK, TitlesOK
  <2> QED
    BY <1>2, <2>2 DEF StateOp, ListOps
<1>3. CASE e[1] \in {"SetMargins", "SetLeftRightMargins", "SetConformance", "WindowOp"}
  <2>1. /\ e[1] # "WindowOp" => e[2] \in Int
        /\ e[1] \in {"SetMargins", "SetLeftRightMargins"} => e[3] \in Int
        /\ e[1] = "WindowOp" => e[2] \in Seq(Int)
    BY <1>3 DEF OpOK, CountOps, PairOps
  <2>2. \A n, m \in Int : Fine(SetMargins(s, n, m)) /\ Fine(SetLeftRightMargins(s, n, m))
    BY <1>1, SetMarginsOK, SetLeftRightMarginsOK
  <2>3. \A n \in Int : Fine(SetConformance(s, n))
    BY <1>1, ResetOK
  <2>4. \A p \in Seq(Int) : Fine(WindowOp(s, p))
    BY <1>1, WindowOpOK
  <2> QED
    BY <1>3, <2>1, <2>2, <2>3, <2>4 DEF StateOp
<1>4. CASE e[1] \notin ListOps \union {"SetMargins", "SetLeftRightMargins", "SetConformance", "WindowOp"}
  <2>1. \A x, y : Fine(DefineCharset(s, x, y)) /\ Fine(ShiftIn(s)) /\ Fine(ShiftOut(s))
    BY <1>1, CharsetOK
  <2>2. \A x : /\ Fine(StartProtectedArea(s)) /\ Fine(EndProtectedArea(s))
               /\ Fine(SetCharacterProtection(s, x))
    BY <1>1, ProtectionOK
  <2>3. Fine(SoftReset(s))
    <3>1. 0 \in Int
      OBVIOUS
    <3> QED
      BY <1>1, <3>1, ResetOK
  <2>4. \A x : Fine(SetTitle(s, x)) /\ Fine(SetIconName(s, x))
    <3>1. <<>> \in Seq({})
      OBVIOUS
    <3> QED
      BY <1>1, <3>1, TitlesOK
  <2>5. \A x, y, z : Fine(SetColor(s, x, y, z)) /\ Fine(ResetColor(s, x, y, z)) /\ Fine(SetSelectionData(s, x))
    BY <1>1, ColorsOK
  <2> QED
    BY <1>4, <2>1, <2>2, <2>3, <2>4, <2>5 DEF StateOp, StateOps, ListOps
<1> QED
  BY <1>2, <1>3, <1>4

LEMMA ReportOpOK ==
    ASSUME NEW s, ScreenOK(s), ~s.panicked, NEW e, e[1] \in ReportOps
    PROVE  Fine(ReportOp(s, e))
<1>1. \A t : Calm(s, t) => Fine(t)
  BY CalmIsFine
<1>2. \A x : /\ Fine(ReportDeviceStatus(s, x)) /\ Fine(ReportDeviceAttributes(s, x))
             /\ Fine(ReportMode(s, x)) /\ Fine(RequestStatusString(s, x))
  BY <1>1, ReportsOK
<1>3. \A x, y : Fine(QueryColor(s, x, y)) /\ Fine(QuerySelectionData(s))
  BY <1>1, ColorsOK
<1> QED
  BY <1>2, <1>3 DEF ReportOp, ReportOps

LEMMA PlainOpOK ==
    ASSUME NEW s, ScreenOK(s), ~s.panicked, NEW e, OpOK(e), e[1] \in PlainOps
    PROVE  Fine(PlainOp(s, e))
<1>1. /\ \A t : Calm(s, t) => Fine(t)
      /\ \A t : Steady(s, t) => Fine(t)
  BY CalmIsFine DEF Steady
<1>2. Fine(SaveCursorDEC(s)) /\ Fine(RestoreCursorDEC(s))
  BY <1>1, SaveCursorOK, RestoreCursorOK DEF SaveCursorDEC, RestoreCursorDEC
<1>3. \A x : /\ Fine(SetCursorStyle(s, x)) /\ Fine(SetActiveStatusDisplay(s, x))
             /\ Fine(EraseInDisplaySelective(s, x))
  BY <1>1, StylesOK, EraseDisplayOK
<1>4. \A t, l, b, r : Fine(SelectiveEraseRectangle(s, t, l, b, r))
  BY <1>1, SelectiveEraseRectangleOK
<1> QED
  BY <1>2, <1>3, <1>4 DEF PlainOp, PlainOps

-----------------------------------------------------------------------------
(* History.  The retained rows are numbered from firstSeq to totalAdded.   *)

Row == UNION {[0 .. n - 1 -> Cell] : n \in Nat}
TopOK(g) ==
    /\ {"s", "top", "max", "firstSeq", "totalAdded"} \subseteq DOMAIN g
    /\ g.top \in Seq(Row) /\ g.max \in Nat \ {0} /\ Len(g.top) <= g.max
    /\ g.firstSeq \in Nat /\ g.totalAdded = g.firstSeq + Len(g.top)
HistoryOK(g) == TopOK(g) /\ Fine(g.s)

(* f's history is g's later one: the rows that both have, have one number. *)
Numbered(g, f) ==
    /\ g.firstSeq <= f.firstSeq /\ g.totalAdded <= f.totalAdded
    /\ \A n \in f.firstSeq .. g.totalAdded - 1 : RowNumbered(f, n) = RowNumbered(g, n)
Later(g, f) == TopOK(f) /\ Numbered(g, f)

LEMMA TopInts ==
    ASSUME NEW g, TopOK(g)
    PROVE  /\ g.firstSeq \in Nat /\ g.totalAdded \in Nat /\ Len(g.top) \in Nat /\ g.firstSeq <= g.totalAdded
           /\ g.totalAdded = g.firstSeq + Len(g.top)
  BY DEF TopOK

LEMMA LaterSelf == ASSUME NEW g, TopOK(g) PROVE Later(g, g)
  BY TopInts DEF Later, Numbered

LEMMA LaterTwice ==
    ASSUME NEW g, TopOK(g), NEW f, Later(g, f), NEW e, Later(f, e) PROVE Later(g, e)
<1>1. TopOK(f) /\ TopOK(e)
  BY DEF Later
<1>2. /\ g.firstSeq \in Nat /\ g.totalAdded \in Nat /\ f.firstSeq \in Nat /\ f.totalAdded \in Nat
      /\ e.firstSeq \in Nat /\ e.totalAdded \in Nat
  BY <1>1, TopInts
<1>3. /\ g.firstSeq <= f.firstSeq /\ g.totalAdded <= f.totalAdded
      /\ f.firstSeq <= e.firstSeq /\ f.totalAdded <= e.totalAdded
  BY DEF Later, Numbered
<1>4. g.firstSeq <= e.firstSeq /\ g.totalAdded <= e.totalAdded
  BY <1>2, <1>3
<1>5. ASSUME NEW n \in e.firstSeq .. g.totalAdded - 1 PROVE RowNumbered(e, n) = RowNumbered(g, n)
  <2>1. n \in f.firstSeq .. g.totalAdded - 1 /\ n \in e.firstSeq .. f.totalAdded - 1
    BY <1>2, <1>3
  <2> QED
    BY <2>1 DEF Later, Numbered
<1> QED
  BY <1>1, <1>4, <1>5 DEF Later, Numbered

LEMMA PushRowOK ==
    ASSUME NEW g, TopOK(g), NEW row \in Row
    PROVE  Later(g, PushRow(g, row)) /\ PushRow(g, row).s = g.s
<1> DEFINE f == PushRow(g, row)
           n == Len(g.top)
<1>1. g.max \in Nat \ {0} /\ n \in Nat /\ n <= g.max /\ g.firstSeq \in Nat /\ g.totalAdded = g.firstSeq + n
      /\ g.top \in Seq(Row)
  BY DEF TopOK
<1>2. CASE n = g.max
  <2> DEFINE top == Append(Tail(g.top), row)
  <2>1. g.max > 0 /\ g.max # 0 /\ n # 0
    BY <1>1, <1>2
  <2>2. /\ f.top = top /\ f.firstSeq = g.firstSeq + 1 /\ f.totalAdded = g.totalAdded + 1
        /\ f.max = g.max /\ f.s = g.s
        /\ {"s", "top", "max", "firstSeq", "totalAdded"} \subseteq DOMAIN f
    BY <1>2, <2>1 DEF PushRow, TopOK
  <2>3. g.top # <<>>
    BY <2>1
  <2>4. /\ Tail(g.top) \in Seq(Row) /\ Len(Tail(g.top)) = n - 1
        /\ \A i \in 1 .. n - 1 : Tail(g.top)[i] = g.top[i + 1]
    BY <1>1, <2>3
  <2>5. top \in Seq(Row) /\ Len(top) = n /\ \A i \in 1 .. n - 1 : top[i] = g.top[i + 1]
    BY <1>1, <2>1, <2>4
  <2> HIDE DEF top, f, n
  <2>6. TopOK(f)
    <3>1. f.firstSeq \in Nat /\ f.totalAdded = f.firstSeq + n /\ n <= f.max /\ f.max \in Nat \ {0}
      BY <1>1, <2>2
    <3> QED
      BY <2>2, <2>5, <3>1, SMTT(30) DEF TopOK
  <2>7. ASSUME NEW k \in f.firstSeq .. g.totalAdded - 1 PROVE RowNumbered(f, k) = RowNumbered(g, k)
    <3> DEFINE i == k - g.firstSeq
    <3>1. i \in 1 .. n - 1 /\ k - f.firstSeq + 1 = i /\ k - g.firstSeq + 1 = i + 1
      BY <1>1, <2>2, SMTT(30)
    <3> HIDE DEF i
    <3> QED
      BY <2>2, <2>5, <3>1 DEF RowNumbered
  <2> QED
    BY <1>1, <2>2, <2>6, <2>7 DEF Later, Numbered, f
<1>3. CASE n # g.max
  <2> DEFINE top == Append(g.top, row)
  <2>1. /\ f.top = top /\ f.firstSeq = g.firstSeq /\ f.totalAdded = g.totalAdded + 1
        /\ f.max = g.max /\ f.s = g.s
        /\ {"s", "top", "max", "firstSeq", "totalAdded"} \subseteq DOMAIN f
    BY <1>1, <1>3 DEF PushRow, TopOK
  <2>2. top \in Seq(Row) /\ Len(top) = n + 1 /\ \A i \in 1 .. n : top[i] = g.top[i]
    BY <1>1
  <2> HIDE DEF top, f, n
  <2>3. TopOK(f)
    BY <1>1, <1>3, <2>1, <2>2 DEF TopOK
  <2>4. ASSUME NEW k \in f.firstSeq .. g.totalAdded - 1 PROVE RowNumbered(f, k) = RowNumbered(g, k)
    <3> DEFINE i == k - g.firstSeq + 1
    <3>1. i \in 1 .. n /\ k - f.firstSeq + 1 = i
      BY <1>1, <2>1
    <3> HIDE DEF i
    <3> QED
      BY <2>1, <2>2, <3>1 DEF RowNumbered, i
  <2> QED
    BY <1>1, <2>1, <2>3, <2>4 DEF Later, Numbered, f
<1> QED
  BY <1>2, <1>3

PushRowsStep(p, g, i) == PushRow(g, p[i - 1])
PushLaws == INSTANCE FoldLaws WITH Op <- PushRowsStep
LEMMA PushInduction == PushLaws!Induction
  BY NaturalInduction DEF PushLaws!Induction

LEMMA PushRowsOK ==
    ASSUME NEW g, TopOK(g), NEW buf, NEW n \in Nat, \A i \in 0 .. n - 1 : buf[i] \in Row
    PROVE  Later(g, PushRows(g, buf, n)) /\ PushRows(g, buf, n).s = g.s
<1> DEFINE q == [i \in 1 .. n |-> i]
<1>1. PushRows(g, buf, n) = PushLaws!Fold(buf, g, q)
  BY DEF PushRows, FoldLeft, MapThenFoldSet, Max, PushLaws!Fold, PushLaws!Greatest, PushRowsStep
<1>2. q \in Seq(1 .. n)
  OBVIOUS
<1> HIDE DEF q
<1>3. PICK R : PushLaws!Within(buf, g, q, 1 .. n, R)
  BY <1>2, PushInduction, PushLaws!FoldWithin
<1> DEFINE T == {f \in R : Later(g, f) /\ f.s = g.s}
<1>4. ASSUME NEW f, Later(g, f), f.s = g.s, NEW i \in 1 .. n
      PROVE  Later(g, PushRowsStep(buf, f, i)) /\ PushRowsStep(buf, f, i).s = g.s
  <2>1. i - 1 \in 0 .. n - 1
    OBVIOUS
  <2>2. buf[i - 1] \in Row
    BY <2>1
  <2>3. Later(f, PushRow(f, buf[i - 1])) /\ PushRow(f, buf[i - 1]).s = f.s
    BY <1>4, <2>2, PushRowOK DEF Later
  <2> QED
    BY <1>4, <2>3, LaterTwice DEF PushRowsStep
<1>5. PushLaws!Fold(buf, g, q) \in T
  BY <1>3, <1>4, LaterSelf DEF PushLaws!Within
<1> QED
  BY <1>1, <1>5

LEMMA LiftOK ==
    ASSUME NEW g, TopOK(g), NEW t PROVE Later(g, Lift(g, t)) /\ Lift(g, t).s = t
<1> DEFINE f == Lift(g, t)
<1>1. /\ f.top = g.top /\ f.firstSeq = g.firstSeq /\ f.totalAdded = g.totalAdded /\ f.max = g.max
      /\ f.s = t /\ {"s", "top", "max", "firstSeq", "totalAdded"} \subseteq DOMAIN f
  BY DEF Lift, TopOK
<1> HIDE DEF f
<1>2. TopOK(f)
  BY <1>1 DEF TopOK
<1>3. Numbered(g, f)
  BY <1>1, TopInts DEF Numbered, RowNumbered
<1> QED
  BY <1>1, <1>2, <1>3 DEF Later, f

LEMMA ResetHistoryOK ==
    ASSUME NEW g, TopOK(g) PROVE Later(g, ResetHistory(g)) /\ ResetHistory(g).s = g.s
<1> DEFINE f == ResetHistory(g)
<1>1. /\ f.top = <<>> /\ f.firstSeq = g.totalAdded /\ f.totalAdded = g.totalAdded /\ f.max = g.max
      /\ f.s = g.s /\ {"s", "top", "max", "firstSeq", "totalAdded"} \subseteq DOMAIN f
  BY DEF ResetHistory, TopOK
<1> HIDE DEF f
<1>2. <<>> \in Seq(Row) /\ Len(<<>>) = 0
  OBVIOUS
<1>3. g.totalAdded \in Nat /\ g.max \in Nat \ {0}
  BY TopInts DEF TopOK
<1>4. TopOK(f)
  BY <1>1, <1>2, <1>3 DEF TopOK
<1>5. Numbered(g, f)
  BY <1>1, <1>3, TopInts DEF Numbered
<1> QED
  BY <1>1, <1>4, <1>5 DEF Later, f

LEMMA AfterEventOK ==
    ASSUME NEW g, HistoryOK(g) PROVE HistoryOK(AfterEvent(g)) /\ Later(g, AfterEvent(g))
<1>1. CASE g.s.panicked
  BY <1>1, LaterSelf DEF AfterEvent, HistoryOK
<1>2. CASE ~g.s.panicked
  <2> DEFINE x == ~Has(g.s, "DECTCEM")
             t == [g.s EXCEPT !.hidden = x]
  <2>1. AfterEvent(g) = Lift(g, t)
    BY <1>2 DEF AfterEvent, Lift
  <2>2. x \in BOOLEAN
    BY DEF Has
  <2> HIDE DEF x
  <2>3. Calm(g.s, t)
    BY <2>2 DEF HistoryOK, Fine, Calm, ScreenOK, Afloat, HasFields
  <2> HIDE DEF t
  <2>4. Fine(t)
    BY <1>2, <2>3, CalmIsFine
  <2> QED
    BY <2>1, <2>4, LiftOK DEF HistoryOK, Later
<1> QED
  BY <1>1, <1>2

LEMMA HIndexOK ==
    ASSUME NEW g, HistoryOK(g), ~g.s.panicked
    PROVE  /\ HistoryOK(HIndex(g)) /\ Later(g, HIndex(g)) /\ ~HIndex(g).s.panicked
           /\ HistoryOK(HLineFeed(g)) /\ Later(g, HLineFeed(g))
<1> DEFINE f == IF g.s.row = ScrollBottom(g.s) /\ ScrollbackEligible(g.s)
                THEN PushRow(g, g.s.buf[ScrollTop(g.s)]) ELSE g
           t == Index(g.s)
<1>1. TopOK(g) /\ ScreenOK(g.s)
  BY DEF HistoryOK, Fine
<1>2. HIndex(g) = Lift(f, t)
  BY DEF HIndex
<1>3. Later(g, f)
  <2>1. ScrollTop(g.s) \in 0 .. g.s.lines - 1
    BY <1>1, Ranges DEF ScreenOK
  <2>2. g.s.buf[ScrollTop(g.s)] \in [0 .. g.s.columns - 1 -> Cell] /\ g.s.columns \in Nat
    BY <1>1, <2>1, CellsOf DEF ScreenOK, Afloat
  <2>3. g.s.buf[ScrollTop(g.s)] \in Row
    BY <2>2 DEF Row
  <2> QED
    BY <1>1, <2>3, PushRowOK, LaterSelf
<1> HIDE DEF f
<1>4. Calm(g.s, t)
  BY <1>1, IndexOK DEF Steady
<1> HIDE DEF t
<1>5. Fine(t) /\ ~t.panicked
  BY <1>4, CalmIsFine DEF Calm
<1>6. Later(f, Lift(f, t)) /\ Lift(f, t).s = t
  BY <1>3, LiftOK DEF Later
<1>7. /\ HistoryOK(HIndex(g)) /\ Later(g, HIndex(g)) /\ ~HIndex(g).s.panicked
  BY <1>1, <1>2, <1>3, <1>5, <1>6, LaterTwice DEF HistoryOK, Later
<1> DEFINE e == HIndex(g)
           u == CarriageReturn(e.s)
<1>8. HLineFeed(g) = e \/ HLineFeed(g) = Lift(e, u)
  BY DEF HLineFeed
<1> HIDE DEF e
<1>9. TopOK(e) /\ Fine(e.s) /\ ~e.s.panicked /\ Later(g, e)
  BY <1>7 DEF HistoryOK, e
<1>10. Fine(u)
  BY <1>9, CarriageReturnOK, CalmIsFine DEF Fine, Steady
<1> HIDE DEF u
<1>11. Later(e, Lift(e, u)) /\ Lift(e, u).s = u
  BY <1>9, LiftOK
<1> QED
  BY <1>1, <1>7, <1>8, <1>9, <1>10, <1>11, LaterTwice DEF HistoryOK, Later, e

LEMMA PerformOK ==
    ASSUME NEW g, HistoryOK(g), ~g.s.panicked, NEW e, OpOK(e)
    PROVE  HistoryOK(Perform(g, e)) /\ Later(g, Perform(g, e))
<1> USE DEF HistoryOK, Later
<1>1. TopOK(g) /\ ScreenOK(g.s)
  BY DEF Fine
<1>2. \A f : HistoryOK(f) /\ Later(g, f) => HistoryOK(AfterEvent(f)) /\ Later(g, AfterEvent(f))
  BY <1>1, AfterEventOK, LaterTwice
<1>3. \A t : Fine(t) => HistoryOK(Lift(g, t)) /\ Later(g, Lift(g, t))
  BY <1>1, LiftOK
<1>4. CASE e[1] = "Bell"
  <2>1. Perform(g, e) = AfterEvent(g)
    BY <1>4 DEF Perform, PlainOps, CursorOps, EditOps, ReportOps
  <2> QED
    BY <1>1, <1>2, <2>1, LaterSelf
<1>5. CASE e[1] \in {"Index", "LineFeed"}
  <2>1. Perform(g, e) = AfterEvent(HIndex(g)) \/ Perform(g, e) = AfterEvent(HLineFeed(g))
    BY <1>5, Zenon DEF Perform, PlainOps, CursorOps, EditOps, ReportOps
  <2> QED
    BY <1>2, <2>1, HIndexOK
<1>6. CASE e[1] \in {"Reset", "EraseInDisplay"}
  <2> DEFINE t == IF e[1] = "Reset" THEN Reset(g.s) ELSE EraseInDisplay(g.s, e[2], e[3])
             f == Lift(g, t)
             r == ResetHistory(f)
  <2>1. Perform(g, e) = AfterEvent(f) \/ Perform(g, e) = AfterEvent(r)
    BY <1>6 DEF Perform, HReset, HEraseInDisplay, PlainOps, CursorOps, EditOps, ReportOps
  <2>2. Fine(t)
    <3>1. 0 \in Int
      OBVIOUS
    <3>2. Calm(g.s, Reset(g.s)) /\ Calm(g.s, EraseInDisplay(g.s, e[2], e[3]))
      BY <1>1, <3>1, ResetOK, EraseDisplayOK DEF Steady
    <3> QED
      BY <3>2, CalmIsFine
  <2> HIDE DEF t
  <2>3. HistoryOK(f) /\ Later(g, f)
    BY <1>3, <2>2
  <2> HIDE DEF f
  <2>4. HistoryOK(r) /\ Later(g, r)
    BY <1>1, <2>3, ResetHistoryOK, LaterTwice
  <2> HIDE DEF r
  <2> QED
    BY <1>2, <2>1, <2>3, <2>4
<1>7. CASE e[1] \in PlainOps
  <2>1. Perform(g, e) = Lift(g, PlainOp(g.s, e))
    BY <1>7 DEF Perform, PlainOps, CursorOps, EditOps, ReportOps
  <2> QED
    BY <1>1, <1>3, <1>7, <2>1, PlainOpOK
<1>8. CASE e[1] \in CursorOps
  <2>1. Perform(g, e) = AfterEvent(Lift(g, CursorOp(g.s, e)))
    BY <1>8 DEF Perform, PlainOps, CursorOps, EditOps, ReportOps
  <2> QED
    BY <1>1, <1>2, <1>3, <1>8, <2>1, CursorOpOK
<1>9. CASE e[1] \in EditOps
  <2>1. Perform(g, e) = AfterEvent(Lift(g, EditOp(g.s, e)))
    BY <1>9 DEF Perform, PlainOps, CursorOps, EditOps, ReportOps
  <2> QED
    BY <1>1, <1>2, <1>3, <1>9, <2>1, EditOpOK
<1>10. CASE e[1] \in ReportOps
  <2>1. Perform(g, e) = AfterEvent(Lift(g, ReportOp(g.s, e)))
    BY <1>10 DEF Perform, PlainOps, CursorOps, EditOps, ReportOps
  <2> QED
    BY <1>1, <1>2, <1>3, <1>10, <2>1, ReportOpOK
<1>11. CASE e[1] \in StateOps
  <2>1. Perform(g, e) = AfterEvent(Lift(g, StateOp(g.s, e)))
    BY <1>11 DEF Perform, PlainOps, CursorOps, EditOps, ReportOps, StateOps
  <2> QED
    BY <1>1, <1>2, <1>3, <1>11, <2>1, StateOpOK
<1>12. e[1] \in {"Bell", "Index", "LineFeed", "Reset", "EraseInDisplay"} \union PlainOps
                  \union CursorOps \union EditOps \union ReportOps \union StateOps
  BY DEF OpOK, OpNames
<1> QED
  BY <1>4, <1>5, <1>6, <1>7, <1>8, <1>9, <1>10, <1>11, <1>12

ReplayStep(p, g, e) == IF g.s.panicked THEN g ELSE Perform(g, e)
ReplayLaws == INSTANCE FoldLaws WITH Op <- ReplayStep
LEMMA ReplayInduction == ReplayLaws!Induction
  BY NaturalInduction DEF ReplayLaws!Induction

LEMMA ReplayOK ==
    ASSUME NEW g, HistoryOK(g), NEW E, \A e \in E : OpOK(e), NEW events \in Seq(E)
    PROVE  HistoryOK(Replay(g, events)) /\ Later(g, Replay(g, events))
<1>1. Replay(g, events) = ReplayLaws!Fold(0, g, events)
  BY DEF Replay, FoldLeft, MapThenFoldSet, Max, ReplayLaws!Fold, ReplayLaws!Greatest, ReplayStep
<1>2. PICK R : ReplayLaws!Within(0, g, events, E, R)
  BY ReplayInduction, ReplayLaws!FoldWithin
<1> DEFINE T == {f \in R : HistoryOK(f) /\ Later(g, f)}
<1>3. TopOK(g)
  BY DEF HistoryOK
<1>4. ASSUME NEW f, HistoryOK(f), Later(g, f), NEW e \in E
      PROVE  HistoryOK(ReplayStep(0, f, e)) /\ Later(g, ReplayStep(0, f, e))
  <2>1. ~f.s.panicked => HistoryOK(Perform(f, e)) /\ Later(f, Perform(f, e))
    BY <1>4, PerformOK
  <2> QED
    BY <1>3, <1>4, <2>1, LaterTwice DEF ReplayStep
<1>5. ReplayLaws!Fold(0, g, events) \in T
  BY <1>2, <1>3, <1>4, LaterSelf DEF ReplayLaws!Within
<1> QED
  BY <1>1, <1>5

-----------------------------------------------------------------------------
(* The operations of the families are such ones.                           *)

LEMMA NamedOK ==
    ASSUME NEW e, e[1] \in OpNames \ (CountOps \union PairOps \union RectOps \union ListOps \union {"Draw", "WindowOp"})
    PROVE  OpOK(e)
  BY DEF OpOK, RectOps

LEMMA CountedOK ==
    ASSUME NEW e, e[1] \in CountOps, e[2] \in Int PROVE OpOK(e)
<1>1. e[1] \in OpNames
  BY DEF OpNames, CountOps, CursorOps, EditOps, StateOps
<1>2. e[1] \notin PairOps \union RectOps \union ListOps \union {"Draw", "WindowOp", "CopyRectangle"}
  BY DEF CountOps, PairOps, RectOps, ListOps
<1> QED
  BY <1>1, <1>2 DEF OpOK

LEMMA PairedOK ==
    ASSUME NEW e, e[1] \in PairOps, e[2] \in Int, e[3] \in Int PROVE OpOK(e)
<1>1. e[1] \in OpNames
  BY DEF OpNames, PairOps, CursorOps, StateOps
<1>2. e[1] \notin CountOps \union RectOps \union ListOps \union {"Draw", "WindowOp", "CopyRectangle"}
  BY DEF CountOps, PairOps, RectOps, ListOps
<1> QED
  BY <1>1, <1>2 DEF OpOK

LEMMA RectangleOK ==
    ASSUME NEW e, e[1] \in RectOps, e[2] \in Int, e[3] \in Int, e[4] \in Int, e[5] \in Int,
           e[1] = "CopyRectangle" => e[6] \in Int /\ e[7] \in Int
    PROVE  OpOK(e)
<1>1. e[1] \in OpNames
  BY DEF OpNames, RectOps, EditOps, PlainOps
<1>2. e[1] \notin CountOps \union PairOps \union ListOps \union {"Draw", "WindowOp"}
  BY DEF CountOps, PairOps, RectOps, ListOps
<1> QED
  BY <1>1, <1>2 DEF OpOK

LEMMA ListedOK ==
    ASSUME NEW M, NEW e, e[1] \in ListOps, e[2] \in Seq(M) PROVE OpOK(e)
<1>1. e[1] \in OpNames
  BY DEF OpNames, ListOps, StateOps
<1>2. e[1] \notin CountOps \union PairOps \union RectOps \union {"Draw", "WindowOp", "CopyRectangle"}
  BY DEF CountOps, PairOps, RectOps, ListOps
<1> QED
  BY <1>1, <1>2 DEF OpOK

LEMMA TextOK ==
    ASSUME NEW e, e[1] = "Draw", e[2] \in Seq(Seq(Runes)) PROVE OpOK(e)
<1>1. e[1] \in OpNames
  BY DEF OpNames, EditOps
<1>2. e[1] \notin CountOps \union PairOps \union RectOps \union ListOps \union {"WindowOp", "CopyRectangle"}
  BY DEF CountOps, PairOps, RectOps, ListOps
<1> QED
  BY <1>1, <1>2 DEF OpOK

LEMMA WindowedOK ==
    ASSUME NEW e, e[1] = "WindowOp", e[2] \in Seq(Int) PROVE OpOK(e)
<1>1. e[1] \in OpNames
  BY DEF OpNames, StateOps
<1>2. e[1] \notin CountOps \union PairOps \union RectOps \union ListOps \union {"Draw", "CopyRectangle"}
  BY DEF CountOps, PairOps, RectOps, ListOps
<1> QED
  BY <1>1, <1>2 DEF OpOK

(* Forms of a literal operation. *)
Simple == OpNames \ (CountOps \union PairOps \union RectOps \union ListOps \union {"Draw", "WindowOp"})
Words == {"IRM", "DECAWM", "RevInline", "MoreFix", "RevExtend", "LNM", "DECLRMM", "DECOM", "AltBuf",
    "AltBufOpt", "AltBufCursor", "DECSaveCursor", "44", "1", "7", "27", "22", "DECCOLM", "DECNCSM",
    "80To132", "DECSCNM", "DECTCEM"}
LEMMA Literals ==
    /\ \A name \in Simple : /\ OpOK(<<name>>)
                            /\ \A x : OpOK(<<name, x>>)
                            /\ \A x, y : OpOK(<<name, x, y>>)
                            /\ \A x, y, z : OpOK(<<name, x, y, z>>)
    /\ \A name \in CountOps, n \in Int : OpOK(<<name, n>>)
    /\ \A name \in PairOps, n \in Int, m \in Int : OpOK(<<name, n, m>>)
    /\ \A name \in RectOps \ {"CopyRectangle"}, a, b, c, d \in Int : OpOK(<<name, a, b, c, d>>)
    /\ \A name \in ListOps : \A w \in Words : OpOK(<<name, <<w>>>>)
    /\ \A c \in Runes : OpOK(Text(<<c>>)) /\ \A d \in Runes : OpOK(Text(<<c, d>>))
<1>1. \A name \in Simple :
                            /\ OpOK(<<name>>)
                            /\ \A x : OpOK(<<name, x>>)
                            /\ \A x, y : OpOK(<<name, x, y>>)
                            /\ \A x, y, z : OpOK(<<name, x, y, z>>)
  BY NamedOK DEF Simple
<1>2. \A name \in CountOps, n \in Int : OpOK(<<name, n>>)
  BY CountedOK
<1>3. \A name \in PairOps, n \in Int, m \in Int : OpOK(<<name, n, m>>)
  BY PairedOK
<1>4. \A name \in RectOps \ {"CopyRectangle"}, a, b, c, d \in Int : OpOK(<<name, a, b, c, d>>)
  BY RectangleOK
<1>5. \A name \in ListOps : \A w \in Words : OpOK(<<name, <<w>>>>)
  <2> SUFFICES ASSUME NEW name \in ListOps, NEW w \in Words PROVE OpOK(<<name, <<w>>>>)
    BY Zenon
  <2>1. <<w>> \in Seq(Words)
    OBVIOUS
  <2> DEFINE e == <<name, <<w>>>>
  <2>2. e[1] = name /\ e[2] = <<w>>
    OBVIOUS
  <2> HIDE DEF e
  <2>3. OpOK(e)
    BY <2>1, <2>2, ListedOK
  <2> QED
    BY <2>3 DEF e
<1>6. ASSUME NEW c \in Runes PROVE OpOK(Text(<<c>>)) /\ \A d \in Runes : OpOK(Text(<<c, d>>))
  <2>1. \A x \in Seq(Runes) : OpOK(Text(x))
    <3> SUFFICES ASSUME NEW x \in Seq(Runes) PROVE OpOK(<<"Draw", <<x>>>>)
      BY Zenon DEF Text
    <3>1. <<x>> \in Seq(Seq(Runes))
      OBVIOUS
    <3> DEFINE e == <<"Draw", <<x>>>>
    <3>2. e[1] = "Draw" /\ e[2] = <<x>>
      OBVIOUS
    <3> HIDE DEF e
    <3>3. OpOK(e)
      BY <3>1, <3>2, TextOK
    <3> QED
      BY <3>3 DEF e
  <2>2. <<c>> \in Seq(Runes) /\ \A d \in Runes : <<c, d>> \in Seq(Runes)
    OBVIOUS
  <2> QED
    BY <2>1, <2>2
<1> QED
  BY <1>1, <1>2, <1>3, <1>4, <1>5, <1>6

LEMMA Texts ==
    /\ OpOK(Text(<<"a">>)) /\ OpOK(Text(<<"W">>)) /\ OpOK(Text(<<"+">>)) /\ OpOK(Text(<<"#">>))
    /\ OpOK(Text(<<"a", "+">>))
<1>1. {"a", "W", "+", "#"} \subseteq Runes
  BY DEF Runes
<1>2. \A c \in Runes : OpOK(Text(<<c>>)) /\ \A d \in Runes : OpOK(Text(<<c, d>>))
  BY Literals, Zenon
<1> QED
  BY <1>1, <1>2, Zenon

LEMMA TextOpsOK == \A e \in TextOps : OpOK(e)
<1>1. OpOK(<<"Draw", <<<<"z">>, <<"a">>>>>>)
  <2>1. <<"z">> \in Seq(Runes) /\ <<"a">> \in Seq(Runes)
    <3>1. "z" \in Runes /\ "a" \in Runes
      BY DEF Runes
    <3> QED
      BY <3>1
  <2> DEFINE q == <<<<"z">>, <<"a">>>>
  <2>2. q \in Seq(Seq(Runes))
    BY <2>1
  <2> HIDE DEF q
  <2> DEFINE e == <<"Draw", q>>
  <2>3. e[1] = "Draw" /\ e[2] = q
    OBVIOUS
  <2> HIDE DEF e
  <2>4. OpOK(e)
    BY <2>2, <2>3, TextOK
  <2> QED
    BY <2>4 DEF e, q
<1>2. OpOK(Text(<<"a">>)) /\ OpOK(Text(<<"W">>)) /\ OpOK(Text(<<"a", "+">>)) /\ OpOK(Text(<<"+">>))
  BY Texts, Zenon
<1>3. OpOK(<<"LineFeed">>) /\ OpOK(<<"CarriageReturn">>) /\ OpOK(<<"Backspace">>)
  BY Literals DEF Simple, OpNames, CursorOps, CountOps, PairOps, RectOps, ListOps
<1>4. OpOK(<<"RepeatLast", 2>>) /\ OpOK(<<"CursorPosition", 2, 2>>)
  BY Literals DEF CountOps, PairOps
<1>5. OpOK(<<"SetMode", <<"IRM">>>>) /\ OpOK(<<"ResetMode", <<"DECAWM">>>>) /\ OpOK(<<"SetMode", <<"RevInline">>>>)
  BY Literals DEF ListOps, Words
<1> QED
  BY <1>1, <1>2, <1>3, <1>4, <1>5 DEF TextOps

LEMMA TabOpsOK == \A e \in TabOps : OpOK(e)
<1>1. OpOK(Text(<<"a">>))
  BY Texts, Zenon
<1>2. OpOK(<<"Tab">>) /\ OpOK(<<"SetTabStop">>) /\ OpOK(<<"ClearTabStop", 0>>) /\ OpOK(<<"ClearTabStop", 3>>)
      /\ OpOK(<<"LineFeed">>)
  BY Literals DEF Simple, OpNames, CursorOps, CountOps, PairOps, RectOps, ListOps
<1>3. OpOK(<<"CursorBackTab", 1>>) /\ OpOK(<<"CursorForwardTab", 2>>) /\ OpOK(<<"CursorForward", 1>>)
      /\ OpOK(<<"CursorBack", 2>>)
  BY Literals DEF CountOps
<1>4. OpOK(<<"SetMode", <<"MoreFix">>>>) /\ OpOK(<<"SetMode", <<"RevExtend">>>>) /\ OpOK(<<"SetMode", <<"LNM">>>>)
  BY Literals DEF ListOps, Words
<1> QED
  BY <1>1, <1>2, <1>3, <1>4 DEF TabOps

LEMMA MarginOpsOK == \A e \in MarginOps : OpOK(e)
<1>1. OpOK(Text(<<"a">>)) /\ OpOK(Text(<<"W">>)) /\ OpOK(Text(<<"+">>))
  BY Texts, Zenon
<1>2. OpOK(<<"ForwardIndex">>) /\ OpOK(<<"BackIndex">>) /\ OpOK(<<"Index">>)
  BY Literals DEF Simple, OpNames, EditOps, CountOps, PairOps, RectOps, ListOps
<1>3. OpOK(<<"InsertCharacters", 1>>) /\ OpOK(<<"DeleteCharacters", 1>>) /\ OpOK(<<"InsertColumns", 1>>)
      /\ OpOK(<<"DeleteColumns", 1>>) /\ OpOK(<<"CursorToColumn", 3>>)
  BY Literals DEF CountOps
<1>4. OpOK(<<"SetLeftRightMargins", 1, 2>>) /\ OpOK(<<"SetLeftRightMargins", 2, 3>>) /\ OpOK(<<"SetMargins", 1, 2>>)
  BY Literals DEF PairOps
<1>5. OpOK(<<"SetMode", <<"DECLRMM">>>>) /\ OpOK(<<"SetMode", <<"DECOM">>>>) /\ OpOK(<<"ResetMode", <<"DECLRMM">>>>)
  BY Literals DEF ListOps, Words
<1> QED
  BY <1>1, <1>2, <1>3, <1>4, <1>5 DEF MarginOps

LEMMA ScrollOpsOK == \A e \in ScrollOps : OpOK(e)
<1>1. OpOK(Text(<<"a">>))
  BY Texts, Zenon
<1>2. OpOK(<<"Index">>) /\ OpOK(<<"ReverseIndex">>)
  BY Literals DEF Simple, OpNames, EditOps, CountOps, PairOps, RectOps, ListOps
<1>3. OpOK(<<"ScrollUp", 1>>) /\ OpOK(<<"ScrollDown", 2>>) /\ OpOK(<<"InsertLines", 1>>) /\ OpOK(<<"DeleteLines", 2>>)
      /\ OpOK(<<"CursorUp", 1>>) /\ OpOK(<<"CursorDown", 1>>) /\ OpOK(<<"CursorUp1", 1>>)
      /\ OpOK(<<"CursorDown1", 2>>) /\ OpOK(<<"CursorToLine", 3>>)
  BY Literals DEF CountOps
<1>4. OpOK(<<"SetMargins", 2, 3>>) /\ OpOK(<<"SetMargins", 1, 2>>)
  BY Literals DEF PairOps
<1>5. OpOK(<<"SetMode", <<"DECOM">>>>)
  BY Literals DEF ListOps, Words
<1> QED
  BY <1>1, <1>2, <1>3, <1>4, <1>5 DEF ScrollOps

LEMMA AltOpsOK == \A e \in AltOps : OpOK(e)
<1>1. OpOK(Text(<<"a">>))
  BY Texts, Zenon
<1>2. OpOK(<<"LineFeed">>) /\ OpOK(<<"SaveCursorDEC">>) /\ OpOK(<<"RestoreCursorDEC">>)
  BY Literals DEF Simple, OpNames, PlainOps, CountOps, PairOps, RectOps, ListOps
<1>3. OpOK(<<"CursorPosition", 2, 2>>)
  BY Literals DEF PairOps
<1>4. \A w \in {"AltBuf", "AltBufOpt", "AltBufCursor", "DECSaveCursor"} :
         OpOK(<<"SetMode", <<w>>>>) /\ OpOK(<<"ResetMode", <<w>>>>)
  BY Literals DEF ListOps, Words
<1> QED
  BY <1>1, <1>2, <1>3, <1>4 DEF AltOps

(* Lists of other lengths. *)
LEMMA LongLists ==
    /\ OpOK(<<"SelectGraphicRendition", <<>>>>)
    /\ OpOK(<<"SelectGraphicRendition", <<"1", "7", "27", "22">>>>)
    /\ \A name \in {"SaveModes", "RestoreModes"} : OpOK(<<name, <<"DECSCNM", "DECCOLM">>>>)
    /\ \A a, b \in Int : OpOK(<<"SetTitleMode", <<a, b>>, FALSE>>)
    /\ \A a \in Int : OpOK(<<"WindowOp", <<a>>>>)
    /\ \A a, b \in Int : OpOK(<<"WindowOp", <<a, b>>>>)
    /\ \A a, b, c \in Int : OpOK(<<"WindowOp", <<a, b, c>>>>)
<1>1. \A name \in ListOps : \A M, x : x \in Seq(M) => OpOK(<<name, x>>) /\ OpOK(<<name, x, FALSE>>)
  BY ListedOK
<1>2. \A x \in Seq(Int) : OpOK(<<"WindowOp", x>>)
  BY WindowedOK
<1>3. /\ <<>> \in Seq(Words) /\ <<"1", "7", "27", "22">> \in Seq(Words) /\ <<"DECSCNM", "DECCOLM">> \in Seq(Words)
  <2>1. {"1", "7", "27", "22", "DECSCNM", "DECCOLM"} \subseteq Words
    BY DEF Words
  <2> QED
    BY <2>1
<1>4. /\ \A a, b, c \in Int : <<a>> \in Seq(Int) /\ <<a, b>> \in Seq(Int) /\ <<a, b, c>> \in Seq(Int)
  OBVIOUS
<1>5. {"SelectGraphicRendition", "SaveModes", "RestoreModes", "SetTitleMode"} \subseteq ListOps
  BY Literals DEF ListOps
<1>6. OpOK(<<"SelectGraphicRendition", <<>>>>) /\ OpOK(<<"SelectGraphicRendition", <<"1", "7", "27", "22">>>>)
  BY <1>1, <1>3, <1>5
<1>7. \A name \in {"SaveModes", "RestoreModes"} : OpOK(<<name, <<"DECSCNM", "DECCOLM">>>>)
  BY <1>1, <1>3, <1>5
<1>8. \A a, b \in Int : OpOK(<<"SetTitleMode", <<a, b>>, FALSE>>)
  BY <1>1, <1>4, <1>5
<1> QED
  BY <1>2, <1>4, <1>6, <1>7, <1>8

LEMMA EraseOpsOK == \A e \in EraseOps : OpOK(e)
<1>1. OpOK(Text(<<"a">>))
  BY Texts, Zenon
<1>2. OpOK(<<"StartProtectedArea">>) /\ OpOK(<<"EndProtectedArea">>) /\ OpOK(<<"SetCharacterProtection", 1>>)
      /\ OpOK(<<"EraseInDisplay", 0, FALSE>>) /\ OpOK(<<"EraseInDisplay", 3, TRUE>>)
      /\ OpOK(<<"EraseInDisplaySelective", 1>>) /\ OpOK(<<"EraseInLine", 1, TRUE>>)
      /\ OpOK(<<"EraseInLine", 2, FALSE>>) /\ OpOK(<<"EraseCharacters", 2>>) /\ OpOK(<<"AlignmentDisplay">>)
  BY Literals DEF Simple, OpNames, PlainOps, EditOps, StateOps, CountOps, PairOps, RectOps, ListOps
<1>3. OpOK(<<"EraseRectangle", 1, 1, 2, 2>>) /\ OpOK(<<"SelectiveEraseRectangle", 1, 2, 0, 0>>)
      /\ OpOK(<<"FillRectangle", 2, 1, 0, 0>>)
  BY Literals DEF RectOps
<1>4. OpOK(<<"CopyRectangle", 1, 1, 1, 2, 2, 2>>)
  BY RectangleOK DEF RectOps
<1>5. OpOK(<<"SelectGraphicRendition", <<"44">>>>)
  BY Literals DEF ListOps, Words
<1> QED
  BY <1>1, <1>2, <1>3, <1>4, <1>5, LongLists DEF EraseOps

LEMMA ModeOpsOK == \A e \in ModeOps : OpOK(e)
<1>1. OpOK(Text(<<"a">>))
  BY Texts, Zenon
<1>2. OpOK(<<"SoftReset">>) /\ OpOK(<<"Reset">>)
  BY Literals DEF Simple, OpNames, StateOps, CountOps, PairOps, RectOps, ListOps
<1>3. OpOK(<<"SetConformance", 64>>) /\ OpOK(<<"SetConformance", 62>>)
  BY Literals DEF CountOps
<1>4. \A w \in {"DECCOLM", "DECNCSM", "80To132", "DECSCNM", "DECLRMM", "AltBufCursor", "DECTCEM"} :
         OpOK(<<"SetMode", <<w>>>>) /\ OpOK(<<"ResetMode", <<w>>>>)
  BY Literals DEF ListOps, Words
<1>5. OpOK(<<"SaveModes", <<"DECSCNM", "DECCOLM">>>>) /\ OpOK(<<"RestoreModes", <<"DECSCNM", "DECCOLM">>>>)
  BY LongLists
<1>6. OpOK(<<"WindowOp", <<8, 2, 3>>>>)
  <2>1. \A a, b, c \in Int : OpOK(<<"WindowOp", <<a, b, c>>>>)
    BY LongLists, Zenon
  <2> QED
    BY <2>1
<1> QED
  BY <1>1, <1>2, <1>3, <1>4, <1>5, <1>6 DEF ModeOps

LEMMA ReportFamilyOK == \A e \in ReportFamily : OpOK(e)
<1>1. OpOK(Text(<<"a">>))
  BY Texts, Zenon
<1>2. {"SetTitle", "SetIconName", "SetColor", "QueryColor", "ResetColor", "SetSelectionData",
       "QuerySelectionData", "ReportDeviceStatus", "ReportDeviceAttributes", "ReportMode",
       "RequestStatusString", "SetCursorStyle", "SetActiveStatusDisplay", "DefineCharset",
       "ShiftOut", "ShiftIn", "Bell"} \subseteq Simple
  BY DEF Simple, OpNames, StateOps, ReportOps, PlainOps, CountOps, PairOps, RectOps, ListOps
<1>3. OpOK(<<"SetTitle", <<"T">>>>) /\ OpOK(<<"SetIconName", <<"hex", "I">>>>)
      /\ OpOK(<<"SetColor", "palette", 17, "red">>) /\ OpOK(<<"QueryColor", "palette", 17>>)
      /\ OpOK(<<"ResetColor", "palette", 1, TRUE>>) /\ OpOK(<<"SetSelectionData", <<"clip">>>>)
      /\ OpOK(<<"QuerySelectionData">>)
  BY <1>2, Literals
<1>4. OpOK(<<"ReportDeviceStatus", 6>>) /\ OpOK(<<"ReportDeviceAttributes", 0>>) /\ OpOK(<<"ReportMode", "DECAWM">>)
      /\ OpOK(<<"RequestStatusString", "r">>) /\ OpOK(<<"RequestStatusString", "m">>)
      /\ OpOK(<<"SetCursorStyle", 2>>) /\ OpOK(<<"SetActiveStatusDisplay", 1>>)
      /\ OpOK(<<"DefineCharset", "vt100", "(">>) /\ OpOK(<<"ShiftOut">>) /\ OpOK(<<"ShiftIn">>) /\ OpOK(<<"Bell">>)
  BY <1>2, Literals
<1>5. OpOK(<<"SetTitleMode", <<0, 1>>, FALSE>>) /\ OpOK(<<"SetTitleMode", <<2, 3>>, FALSE>>)
  <2>1. \A a, b \in Int : OpOK(<<"SetTitleMode", <<a, b>>, FALSE>>)
    BY LongLists, Zenon
  <2>2. 0 \in Int /\ 1 \in Int /\ 2 \in Int /\ 3 \in Int
    OBVIOUS
  <2> QED
    BY <2>1, <2>2, Zenon
<1>6. OpOK(<<"WindowOp", <<22, 0>>>>) /\ OpOK(<<"WindowOp", <<23, 1>>>>) /\ OpOK(<<"WindowOp", <<23, 2>>>>)
  <2>1. \A a, b \in Int : OpOK(<<"WindowOp", <<a, b>>>>)
    BY LongLists, Zenon
  <2> QED
    BY <2>1
<1>7. OpOK(<<"WindowOp", <<21>>>>) /\ OpOK(<<"WindowOp", <<18>>>>)
  <2>1. \A a \in Int : OpOK(<<"WindowOp", <<a>>>>)
    BY LongLists, Zenon
  <2> QED
    BY <2>1
<1> QED
  BY <1>1, <1>3, <1>4, <1>5, <1>6, <1>7 DEF ReportFamily

LEMMA FamilyOK ==
    ASSUME NEW f \in {"text", "tab", "margin", "scroll", "alt", "erase", "mode", "report", "shell"}
    PROVE  \A e \in OpsOf[f] : OpOK(e)
<1> USE DEF OpsOf
<1>1. CASE f = "text"
  BY <1>1, TextOpsOK
<1>2. CASE f = "tab"
  BY <1>2, TabOpsOK
<1>3. CASE f = "margin"
  BY <1>3, MarginOpsOK
<1>4. CASE f = "scroll"
  BY <1>4, ScrollOpsOK
<1>5. CASE f = "alt"
  BY <1>5, AltOpsOK
<1>6. CASE f = "erase"
  BY <1>6, EraseOpsOK
<1>7. CASE f = "mode"
  BY <1>7, ModeOpsOK
<1>8. CASE f = "report"
  BY <1>8, ReportFamilyOK
<1>9. CASE f = "shell"
  BY <1>9
<1> QED
  BY <1>1, <1>2, <1>3, <1>4, <1>5, <1>6, <1>7, <1>8, <1>9

(* What the shell and its full-screen programs write. *)
LEMMA ShellOpsOK ==
    /\ \A k \in 1 .. 9 : OpOK(Text(<<Letter(k)>>))
    /\ OpOK(<<"CarriageReturn">>) /\ OpOK(<<"LineFeed">>) /\ OpOK(Text(<<"#">>))
    /\ OpOK(<<"SetMode", <<"AltBufCursor">>>>) /\ OpOK(<<"ResetMode", <<"AltBufCursor">>>>)
    /\ \A n \in Int : OpOK(<<"CursorPosition", n, 1>>)
<1>1. \A k \in 1 .. 9 : Letter(k) \in Runes
  <2> SUFFICES ASSUME NEW k \in 1 .. 9 PROVE Letter(k) \in Runes
    OBVIOUS
  <2>1. \A i \in 1 .. 9 : Letter(i) = <<"1", "2", "3", "4", "5", "6", "7", "8", "9">>[i]
    BY DEF Letter
  <2>2. {"1", "2", "3", "4", "5", "6", "7", "8", "9"} \subseteq Runes
    BY DEF Runes
  <2>3. <<"1", "2", "3", "4", "5", "6", "7", "8", "9">>[k] \in {"1", "2", "3", "4", "5", "6", "7", "8", "9"}
    OBVIOUS
  <2> QED
    BY <2>1, <2>2, <2>3
<1>2. "#" \in Runes
  BY DEF Runes
<1>3. OpOK(<<"CarriageReturn">>) /\ OpOK(<<"LineFeed">>)
  BY Literals DEF Simple, OpNames, CursorOps, CountOps, PairOps, RectOps, ListOps
<1>4. OpOK(<<"SetMode", <<"AltBufCursor">>>>) /\ OpOK(<<"ResetMode", <<"AltBufCursor">>>>)
  BY Literals DEF ListOps, Words
<1>5. \A n \in Int : OpOK(<<"CursorPosition", n, 1>>)
  BY Literals DEF PairOps
<1> QED
  BY <1>1, <1>2, <1>3, <1>4, <1>5, Literals

-----------------------------------------------------------------------------
(* The window changes size. *)

LEMMA DefaultCellIs == ASSUME NEW s PROVE DefaultCell(s) \in Cell
<1>1. Blank \in Seq(Runes)
  BY DEF Blank, Runes
<1>2. DefaultAttr(s) \in SUBSET Flags
  BY DEF DefaultAttr, Flags
<1> QED
  BY <1>1, <1>2, CellOK DEF DefaultCell

LEMMA DropCountIs ==
    ASSUME NEW s, NEW n \in Nat \ {0}, NEW columns \in Nat, NEW buf, IsBuffer(buf, n, columns),
           NEW lines \in Nat \ {0}, NEW keep \in Nat
    PROVE  /\ DropCount(s, buf, lines, keep) \in 0 .. n
           /\ keep < n => keep - DropCount(s, buf, lines, keep) < lines
           /\ \A r \in DropCount(s, buf, lines, keep) + lines .. n - 1 : r > keep
           /\ lines >= n => DropCount(s, buf, lines, keep) = 0
<1> DEFINE trimmable(k) == \A r \in n - k .. n - 1 : r > keep /\ RowBlank(s, buf[r])
           trims == {k \in 0 .. n - lines : trimmable(k)}
           trim == CHOOSE k \in trims : \A j \in trims : j <= k
<1>1. RowsOf(buf) = n
  <2>1. DOMAIN buf = 0 .. n - 1 /\ buf # NoBuffer
    BY DEF IsBuffer, NoBuffer
  <2>2. Cardinality(0 .. n - 1) = n
    BY FS_Interval
  <2> QED
    BY <2>1, <2>2 DEF RowsOf
<1>2. DropCount(s, buf, lines, keep) = IF lines >= n THEN 0 ELSE n - lines - trim
  BY <1>1 DEF DropCount
<1>3. CASE lines >= n
  <2>1. DropCount(s, buf, lines, keep) = 0
    BY <1>2, <1>3
  <2> HIDE DEF trimmable, trims, trim
  <2> QED
    BY <1>3, <2>1
<1>4. CASE lines < n
  <2>1. trims \in SUBSET (0 .. n - lines) /\ n - lines \in Nat
    BY <1>4
  <2>2. 0 \in trims
    <3>1. trimmable(0)
      OBVIOUS
    <3> QED
      BY <2>1, <3>1
  <2>3. trims # {}
    BY <2>2
  <2>4. \E k \in trims : \A j \in trims : j <= k
    <3> HIDE DEF trims
    <3> QED
      BY <2>1, <2>3, GreatestOf
  <2>5. trim \in trims
    <3> HIDE DEF trims
    <3> QED
      BY <2>4
  <2>6. trim \in 0 .. n - lines /\ trimmable(trim)
    BY <2>5
  <2> HIDE DEF trims, trim
  <2>7. trim # 0 => n - trim > keep
    <3>1. trim # 0 => n - trim \in n - trim .. n - 1
      BY <2>6
    <3> QED
      BY <2>6, <3>1
  <2>8. \A r \in n - trim .. n - 1 : r > keep
    BY <2>6
  <2> HIDE DEF trimmable
  <2> QED
    BY <1>2, <1>4, <2>6, <2>7, <2>8
<1> QED
  BY <1>3, <1>4

LEMMA DropCountOK ==
    ASSUME NEW s, NEW n \in Nat \ {0}, NEW columns \in Nat, NEW buf, IsBuffer(buf, n, columns),
           NEW lines \in Nat \ {0}, NEW keep \in Nat
    PROVE  /\ DropCount(s, buf, lines, keep) \in 0 .. n
           /\ keep < n => keep - DropCount(s, buf, lines, keep) < lines
  BY DropCountIs

(* What of s the first two steps of a resize have not yet changed in t, and *)
(* what they have.                                                          *)
Refitted(s, t, lines, columns) ==
    /\ HasFields(t)
    /\ IsBuffer(t.buf, lines, columns) /\ t.row \in 0 .. lines - 1
    /\ t.altActive = s.altActive /\ t.col = s.col /\ t.attr = s.attr /\ t.hidden = s.hidden
    /\ t.charset = s.charset /\ t.g0 = s.g0 /\ t.g1 = s.g1 /\ t.rightMargin = s.rightMargin
    /\ t.savepoints = s.savepoints /\ t.altSavepoints = s.altSavepoints
    /\ t.savedColumns = s.savedColumns /\ t.tabStops = s.tabStops /\ t.lastDrawn = s.lastDrawn
    /\ t.panicked = s.panicked
Stashed(s, t) ==
    t.altBuf = s.altBuf /\ t.altSavedCursor = s.altSavedCursor /\ t.altWrapNext = s.altWrapNext
Restashed(t, lines, columns) ==
    /\ t.altBuf = NoBuffer \/ IsBuffer(t.altBuf, lines, columns)
    /\ t.altActive => t.altBuf # NoBuffer
    /\ t.altSavedCursor = NoCursor \/ t.altSavedCursor \in CursorSet
    /\ t.altWrapNext \in BOOLEAN

LEMMA ResizeLiveOK ==
    ASSUME NEW g, TopOK(g), ScreenOK(g.s), NEW lines \in Nat \ {0}, NEW columns \in Nat \ {0}
    PROVE  /\ Later(g, ResizeLive(g, lines, columns))
           /\ Refitted(g.s, ResizeLive(g, lines, columns).s, lines, columns)
           /\ Stashed(g.s, ResizeLive(g, lines, columns).s)
<1> DEFINE s == g.s
           drop == DropCount(s, s.buf, lines, s.row)
           f == PushRows(g, s.buf, drop)
           B == RowsFrom(FitRowsWidth(s.buf, columns, DefaultCell(s)), drop, lines,
                         BlankLine(columns, DefaultCell(s)))
           R == IF lines < s.lines THEN ShiftedUp(s.row, drop) ELSE s.row
           t == [s EXCEPT !.buf = B, !.row = R]
<1>1. /\ s.lines \in Nat \ {0} /\ s.columns \in Nat /\ IsBuffer(s.buf, s.lines, s.columns)
      /\ s.row \in Nat /\ s.row < s.lines /\ HasFields(s)
  BY DEF ScreenOK, Afloat
<1>2. drop \in 0 .. s.lines /\ s.row - drop < lines
  BY <1>1, DropCountOK
<1>3. IsBuffer(B, lines, columns)
  <2>1. \A r \in DOMAIN s.buf : IsRow(s.buf[r])
    BY <1>1, BufferRows
  <2> QED
    BY <2>1, FittedOK, DefaultCellIs
<1>4. R \in 0 .. lines - 1
  BY <1>1, <1>2 DEF ShiftedUp, MaxOf
<1>5. Later(g, f) /\ f.s = s
  <2> HIDE DEF drop
  <2>1. \A i \in 0 .. drop - 1 : s.buf[i] \in Row
    <3> SUFFICES ASSUME NEW i \in 0 .. drop - 1 PROVE s.buf[i] \in Row
      OBVIOUS
    <3>1. i \in 0 .. s.lines - 1
      BY <1>1, <1>2
    <3>2. s.buf[i] \in [0 .. s.columns - 1 -> Cell]
      BY <1>1, <3>1 DEF IsBuffer
    <3> QED
      BY <1>1, <3>2 DEF Row
  <2>2. drop \in Nat
    BY <1>2
  <2> QED
    BY <2>1, <2>2, PushRowsOK
<1>6. ResizeLive(g, lines, columns) = [f EXCEPT !.s.buf = B, !.s.row = IF lines < s.lines THEN ShiftedUp(@, drop) ELSE @]
  BY DEF ResizeLive
<1> HIDE DEF drop, f, B
<1>7. "s" \in DOMAIN f /\ TopOK(f)
  BY <1>5 DEF Later, TopOK
<1>8. ResizeLive(g, lines, columns) = Lift(f, t)
  BY <1>1, <1>5, <1>6, <1>7 DEF Lift, HasFields
<1>9. Later(g, Lift(f, t)) /\ Lift(f, t).s = t
  <2> HIDE DEF t
  <2>1. Later(f, Lift(f, t)) /\ Lift(f, t).s = t
    BY <1>7, LiftOK
  <2> QED
    BY <1>5, <2>1, LaterTwice
<1> HIDE DEF R
<1>10. Refitted(s, t, lines, columns)
  <2>1. HasFields(t) /\ t.buf = B /\ t.row = R
    BY <1>1 DEF HasFields
  <2>2. /\ t.altActive = s.altActive /\ t.col = s.col /\ t.attr = s.attr /\ t.hidden = s.hidden
        /\ t.charset = s.charset /\ t.g0 = s.g0 /\ t.g1 = s.g1 /\ t.rightMargin = s.rightMargin
    BY <1>1 DEF HasFields
  <2>3. /\ t.savepoints = s.savepoints /\ t.altSavepoints = s.altSavepoints
        /\ t.savedColumns = s.savedColumns /\ t.tabStops = s.tabStops /\ t.lastDrawn = s.lastDrawn
        /\ t.panicked = s.panicked
    BY <1>1 DEF HasFields
  <2> HIDE DEF t
  <2> QED
    BY <1>3, <1>4, <2>1, <2>2, <2>3 DEF Refitted
<1>11. Stashed(s, t)
  BY <1>1 DEF HasFields, Stashed
<1> QED
  BY <1>8, <1>9, <1>10, <1>11

LEMMA ResizeInactiveBufferOK ==
    ASSUME NEW s, ScreenOK(s), NEW lines \in Nat \ {0}, NEW columns \in Nat \ {0},
           NEW g, TopOK(g), Refitted(s, g.s, lines, columns), Stashed(s, g.s)
    PROVE  /\ Later(g, ResizeInactiveBuffer(g, lines, columns))
           /\ Refitted(s, ResizeInactiveBuffer(g, lines, columns).s, lines, columns)
           /\ Restashed(ResizeInactiveBuffer(g, lines, columns).s, lines, columns)
<1> DEFINE u == g.s
           saved == IF u.altSavedCursor = NoCursor THEN 0 ELSE u.altSavedCursor.row
           drop == DropCount(u, u.altBuf, lines, saved)
           f == PushRows(g, u.altBuf, drop)
           B == RowsFrom(FitRowsWidth(u.altBuf, columns, DefaultCell(u)), drop, lines,
                         BlankLine(columns, DefaultCell(u)))
           C == CursorShiftedUp(u.altSavedCursor, drop)
           D == BlankBuffer(lines, columns)
           t == [u EXCEPT !.altBuf = B, !.altSavedCursor = C, !.altLineWrapped = {}, !.altWrapNext = FALSE]
           w == [u EXCEPT !.altBuf = D, !.altLineWrapped = {}, !.altWrapNext = FALSE]
           result == ResizeInactiveBuffer(g, lines, columns)
<1>1. /\ s.lines \in Nat \ {0} /\ s.columns \in Nat /\ s.altActive \in BOOLEAN
      /\ s.altBuf = NoBuffer \/ IsBuffer(s.altBuf, s.lines, s.columns)
      /\ s.altActive => s.altBuf # NoBuffer
      /\ s.altSavedCursor = NoCursor \/ s.altSavedCursor \in CursorSet
      /\ s.altWrapNext \in BOOLEAN
  BY DEF ScreenOK, Afloat
<1>2. /\ HasFields(u) /\ u.altActive = s.altActive /\ u.altBuf = s.altBuf
      /\ u.altSavedCursor = s.altSavedCursor /\ u.altWrapNext = s.altWrapNext
  BY DEF Refitted, Stashed
<1>3. IsBuffer(D, lines, columns) /\ D # NoBuffer
  <2>1. IsBuffer(D, lines, columns)
    BY BlankBufferOK
  <2> HIDE DEF D
  <2> QED
    BY <2>1 DEF IsBuffer, NoBuffer
<1>4. ASSUME NEW X
      PROVE  Refitted(s, [u EXCEPT !.altBuf = X, !.altLineWrapped = {}, !.altWrapNext = FALSE], lines, columns)
  <2> DEFINE v == [u EXCEPT !.altBuf = X, !.altLineWrapped = {}, !.altWrapNext = FALSE]
  <2>1. HasFields(v) /\ v.buf = u.buf /\ v.row = u.row
    BY <1>2 DEF HasFields
  <2>2. /\ v.altActive = u.altActive /\ v.col = u.col /\ v.attr = u.attr /\ v.hidden = u.hidden
        /\ v.charset = u.charset /\ v.g0 = u.g0 /\ v.g1 = u.g1 /\ v.rightMargin = u.rightMargin
    BY <1>2 DEF HasFields
  <2>3. /\ v.savepoints = u.savepoints /\ v.altSavepoints = u.altSavepoints
        /\ v.savedColumns = u.savedColumns /\ v.tabStops = u.tabStops /\ v.lastDrawn = u.lastDrawn
        /\ v.panicked = u.panicked
    BY <1>2 DEF HasFields
  <2> HIDE DEF v
  <2>4. Refitted(s, v, lines, columns)
    BY <2>1, <2>2, <2>3 DEF Refitted
  <2> QED
    BY <2>4 DEF v
<1>8. ASSUME NEW X, NEW Y
      PROVE  Refitted(s, [u EXCEPT !.altBuf = X, !.altSavedCursor = Y, !.altLineWrapped = {}, !.altWrapNext = FALSE], lines, columns)
  <2> DEFINE v == [u EXCEPT !.altBuf = X, !.altSavedCursor = Y, !.altLineWrapped = {}, !.altWrapNext = FALSE]
  <2>1. HasFields(v) /\ v.buf = u.buf /\ v.row = u.row
    BY <1>2 DEF HasFields
  <2>2. /\ v.altActive = u.altActive /\ v.col = u.col /\ v.attr = u.attr /\ v.hidden = u.hidden
        /\ v.charset = u.charset /\ v.g0 = u.g0 /\ v.g1 = u.g1 /\ v.rightMargin = u.rightMargin
    BY <1>2 DEF HasFields
  <2>3. /\ v.savepoints = u.savepoints /\ v.altSavepoints = u.altSavepoints
        /\ v.savedColumns = u.savedColumns /\ v.tabStops = u.tabStops /\ v.lastDrawn = u.lastDrawn
        /\ v.panicked = u.panicked
    BY <1>2 DEF HasFields
  <2> HIDE DEF v
  <2>4. Refitted(s, v, lines, columns)
    BY <2>1, <2>2, <2>3 DEF Refitted
  <2> QED
    BY <2>4 DEF v
<1>5. CASE ~u.altActive /\ u.altBuf = NoBuffer
  <2>1. result = g
    BY <1>5 DEF ResizeInactiveBuffer
  <2>2. Restashed(u, lines, columns)
    BY <1>1, <1>2, <1>5 DEF Restashed
  <2> QED
    BY <2>1, <2>2, LaterSelf
<1>6. CASE ~u.altActive /\ u.altBuf # NoBuffer
  <2>1. result = [g EXCEPT !.s.altBuf = D, !.s.altLineWrapped = {}, !.s.altWrapNext = FALSE]
    BY <1>6 DEF ResizeInactiveBuffer
  <2>2. "s" \in DOMAIN g
    BY DEF TopOK
  <2> HIDE DEF D
  <2>3. result = Lift(g, w)
    BY <1>2, <2>1, <2>2 DEF Lift, HasFields
  <2>4. Refitted(s, w, lines, columns)
    BY <1>4, Zenon
  <2>5. w.altBuf = D /\ w.altActive = u.altActive /\ w.altSavedCursor = u.altSavedCursor /\ w.altWrapNext = FALSE
    BY <1>2 DEF HasFields
  <2> HIDE DEF w, result
  <2>6. Restashed(w, lines, columns)
    BY <1>1, <1>2, <1>3, <2>5 DEF Restashed
  <2>7. Later(g, Lift(g, w)) /\ Lift(g, w).s = w
    BY LiftOK
  <2> QED
    BY <2>3, <2>4, <2>6, <2>7 DEF result
<1>7. CASE u.altActive
  <2>1. IsBuffer(u.altBuf, s.lines, s.columns) /\ saved \in Nat
    BY <1>1, <1>2, <1>7 DEF CursorSet
  <2> HIDE DEF saved
  <2>2. drop \in 0 .. s.lines
    BY <1>1, <2>1, DropCountOK
  <2>3. IsBuffer(B, lines, columns) /\ B # NoBuffer
    <3>1. \A r \in DOMAIN u.altBuf : IsRow(u.altBuf[r])
      BY <1>1, <2>1, BufferRows
    <3>2. IsBuffer(B, lines, columns)
      BY <3>1, FittedOK, DefaultCellIs
    <3> HIDE DEF B
    <3> QED
      BY <3>2 DEF IsBuffer, NoBuffer
  <2>4. result = [f EXCEPT !.s.altBuf = B, !.s.altSavedCursor = CursorShiftedUp(@, drop),
                           !.s.altLineWrapped = {}, !.s.altWrapNext = FALSE]
    BY <1>7 DEF ResizeInactiveBuffer, saved
  <2> HIDE DEF drop
  <2>5. Later(g, f) /\ f.s = u
    <3>1. \A i \in 0 .. drop - 1 : u.altBuf[i] \in Row
      <4> SUFFICES ASSUME NEW i \in 0 .. drop - 1 PROVE u.altBuf[i] \in Row
        OBVIOUS
      <4>1. i \in 0 .. s.lines - 1
        BY <1>1, <2>2
      <4>2. u.altBuf[i] \in [0 .. s.columns - 1 -> Cell]
        BY <2>1, <4>1 DEF IsBuffer
      <4> QED
        BY <1>1, <4>2 DEF Row
    <3>2. drop \in Nat
      BY <2>2
    <3> QED
      BY <3>1, <3>2, PushRowsOK
  <2> HIDE DEF f, B
  <2>6. "s" \in DOMAIN f /\ TopOK(f)
    BY <2>5 DEF Later, TopOK
  <2>7. result = Lift(f, t)
    <3>1. f.s.altSavedCursor = u.altSavedCursor
      BY <2>5
    <3>2. result = [f EXCEPT !.s.altBuf = B, !.s.altSavedCursor = C, !.s.altLineWrapped = {}, !.s.altWrapNext = FALSE]
      <4> DEFINE c == u.altSavedCursor
      <4> HIDE DEF C
      <4>1. C = CursorShiftedUp(c, drop)
        BY DEF C
      <4> HIDE DEF c
      <4> QED
        BY <1>2, <2>4, <2>5, <2>6, <3>1, <4>1 DEF HasFields, c
    <3> HIDE DEF C
    <3> QED
      BY <1>2, <2>5, <2>6, <3>2 DEF Lift, HasFields
  <2>8. C = NoCursor \/ C \in CursorSet
    <3>1. u.altSavedCursor \in CursorSet => [u.altSavedCursor EXCEPT !.row = ShiftedUp(@, drop)] \in CursorSet
      <4>1. \A r \in Nat : ShiftedUp(r, drop) \in Nat
        BY <2>2 DEF ShiftedUp, MaxOf
      <4> QED
        BY <4>1 DEF CursorSet
    <3> QED
      BY <1>1, <1>2, <3>1 DEF CursorShiftedUp
  <2> HIDE DEF C
  <2>9. Refitted(s, t, lines, columns)
    BY <1>8, Zenon
  <2>10. t.altBuf = B /\ t.altActive = u.altActive /\ t.altSavedCursor = C /\ t.altWrapNext = FALSE
    BY <1>2 DEF HasFields
  <2> HIDE DEF t, result
  <2>11. Restashed(t, lines, columns)
    BY <2>3, <2>8, <2>10 DEF Restashed
  <2>12. Later(f, Lift(f, t)) /\ Lift(f, t).s = t
    BY <2>6, LiftOK
  <2>13. Later(g, Lift(f, t))
    BY <2>5, <2>12, LaterTwice
  <2> QED
    BY <2>7, <2>9, <2>11, <2>12, <2>13 DEF result
<1> QED
  BY <1>5, <1>6, <1>7

LEMMA HResizeOK ==
    ASSUME NEW g, HistoryOK(g), ~g.s.panicked, NEW lines \in Nat \ {0}, NEW columns \in Nat \ {0}
    PROVE  HistoryOK(HResize(g, lines, columns)) /\ Later(g, HResize(g, lines, columns))
<1> DEFINE e == ResizeLive(g, lines, columns)
           f == ResizeInactiveBuffer(e, lines, columns)
           u == f.s
           t == [u EXCEPT !.lines = lines, !.columns = columns, !.margins = NoMargins, !.leftMargin = 0,
                          !.col = MinOf(@, columns - 1), !.lineWrapped = {}, !.wrapNext = FALSE]
<1>1. TopOK(g) /\ ScreenOK(g.s)
  BY DEF HistoryOK, Fine
<1>2. HResize(g, lines, columns) = g \/ HResize(g, lines, columns) = Lift(f, t)
  <2>1. AtLeast1(lines) = lines /\ AtLeast1(columns) = columns
    BY DEF AtLeast1
  <2> QED
    BY <2>1 DEF HResize
<1>3. Later(g, e) /\ Refitted(g.s, e.s, lines, columns) /\ Stashed(g.s, e.s)
  BY <1>1, ResizeLiveOK
<1> HIDE DEF e
<1>4. Later(e, f) /\ Refitted(g.s, u, lines, columns) /\ Restashed(u, lines, columns)
  BY <1>1, <1>3, ResizeInactiveBufferOK DEF Later
<1> HIDE DEF f
<1>5. TopOK(f) /\ Later(g, f)
  BY <1>1, <1>3, <1>4, LaterTwice DEF Later
<1> HIDE DEF u
<1>6. HasFields(u)
  BY <1>4 DEF Refitted
<1>7. /\ HasFields(t) /\ t.lines = lines /\ t.columns = columns /\ t.margins = NoMargins /\ t.leftMargin = 0
      /\ t.wrapNext = FALSE /\ t.col = MinOf(u.col, columns - 1)
  BY <1>6 DEF HasFields
<1>8. /\ t.buf = u.buf /\ t.row = u.row /\ t.altBuf = u.altBuf /\ t.altActive = u.altActive
      /\ t.altSavedCursor = u.altSavedCursor /\ t.altWrapNext = u.altWrapNext /\ t.rightMargin = u.rightMargin
  BY <1>6 DEF HasFields
<1>9. /\ t.attr = u.attr /\ t.hidden = u.hidden /\ t.charset = u.charset /\ t.g0 = u.g0 /\ t.g1 = u.g1
  BY <1>6 DEF HasFields
<1>10. /\ t.savepoints = u.savepoints /\ t.altSavepoints = u.altSavepoints /\ t.savedColumns = u.savedColumns
       /\ t.tabStops = u.tabStops /\ t.lastDrawn = u.lastDrawn /\ t.panicked = u.panicked
  BY <1>6 DEF HasFields
<1> HIDE DEF t
<1>11. ScreenOK(t) /\ ~t.panicked
  <2>1. /\ t.lines \in Nat \ {0} /\ t.columns \in Nat \ {0} /\ IsBuffer(t.buf, t.lines, t.columns)
        /\ t.row \in Nat /\ t.row < t.lines
    BY <1>4, <1>7, <1>8 DEF Refitted
  <2>2. /\ t.altBuf = NoBuffer \/ IsBuffer(t.altBuf, t.lines, t.columns)
        /\ t.altActive => t.altBuf # NoBuffer
        /\ t.altSavedCursor = NoCursor \/ t.altSavedCursor \in CursorSet
        /\ t.altWrapNext \in BOOLEAN
    BY <1>4, <1>7, <1>8 DEF Restashed
  <2>3. t.col \in Nat
    <3>1. u.col \in Nat
      BY <1>1, <1>4 DEF Refitted, ScreenOK, Afloat
    <3> QED
      BY <1>7, <3>1 DEF MinOf
  <2>4. /\ t.leftMargin \in 0 .. t.columns - 1 /\ t.rightMargin \in Nat /\ t.leftMargin <= t.rightMargin
    <3>1. u.rightMargin \in Nat
      BY <1>1, <1>4 DEF Refitted, ScreenOK, Afloat
    <3> QED
      BY <1>7, <1>8, <3>1
  <2>5. /\ t.altActive \in BOOLEAN /\ t.attr \in SUBSET Flags /\ t.hidden \in BOOLEAN /\ t.wrapNext \in BOOLEAN
        /\ t.charset \in {0, 1} /\ t.g0 \in {"lat1", "vt100"} /\ t.g1 \in {"lat1", "vt100"}
    BY <1>1, <1>4, <1>7, <1>8, <1>9 DEF Refitted, ScreenOK, Afloat
  <2>6. /\ t.savepoints \in Seq(SavedSet) /\ t.altSavepoints \in Seq(SavedSet) /\ t.savedColumns \in Nat
        /\ t.tabStops \subseteq Nat \union {-1} /\ t.lastDrawn \in Seq(Runes) /\ t.panicked = g.s.panicked
    BY <1>1, <1>4, <1>10 DEF Refitted, ScreenOK, Afloat
  <2>7. MarginsFit(t.margins, t.lines)
    BY <1>7 DEF MarginsFit
  <2> QED
    BY <1>7, <2>1, <2>2, <2>3, <2>4, <2>5, <2>6, <2>7 DEF ScreenOK, Afloat
<1>12. Later(f, Lift(f, t)) /\ Lift(f, t).s = t
  BY <1>5, LiftOK
<1>13. Later(g, Lift(f, t))
  BY <1>1, <1>5, <1>12, LaterTwice
<1>14. Fine(t)
  BY <1>11 DEF Fine
<1> QED
  BY <1>1, <1>2, <1>12, <1>13, <1>14, LaterSelf DEF HistoryOK, Later

-----------------------------------------------------------------------------
(* A live upgrade. *)

(* Some first cells of a row are kept, what is trimmed comes back blank.   *)
LEMMA RepaddedIs ==
    ASSUME NEW s, s.columns \in Nat, NEW n \in Nat, NEW row \in [0 .. n - 1 -> Cell]
    PROVE  \E k \in 0 .. n :
              /\ Repadded(s, row) = [c \in 0 .. MaxOf(k, s.columns) - 1 |->
                                        IF c < k THEN row[c] ELSE DefaultCell(s)]
              /\ \A c \in k .. n - 1 : Trimmable(row[c])
<1> DEFINE last == {c \in DOMAIN row : ~Trimmable(row[c])}
           top == CHOOSE c \in last : \A d \in last : d <= c
           k == IF last = {} THEN 0 ELSE top + 1
<1>1. Repadded(s, row) = [c \in 0 .. MaxOf(k, s.columns) - 1 |-> IF c < k THEN row[c] ELSE DefaultCell(s)]
  BY DEF Repadded
<1>2. last \in SUBSET (0 .. n - 1) /\ \A c \in 0 .. n - 1 : c \notin last => Trimmable(row[c])
  OBVIOUS
<1> HIDE DEF last
<1>3. last # {} => top \in last /\ \A d \in last : d <= top
  <2> SUFFICES ASSUME last # {} PROVE \E c \in last : \A d \in last : d <= c
    OBVIOUS
  <2>1. last \in SUBSET (0 .. n)
    BY <1>2
  <2> QED
    BY <2>1, GreatestOf
<1> HIDE DEF top
<1>4. k \in 0 .. n /\ \A c \in last : c < k
  <2>1. CASE last = {}
    BY <2>1
  <2>2. CASE last # {}
    <3>1. top \in 0 .. n - 1 /\ k = top + 1
      BY <1>2, <1>3, <2>2
    <3>2. \A c \in last : c \in 0 .. n - 1 /\ c <= top
      BY <1>2, <1>3, <2>2
    <3> HIDE DEF k
    <3> QED
      BY <3>1, <3>2
  <2> QED
    BY <2>1, <2>2
<1> HIDE DEF k
<1>5. ASSUME NEW c \in k .. n - 1 PROVE Trimmable(row[c])
  <2>1. c \in 0 .. n - 1
    BY <1>4
  <2>2. c \notin last
    BY <1>4
  <2> QED
    BY <1>2, <2>1, <2>2
<1> QED
  BY <1>1, <1>4, <1>5

LEMMA RepaddedRow ==
    ASSUME NEW s, s.columns \in Nat, NEW n \in Nat, NEW row \in [0 .. n - 1 -> Cell]
    PROVE  /\ Repadded(s, row) \in Row
           /\ n = s.columns => Repadded(s, row) \in [0 .. s.columns - 1 -> Cell]
<1>1. PICK k \in 0 .. n : Repadded(s, row) = [c \in 0 .. MaxOf(k, s.columns) - 1 |->
                                                 IF c < k THEN row[c] ELSE DefaultCell(s)]
  BY RepaddedIs
<1> DEFINE m == MaxOf(k, s.columns)
<1>2. m \in Nat /\ (n = s.columns => m = s.columns)
  BY DEF MaxOf
<1>3. \A c \in 0 .. m - 1 : (IF c < k THEN row[c] ELSE DefaultCell(s)) \in Cell
  <2> SUFFICES ASSUME NEW c \in 0 .. m - 1 PROVE (IF c < k THEN row[c] ELSE DefaultCell(s)) \in Cell
    OBVIOUS
  <2>1. c < k => row[c] \in Cell
    BY <1>2
  <2>2. DefaultCell(s) \in Cell
    BY DefaultCellIs
  <2> QED
    BY <2>1, <2>2
<1> HIDE DEF m
<1>4. Repadded(s, row) \in [0 .. m - 1 -> Cell]
  BY <1>1, <1>3 DEF m
<1> QED
  BY <1>2, <1>4 DEF Row

LEMMA RepaddedBufferOK ==
    ASSUME NEW s, s.columns \in Nat, NEW lines \in Nat, NEW b, IsBuffer(b, lines, s.columns)
    PROVE  IsBuffer(RepaddedBuffer(s, b), lines, s.columns)
<1>1. DOMAIN b = 0 .. lines - 1 /\ \A r \in 0 .. lines - 1 : b[r] \in [0 .. s.columns - 1 -> Cell]
  BY DEF IsBuffer
<1>2. \A r \in 0 .. lines - 1 : Repadded(s, b[r]) \in [0 .. s.columns - 1 -> Cell]
  BY <1>1, RepaddedRow
<1> QED
  BY <1>1, <1>2 DEF RepaddedBuffer, IsBuffer

LEMMA RepaddedNothing == ASSUME NEW s PROVE RepaddedBuffer(s, NoBuffer) = NoBuffer
<1>1. RepaddedBuffer(s, NoBuffer) \in Seq({})
  BY DEF RepaddedBuffer, NoBuffer
<1>2. Len(RepaddedBuffer(s, NoBuffer)) = 0
  BY DEF RepaddedBuffer, NoBuffer
<1> QED
  BY <1>1, <1>2 DEF NoBuffer

LEMMA UpgradedScreenOK ==
    ASSUME NEW s, ScreenOK(s) PROVE Calm(s, UpgradedScreen(s))
<1> DEFINE B == RepaddedBuffer(s, s.buf)
           A == RepaddedBuffer(s, s.altBuf)
           stops == ThroughJSON(s.tabStops)
           L == ThroughJSON(s.lineWrapped)
           M == ThroughJSON(s.altLineWrapped)
           t == [s EXCEPT !.buf = B, !.altBuf = A, !.lineWrapped = L, !.altLineWrapped = M,
                          !.tabStops = stops, !.reply = <<>>]
<1>1. UpgradedScreen(s) = [s EXCEPT !.buf = RepaddedBuffer(s, @), !.altBuf = RepaddedBuffer(s, @),
              !.lineWrapped = ThroughJSON(@), !.altLineWrapped = ThroughJSON(@),
              !.tabStops = ThroughJSON(@), !.reply = <<>>]
  BY DEF UpgradedScreen
<1>2. UpgradedScreen(s) = t
  BY <1>1
<1>3. s.lines \in Nat \ {0} /\ s.columns \in Nat \ {0} /\ HasFields(s)
  BY DEF ScreenOK, Afloat
<1>4. IsBuffer(B, s.lines, s.columns)
  BY <1>3, RepaddedBufferOK DEF ScreenOK, Afloat
<1>5. /\ A = NoBuffer \/ IsBuffer(A, s.lines, s.columns)
      /\ s.altBuf # NoBuffer => A # NoBuffer
  <2>1. CASE s.altBuf = NoBuffer
    BY <2>1, RepaddedNothing
  <2>2. CASE s.altBuf # NoBuffer
    <3>1. IsBuffer(s.altBuf, s.lines, s.columns)
      BY <2>2 DEF ScreenOK, Afloat
    <3>2. IsBuffer(A, s.lines, s.columns)
      BY <1>3, <3>1, RepaddedBufferOK
    <3> HIDE DEF A
    <3>3. A # NoBuffer
      BY <1>3, <3>2 DEF IsBuffer, NoBuffer
    <3> QED
      BY <3>2, <3>3
  <2> QED
    BY <2>1, <2>2
<1>6. stops \subseteq Nat \union {-1}
  BY DEF ScreenOK, Afloat, ThroughJSON, NilMap
<1> HIDE DEF B, A, stops, L, M
<1>7. /\ HasFields(t) /\ t.buf = B /\ t.altBuf = A /\ t.tabStops = stops
      /\ t.lines = s.lines /\ t.columns = s.columns /\ t.row = s.row /\ t.col = s.col
  BY <1>3 DEF HasFields
<1>8. /\ t.altSavepoints = s.altSavepoints /\ t.altWrapNext = s.altWrapNext /\ t.altActive = s.altActive
      /\ t.altSavedCursor = s.altSavedCursor /\ t.margins = s.margins /\ t.leftMargin = s.leftMargin
  BY <1>3 DEF HasFields
<1>9. /\ t.rightMargin = s.rightMargin /\ t.wrapNext = s.wrapNext /\ t.panicked = s.panicked
      /\ t.attr = s.attr /\ t.hidden = s.hidden /\ t.charset = s.charset
  BY <1>3 DEF HasFields
<1>10. /\ t.g0 = s.g0 /\ t.g1 = s.g1 /\ t.savepoints = s.savepoints
       /\ t.savedColumns = s.savedColumns /\ t.lastDrawn = s.lastDrawn
  BY <1>3 DEF HasFields
<1> HIDE DEF t
<1>11. ScreenOK(t)
  BY <1>3, <1>4, <1>5, <1>6, <1>7, <1>8, <1>9, <1>10 DEF ScreenOK, Afloat
<1> QED
  BY <1>2, <1>9, <1>11 DEF Calm

LEMMA UpgradedOK ==
    ASSUME NEW g, HistoryOK(g), ~g.s.panicked
    PROVE  /\ HistoryOK(Upgraded(g)) /\ Upgraded(g).s = UpgradedScreen(g.s)
           /\ Upgraded(g).firstSeq = g.firstSeq /\ Upgraded(g).totalAdded = g.totalAdded
           /\ \A i \in 1 .. Len(g.top) : Upgraded(g).top[i] = Repadded(g.s, g.top[i])
<1> DEFINE f == Upgraded(g)
           top == [i \in DOMAIN g.top |-> Repadded(g.s, g.top[i])]
<1>1. TopOK(g) /\ ScreenOK(g.s) /\ g.s.columns \in Nat
  BY DEF HistoryOK, Fine, ScreenOK, Afloat
<1>2. /\ g.top \in Seq(Row) /\ g.max \in Nat \ {0} /\ Len(g.top) <= g.max /\ g.firstSeq \in Nat
      /\ g.totalAdded = g.firstSeq + Len(g.top) /\ Len(g.top) \in Nat
      /\ {"s", "top", "max", "firstSeq", "totalAdded"} \subseteq DOMAIN g
  BY <1>1 DEF TopOK
<1>3. \A row \in Row : Repadded(g.s, row) \in Row
  <2> SUFFICES ASSUME NEW row \in Row PROVE Repadded(g.s, row) \in Row
    OBVIOUS
  <2>1. PICK n \in Nat : row \in [0 .. n - 1 -> Cell]
    BY DEF Row
  <2> QED
    BY <1>1, <2>1, RepaddedRow
<1>4. top \in Seq(Row) /\ Len(top) = Len(g.top) /\ \A i \in 1 .. Len(g.top) : top[i] = Repadded(g.s, g.top[i])
  BY <1>2, <1>3
<1> HIDE DEF top
<1>5. f = [g EXCEPT !.s = UpgradedScreen(@), !.top = top,
                    !.firstSeq = IF @ = 0 /\ g.totalAdded > Len(g.top) THEN g.totalAdded - Len(g.top) ELSE @]
  BY <1>2 DEF Upgraded, top
<1> HIDE DEF f
<1>6. /\ f.s = UpgradedScreen(g.s) /\ f.top = top /\ f.max = g.max /\ f.totalAdded = g.totalAdded
      /\ f.firstSeq = g.firstSeq /\ {"s", "top", "max", "firstSeq", "totalAdded"} \subseteq DOMAIN f
  <2>1. (IF g.firstSeq = 0 /\ g.totalAdded > Len(g.top) THEN g.totalAdded - Len(g.top) ELSE g.firstSeq) = g.firstSeq
    BY <1>2
  <2> QED
    BY <1>2, <1>5, <2>1
<1>7. TopOK(f)
  BY <1>2, <1>4, <1>6 DEF TopOK
<1>8. Fine(f.s)
  BY <1>1, <1>6, UpgradedScreenOK DEF Calm, Fine
<1> QED
  BY <1>4, <1>6, <1>7, <1>8 DEF HistoryOK, f

-----------------------------------------------------------------------------
(* The text of a row, column by column. *)

SeenStep(line, acc, c) ==
    IF c < acc.next \/ line[c].d = Cont THEN acc
    ELSE [text |-> acc.text \o line[c].d, next |-> c + MaxOf(1, Width(line[c].d))]
SeenLaws == INSTANCE FoldLaws WITH Op <- SeenStep
NoText == [text |-> <<>>, next |-> 0]
FirstColumns(n) == [i \in 1 .. n |-> i - 1]
Seen(line, n) == SeenLaws!Fold(line, NoText, FirstColumns(n))
SeenText == [text : Seq(Runes), next : Nat]

LinesStep(p, text, ch) == IF ch \in {" ", "#"} THEN text ELSE Append(text, ch)
LinesLaws == INSTANCE FoldLaws WITH Op <- LinesStep
LEMMA TextInduction == SeenLaws!Induction /\ LinesLaws!Induction
  BY NaturalInduction DEF SeenLaws!Induction, LinesLaws!Induction
LinesOf(text) == LinesLaws!Fold(0, <<>>, text)

LEMMA RowTextIs ==
    ASSUME NEW n \in Nat, NEW row \in [0 .. n - 1 -> Cell]
    PROVE  RowText(row) = LinesOf(Seen(row, n).text)
<1>1. DOMAIN row = 0 .. n - 1 /\ Cardinality(0 .. n - 1) = n
  BY FS_Interval
<1> DEFINE q == FirstColumns(n)
<1>2. [i \in 1 .. Cardinality(DOMAIN row) |-> i - 1] = q
  BY <1>1 DEF FirstColumns
<1>3. VisibleFrom(row) = FoldLeft(LAMBDA acc, c : SeenStep(row, acc, c), NoText,
                                  [i \in 1 .. Cardinality(DOMAIN row) |-> i - 1]).text
  BY Zenon DEF VisibleFrom, SeenStep, NoText
<1> HIDE DEF q
<1>4. VisibleFrom(row) = FoldLeft(LAMBDA acc, c : SeenStep(row, acc, c), NoText, q).text
  BY <1>2, <1>3, Zenon
<1>5. FoldLeft(LAMBDA acc, c : SeenStep(row, acc, c), NoText, q) = SeenLaws!Fold(row, NoText, q)
  BY DEF FoldLeft, MapThenFoldSet, Max, SeenLaws!Fold, SeenLaws!Greatest
<1> DEFINE v == VisibleFrom(row)
<1>6. v = Seen(row, n).text
  BY <1>4, <1>5, Zenon DEF Seen, q
<1> HIDE DEF v
<1>7. FoldLeft(LAMBDA text, ch : IF ch \in {" ", "#"} THEN text ELSE Append(text, ch), <<>>, v) = LinesOf(v)
  BY DEF FoldLeft, MapThenFoldSet, Max, LinesLaws!Fold, LinesLaws!Greatest, LinesStep, LinesOf
<1> QED
  BY <1>6, <1>7, Zenon DEF RowText, v

LEMMA ColumnsAre ==
    ASSUME NEW j \in Nat
    PROVE  /\ FirstColumns(j) \in Seq(0 .. j) /\ FirstColumns(j + 1) = Append(FirstColumns(j), j)
           /\ Len(FirstColumns(j)) = j /\ FirstColumns(0) = <<>>
<1>1. FirstColumns(j) \in Seq(0 .. j) /\ Len(FirstColumns(j)) = j
  BY DEF FirstColumns
<1>2. FirstColumns(j + 1) = Append(FirstColumns(j), j)
  BY DEF FirstColumns
<1>3. FirstColumns(0) = <<>>
  <2>1. FirstColumns(0) \in Seq(0 .. 0) /\ Len(FirstColumns(0)) = 0
    BY DEF FirstColumns
  <2> QED
    BY <2>1
<1> QED
  BY <1>1, <1>2, <1>3

LEMMA SeenNext ==
    ASSUME NEW j \in Nat, NEW row
    PROVE  Seen(row, 0) = NoText /\ Seen(row, j + 1) = SeenStep(row, Seen(row, j), j)
<1> DEFINE q == FirstColumns(j)
           e == FirstColumns(0)
<1>1. q \in Seq(0 .. j) /\ FirstColumns(j + 1) = Append(q, j) /\ e = <<>>
  BY ColumnsAre
<1>2. j \in 0 .. j
  OBVIOUS
<1> HIDE DEF q, e
<1>3. SeenLaws!Fold(row, NoText, Append(q, j)) = SeenStep(row, SeenLaws!Fold(row, NoText, q), j)
  BY <1>1, <1>2, TextInduction, SeenLaws!FoldAppend
<1>4. SeenLaws!Fold(row, NoText, e) = NoText
  BY <1>1, TextInduction, SeenLaws!FoldEmpty
<1> QED
  BY <1>1, <1>3, <1>4 DEF Seen, q, e

LEMMA SeenIs ==
    ASSUME NEW n \in Nat, NEW row \in [0 .. n - 1 -> Cell], NEW m \in 0 .. n PROVE Seen(row, m) \in SeenText
<1> DEFINE S == {k \in Nat : k <= n => Seen(row, k) \in SeenText}
<1>1. 0 \in S
  <2>1. NoText \in SeenText
    <3>1. <<>> \in Seq(Runes)
      OBVIOUS
    <3> QED
      BY <3>1 DEF NoText, SeenText
  <2> QED
    BY <2>1, SeenNext
<1>2. ASSUME NEW k \in Nat, k \in S PROVE k + 1 \in S
  <2> SUFFICES ASSUME k + 1 <= n PROVE Seen(row, k + 1) \in SeenText
    OBVIOUS
  <2> DEFINE a == Seen(row, k)
             x == row[k].d
             w == Width(x)
  <2>1. a \in SeenText
    BY <1>2
  <2>2. x \in Seq(Runes)
    <3>1. row[k] \in Cell
      OBVIOUS
    <3> QED
      BY <3>1 DEF Cell
  <2>3. w \in {0, 1, 2}
    BY WidthIs
  <2>4. Seen(row, k + 1) = SeenStep(row, a, k)
    BY SeenNext
  <2> HIDE DEF a, w
  <2>5. MaxOf(1, w) \in Nat
    BY <2>3 DEF MaxOf
  <2>6. a.text \o x \in Seq(Runes)
    <3> HIDE DEF x
    <3> QED
      BY <2>1, <2>2 DEF SeenText
  <2>7. SeenStep(row, a, k) = a \/ SeenStep(row, a, k) = [text |-> a.text \o x, next |-> k + MaxOf(1, w)]
    BY DEF SeenStep, w
  <2>8. k + MaxOf(1, w) \in Nat
    BY <2>5
  <2> DEFINE y == a.text \o x
             z == k + MaxOf(1, w)
  <2>9. [text |-> y, next |-> z] \in SeenText
    <3> HIDE DEF y, z
    <3>1. y \in Seq(Runes) /\ z \in Nat
      BY <2>6, <2>8 DEF y, z
    <3> QED
      BY <3>1 DEF SeenText
  <2> HIDE DEF x
  <2> QED
    BY <2>1, <2>4, <2>7, <2>9
<1>3. Nat \subseteq S
  <2> HIDE DEF S
  <2> QED
    BY <1>1, <1>2, TextInduction, SeenLaws!SetInduction
<1> QED
  BY <1>3

LEMMA SeenSame ==
    ASSUME NEW k \in Nat, NEW r, NEW t, \A c \in 0 .. k - 1 : r[c] = t[c] PROVE Seen(r, k) = Seen(t, k)
<1> DEFINE S == {j \in Nat : j <= k => Seen(r, j) = Seen(t, j)}
<1>1. 0 \in S
  BY SeenNext
<1>2. ASSUME NEW j \in Nat, j \in S PROVE j + 1 \in S
  <2> SUFFICES ASSUME j + 1 <= k PROVE Seen(r, j + 1) = Seen(t, j + 1)
    OBVIOUS
  <2>1. Seen(r, j) = Seen(t, j) /\ r[j] = t[j]
    BY <1>2
  <2>2. Seen(r, j + 1) = SeenStep(r, Seen(r, j), j) /\ Seen(t, j + 1) = SeenStep(t, Seen(t, j), j)
    BY SeenNext
  <2> QED
    BY <2>1, <2>2 DEF SeenStep
<1>3. Nat \subseteq S
  <2> HIDE DEF S
  <2> QED
    BY <1>1, <1>2, TextInduction, SeenLaws!SetInduction
<1> QED
  BY <1>3

(* Blanks and continuations add nothing to what the shell is found to have printed. *)
LEMMA SeenQuiet ==
    ASSUME NEW n \in Nat, NEW row \in [0 .. n - 1 -> Cell], NEW k \in 0 .. n,
           \A c \in k .. n - 1 : row[c].d \in {Cont, Blank}
    PROVE  LinesOf(Seen(row, n).text) = LinesOf(Seen(row, k).text)
<1> DEFINE S == {i \in Nat : k + i <= n => LinesOf(Seen(row, k + i).text) = LinesOf(Seen(row, k).text)}
<1>1. 0 \in S
  OBVIOUS
<1>2. ASSUME NEW i \in Nat, i \in S PROVE i + 1 \in S
  <2> SUFFICES ASSUME k + (i + 1) <= n PROVE LinesOf(Seen(row, k + (i + 1)).text) = LinesOf(Seen(row, k).text)
    OBVIOUS
  <2> DEFINE j == k + i
             a == Seen(row, j)
             u == a.text
  <2>1. j \in k .. n - 1 /\ j \in 0 .. n /\ j \in Nat /\ k + (i + 1) = j + 1
    OBVIOUS
  <2>2. LinesOf(u) = LinesOf(Seen(row, k).text)
    BY <1>2, <2>1
  <2> HIDE DEF j
  <2>3. a \in SeenText
    BY <2>1, SeenIs
  <2>4. Seen(row, j + 1) = SeenStep(row, a, j)
    BY <2>1, SeenNext
  <2>5. row[j].d = Cont \/ row[j].d = Blank
    BY <2>1
  <2> HIDE DEF a
  <2>6. u \in Seq(Runes)
    BY <2>3 DEF SeenText
  <2>7. SeenStep(row, a, j).text = u \/ SeenStep(row, a, j).text = u \o Blank
    BY <2>5 DEF SeenStep
  <2> HIDE DEF u
  <2>8. LinesOf(u \o Blank) = LinesOf(u)
    <3>1. " " \in Runes
      BY DEF Runes
    <3>2. u \o Blank = Append(u, " ")
      <4>1. Append(u, " ") = u \o <<" ">>
        BY <2>6, <3>1, AppendIsConcat, Zenon
      <4> QED
        BY <4>1, Zenon DEF Blank
    <3> DEFINE b == <<>>
               ch == " "
    <3>3. ch \in Runes
      BY <3>1, Zenon
    <3>4. \A x : LinesStep(0, x, ch) = x
      BY DEF LinesStep
    <3> HIDE DEF b, ch
    <3>5. LinesLaws!Fold(0, b, Append(u, ch)) = LinesStep(0, LinesLaws!Fold(0, b, u), ch)
      BY <2>6, <3>3, TextInduction, LinesLaws!FoldAppend
    <3>6. LinesLaws!Fold(0, b, Append(u, ch)) = LinesLaws!Fold(0, b, u)
      BY <3>4, <3>5
    <3> QED
      BY <3>2, <3>6, Zenon DEF LinesOf, b, ch
  <2> QED
    BY <2>1, <2>2, <2>4, <2>7, <2>8
<1>3. Nat \subseteq S
  <2> HIDE DEF S
  <2> QED
    BY <1>1, <1>2, TextInduction, SeenLaws!SetInduction
<1> DEFINE i == n - k
<1>4. i \in Nat /\ k + i = n /\ k + i <= n
  OBVIOUS
<1>5. i \in S
  <2> HIDE DEF S, i
  <2> QED
    BY <1>3, <1>4
<1>6. LinesOf(Seen(row, k + i).text) = LinesOf(Seen(row, k).text)
  <2> HIDE DEF i
  <2> QED
    BY <1>4, <1>5
<1> HIDE DEF i
<1> QED
  BY <1>4, <1>6

(* Trimming a row and padding it again keeps its text. *)
LEMMA RepaddedText ==
    ASSUME NEW s, s.columns \in Nat, NEW row \in Row PROVE RowText(Repadded(s, row)) = RowText(row)
<1>1. PICK n \in Nat : row \in [0 .. n - 1 -> Cell]
  BY DEF Row
<1>2. PICK k \in 0 .. n :
         /\ Repadded(s, row) = [c \in 0 .. MaxOf(k, s.columns) - 1 |->
                                   IF c < k THEN row[c] ELSE DefaultCell(s)]
         /\ \A c \in k .. n - 1 : Trimmable(row[c])
  BY <1>1, RepaddedIs
<1> DEFINE m == MaxOf(k, s.columns)
           t == Repadded(s, row)
<1>3. m \in Nat /\ k \in 0 .. m
  BY DEF MaxOf
<1> HIDE DEF m
<1>4. \A c \in 0 .. m - 1 : (c < k => t[c] = row[c]) /\ (c >= k => t[c] = DefaultCell(s))
  BY <1>2, <1>3 DEF m
<1>5. t \in [0 .. m - 1 -> Cell]
  <2>1. t = [c \in 0 .. m - 1 |-> IF c < k THEN row[c] ELSE DefaultCell(s)]
    BY <1>2 DEF m
  <2>2. \A c \in 0 .. m - 1 : t[c] \in Cell
    <3> SUFFICES ASSUME NEW c \in 0 .. m - 1 PROVE t[c] \in Cell
      OBVIOUS
    <3>1. c < k => row[c] \in Cell
      BY <1>1, <1>3
    <3>2. DefaultCell(s) \in Cell
      BY DefaultCellIs
    <3> HIDE DEF t
    <3> QED
      BY <1>3, <1>4, <3>1, <3>2
  <2> HIDE DEF t
  <2> QED
    BY <2>1, <2>2
<1> HIDE DEF t
<1>6. \A c \in k .. m - 1 : t[c].d \in {Cont, Blank}
  <2> SUFFICES ASSUME NEW c \in k .. m - 1 PROVE t[c].d \in {Cont, Blank}
    OBVIOUS
  <2>1. t[c] = DefaultCell(s)
    BY <1>3, <1>4
  <2> QED
    BY <2>1 DEF DefaultCell
<1>7. \A c \in k .. n - 1 : row[c].d \in {Cont, Blank}
  BY <1>2 DEF Trimmable
<1>8. Seen(t, k) = Seen(row, k)
  <2>1. \A c \in 0 .. k - 1 : t[c] = row[c]
    BY <1>3, <1>4
  <2> QED
    BY <2>1, SeenSame
<1>9. RowText(t) = LinesOf(Seen(t, m).text) /\ RowText(row) = LinesOf(Seen(row, n).text)
  BY <1>1, <1>3, <1>5, RowTextIs
<1>10. LinesOf(Seen(t, m).text) = LinesOf(Seen(t, k).text)
  BY <1>3, <1>5, <1>6, SeenQuiet
<1>11. LinesOf(Seen(row, n).text) = LinesOf(Seen(row, k).text)
  BY <1>1, <1>7, SeenQuiet
<1> QED
  BY <1>8, <1>9, <1>10, <1>11 DEF t

-----------------------------------------------------------------------------
(* The theorems. *)

Invariant == HistoryOK(h) /\ family \in Families

(* A screen of which only the answer to the program changes, or that recovers. *)
LEMMA AnsweredOK ==
    ASSUME NEW g, HistoryOK(g), ~g.s.panicked
    PROVE  LET f == [g EXCEPT !.s.reply = <<>>] IN HistoryOK(f) /\ Later(g, f) /\ ~f.s.panicked
<1> DEFINE s == g.s
           t == [s EXCEPT !.reply = <<>>]
           f == [g EXCEPT !.s.reply = <<>>]
<1>1. TopOK(g) /\ ScreenOK(s) /\ HasFields(s)
  BY DEF HistoryOK, Fine, ScreenOK, Afloat
<1>2. f = Lift(g, t)
  BY <1>1 DEF Lift, TopOK
<1>3. Calm(s, t)
  <2>1. ScreenOK(t)
    BY <1>1 DEF ScreenOK, Afloat, HasFields
  <2>2. t.panicked = s.panicked
    BY <1>1 DEF HasFields
  <2> QED
    BY <2>1, <2>2 DEF Calm
<1> HIDE DEF t, f
<1>4. Later(g, Lift(g, t)) /\ Lift(g, t).s = t
  BY <1>1, LiftOK
<1>5. Fine(t) /\ ~t.panicked
  BY <1>3 DEF Calm, Fine
<1> QED
  BY <1>2, <1>4, <1>5 DEF HistoryOK, Later, f

LEMMA RecoveredOK ==
    ASSUME NEW g, HistoryOK(g)
    PROVE  LET f == [g EXCEPT !.s.panicked = FALSE] IN HistoryOK(f) /\ Later(g, f)
<1> DEFINE s == g.s
           t == [s EXCEPT !.panicked = FALSE]
           f == [g EXCEPT !.s.panicked = FALSE]
<1>1. TopOK(g) /\ ScreenOK(s) /\ HasFields(s)
  BY DEF HistoryOK, Fine, ScreenOK, Afloat
<1>2. f = Lift(g, t)
  BY <1>1 DEF Lift, TopOK
<1>3. ScreenOK(t) /\ ~t.panicked
  <2>1. ScreenOK(t)
    BY <1>1 DEF ScreenOK, Afloat, HasFields
  <2>2. t.panicked = FALSE
    BY <1>1 DEF HasFields
  <2> QED
    BY <2>1, <2>2
<1> HIDE DEF t, f
<1>4. Later(g, Lift(g, t)) /\ Lift(g, t).s = t
  BY <1>1, LiftOK
<1>5. Fine(t)
  BY <1>3 DEF Fine
<1> QED
  BY <1>2, <1>4, <1>5 DEF HistoryOK, Later, f

LEMMA ReplaysOK ==
    ASSUME NEW g, HistoryOK(g)
    PROVE  /\ \A e : OpOK(e) => HistoryOK(Replay(g, <<e>>)) /\ Later(g, Replay(g, <<e>>))
           /\ \A d, e : OpOK(d) /\ OpOK(e) => HistoryOK(Replay(g, <<d, e>>)) /\ Later(g, Replay(g, <<d, e>>))
           /\ \A c, d, e : OpOK(c) /\ OpOK(d) /\ OpOK(e) =>
                 HistoryOK(Replay(g, <<c, d, e>>)) /\ Later(g, Replay(g, <<c, d, e>>))
<1>1. ASSUME NEW E, \A e \in E : OpOK(e), NEW q \in Seq(E)
      PROVE  HistoryOK(Replay(g, q)) /\ Later(g, Replay(g, q))
  BY <1>1, ReplayOK
<1>2. ASSUME NEW e, OpOK(e) PROVE HistoryOK(Replay(g, <<e>>)) /\ Later(g, Replay(g, <<e>>))
  <2> DEFINE E == {e}
             q == <<e>>
  <2>1. q \in Seq(E) /\ \A x \in E : OpOK(x)
    BY <1>2
  <2> HIDE DEF E, q
  <2>2. HistoryOK(Replay(g, q)) /\ Later(g, Replay(g, q))
    BY <1>1, <2>1
  <2> QED
    BY <2>2 DEF q
<1>3. ASSUME NEW d, NEW e, OpOK(d), OpOK(e)
      PROVE  HistoryOK(Replay(g, <<d, e>>)) /\ Later(g, Replay(g, <<d, e>>))
  <2> DEFINE E == {d, e}
             q == <<d, e>>
  <2>1. q \in Seq(E) /\ \A x \in E : OpOK(x)
    BY <1>3
  <2> HIDE DEF E, q
  <2>2. HistoryOK(Replay(g, q)) /\ Later(g, Replay(g, q))
    BY <1>1, <2>1
  <2> QED
    BY <2>2 DEF q
<1>4. ASSUME NEW c, NEW d, NEW e, OpOK(c), OpOK(d), OpOK(e)
      PROVE  HistoryOK(Replay(g, <<c, d, e>>)) /\ Later(g, Replay(g, <<c, d, e>>))
  <2> DEFINE E == {c, d, e}
             q == <<c, d, e>>
  <2>1. q \in Seq(E) /\ \A x \in E : OpOK(x)
    BY <1>4
  <2> HIDE DEF E, q
  <2>2. HistoryOK(Replay(g, q)) /\ Later(g, Replay(g, q))
    BY <1>1, <2>1
  <2> QED
    BY <2>2 DEF q
<1> QED
  BY <1>2, <1>3, <1>4

(* Every step but an upgrade keeps the screen well-formed and gives a later history. *)
LEMMA StepOK ==
    ASSUME TerminalAssumption, Invariant, [Next]_vars, ~LiveUpgrade
    PROVE  HistoryOK(h') /\ Later(h, h')
<1>0. HistoryOK(h) /\ TopOK(h) /\ family \in Families
  BY DEF Invariant, HistoryOK
<1>1. ASSUME NEW e \in OpsOf[family], Output(e) PROVE HistoryOK(h') /\ Later(h, h')
  <2> DEFINE f == [h EXCEPT !.s.reply = <<>>]
  <2>1. ~h.s.panicked /\ h' = Replay(f, <<e>>)
    BY <1>1 DEF Output, MayStep
  <2>2. HistoryOK(f) /\ Later(h, f)
    BY <1>0, <2>1, AnsweredOK
  <2>3. OpOK(e)
    BY <1>0, FamilyOK DEF TerminalAssumption
  <2> HIDE DEF f
  <2>4. HistoryOK(Replay(f, <<e>>)) /\ Later(f, Replay(f, <<e>>))
    BY <2>2, <2>3, ReplaysOK
  <2> QED
    BY <1>0, <2>1, <2>2, <2>4, LaterTwice
<1>2. ASSUME NEW z \in Sizes, WindowResize(z[1], z[2]) PROVE HistoryOK(h') /\ Later(h, h')
  <2>1. z[1] \in Nat \ {0} /\ z[2] \in Nat \ {0}
    BY DEF TerminalAssumption
  <2>2. ~h.s.panicked /\ h' = HResize(h, z[1], z[2])
    BY <1>2 DEF WindowResize, MayStep
  <2> QED
    BY <1>0, <2>1, <2>2, HResizeOK
<1>3. ASSUME Recovered PROVE HistoryOK(h') /\ Later(h, h')
  BY <1>0, <1>3, RecoveredOK DEF Recovered
<1>4. ASSUME PrintLine PROVE HistoryOK(h') /\ Later(h, h')
  <2> DEFINE c == Letter(Len(printed) + 1)
  <2>1. h' = Replay(h, <<Text(<<c>>), <<"CarriageReturn">>, <<"LineFeed">>>>)
    BY <1>4 DEF PrintLine
  <2>2. OpOK(Text(<<c>>)) /\ OpOK(<<"CarriageReturn">>) /\ OpOK(<<"LineFeed">>)
    <3>1. Len(printed) + 1 \in 1 .. 9
      BY <1>4 DEF PrintLine, TerminalAssumption
    <3> QED
      BY <3>1, ShellOpsOK
  <2> HIDE DEF c
  <2> QED
    BY <1>0, <2>1, <2>2, ReplaysOK
<1>5. ASSUME FullScreen PROVE HistoryOK(h') /\ Later(h, h')
  <2> DEFINE e == <<IF h.s.altActive THEN "ResetMode" ELSE "SetMode", <<"AltBufCursor">>>>
  <2>1. h' = Replay(h, <<e>>)
    BY <1>5 DEF FullScreen
  <2>2. OpOK(e)
    BY ShellOpsOK
  <2> HIDE DEF e
  <2> QED
    BY <1>0, <2>1, <2>2, ReplaysOK
<1>6. ASSUME Paint PROVE HistoryOK(h') /\ Later(h, h')
  <2> DEFINE e == <<"CursorPosition", h.s.lines, 1>>
  <2>1. h' = Replay(h, <<e, Text(<<"#">>)>>)
    BY <1>6 DEF Paint
  <2>2. OpOK(e) /\ OpOK(Text(<<"#">>))
    <3>1. h.s.lines \in Int
      BY <1>0 DEF HistoryOK, Fine, ScreenOK, Afloat
    <3> QED
      BY <3>1, ShellOpsOK
  <2> HIDE DEF e
  <2> QED
    BY <1>0, <2>1, <2>2, ReplaysOK
<1>7. ASSUME UNCHANGED vars PROVE HistoryOK(h') /\ Later(h, h')
  BY <1>0, <1>7, LaterSelf DEF vars
<1> QED
  BY <1>1, <1>2, <1>3, <1>4, <1>5, <1>6, <1>7 DEF Next, Done

(* The screen is well-formed, its history numbered without a gap and within  *)
(* its limit, in every state; a panic is of one of three causes.             *)
THEOREM ScreenWellFormed == Spec => []Invariant
<1>1. Init => Invariant
  <2> SUFFICES ASSUME Init PROVE Invariant
    OBVIOUS
  <2>1. Columns \in Nat \ {0} /\ Lines \in Nat \ {0} /\ HistoryMax \in Nat \ {0}
    BY TerminalAssumption DEF TerminalAssumption
  <2> DEFINE t == NewScreen(Columns, Lines)
  <2>2. Fine(t)
    BY <2>1, NewScreenOK DEF Fine
  <2>3. h = [s |-> t, top |-> <<>>, max |-> HistoryMax, firstSeq |-> 0, totalAdded |-> 0]
    BY DEF Init, NewHistoryScreen
  <2> HIDE DEF t
  <2>4. TopOK(h) /\ h.s = t
    BY <2>1, <2>3 DEF TopOK
  <2> QED
    BY <2>2, <2>4 DEF Invariant, HistoryOK, Init
<1>2. Invariant /\ [Next]_vars => Invariant'
  <2> SUFFICES ASSUME Invariant, [Next]_vars PROVE Invariant'
    OBVIOUS
  <2>1. family' = family
    BY DEF Next, Output, WindowResize, LiveUpgrade, Recovered, PrintLine, FullScreen, Paint, Done, Took, vars
  <2>2. HistoryOK(h')
    <3>1. CASE LiveUpgrade
      BY <3>1, UpgradedOK DEF LiveUpgrade, MayStep, Invariant
    <3>2. CASE ~LiveUpgrade
      BY <3>2, StepOK, TerminalAssumption
    <3> QED
      BY <3>1, <3>2
  <2> QED
    BY <2>1, <2>2 DEF Invariant
<1> QED
  BY <1>1, <1>2, PTL DEF Spec

(* The screen panics only on a right margin that a resize has left beyond   *)
(* the row, a cursor that such a margin let go there, or a map that came    *)
(* back nil from an upgrade (the indexings of screen.go).                   *)
THEOREM PanicsHaveCauses == Spec => []PanicCauses
<1>1. Invariant => PanicCauses
  BY DEF Invariant, HistoryOK, Fine, Cause, Stale, PanicCauses
<1> QED
  BY <1>1, ScreenWellFormed, PTL

(* No step renumbers the rows of history that viewers have fetched, nor     *)
(* changes their text: PushRow, ResetHistory, HistoryScreen.Resize and the  *)
(* restore of an upgrade, which trims and pads them (trimBuffer).           *)
THEOREM HistoryNumbered == Spec => RowsKeepTheirNumber
<1>1. Invariant /\ [Next]_vars =>
        [/\ h'.totalAdded >= h.totalAdded
         /\ \A n \in MaxOf(h.firstSeq, h'.firstSeq) .. h.totalAdded - 1 :
              n < h'.totalAdded =>
                  RowText(RowNumbered(h', n)) = RowText(RowNumbered(h, n))]_vars
  <2> SUFFICES ASSUME Invariant, [Next]_vars
               PROVE  /\ h'.totalAdded >= h.totalAdded
                      /\ \A n \in MaxOf(h.firstSeq, h'.firstSeq) .. h.totalAdded - 1 :
                           RowText(RowNumbered(h', n)) = RowText(RowNumbered(h, n))
    OBVIOUS
  <2>1. TopOK(h)
    BY DEF Invariant, HistoryOK
  <2>2. h.firstSeq \in Nat /\ h.totalAdded = h.firstSeq + Len(h.top) /\ h.top \in Seq(Row) /\ h.totalAdded \in Nat
    BY <2>1 DEF TopOK
  <2>3. CASE LiveUpgrade
    <3> DEFINE g == Upgraded(h)
    <3>1. /\ h' = g /\ g.firstSeq = h.firstSeq /\ g.totalAdded = h.totalAdded
          /\ \A i \in 1 .. Len(h.top) : g.top[i] = Repadded(h.s, h.top[i])
      BY <2>3, UpgradedOK DEF LiveUpgrade, MayStep, Invariant
    <3> HIDE DEF g
    <3>2. h.s.columns \in Nat
      BY DEF Invariant, HistoryOK, Fine, ScreenOK, Afloat
    <3>3. MaxOf(h.firstSeq, g.firstSeq) = h.firstSeq
      BY <3>1 DEF MaxOf
    <3>4. ASSUME NEW n \in h.firstSeq .. h.totalAdded - 1
          PROVE  RowText(RowNumbered(g, n)) = RowText(RowNumbered(h, n))
      <4> DEFINE i == n - h.firstSeq + 1
      <4>1. i \in 1 .. Len(h.top)
        BY <2>2
      <4>2. RowNumbered(g, n) = g.top[i] /\ RowNumbered(h, n) = h.top[i]
        BY <3>1 DEF RowNumbered
      <4> HIDE DEF i
      <4>3. h.top[i] \in Row
        BY <2>2, <4>1
      <4> QED
        BY <3>1, <3>2, <4>1, <4>2, <4>3, RepaddedText
    <3> QED
      BY <2>2, <3>1, <3>3, <3>4
  <2>4. CASE ~LiveUpgrade
    <3>1. Later(h, h')
      BY <2>4, StepOK, TerminalAssumption
    <3>2. h'.firstSeq \in Nat /\ h'.totalAdded \in Nat /\ h.firstSeq <= h'.firstSeq /\ h.totalAdded <= h'.totalAdded
      BY <3>1, TopInts DEF Later, Numbered
    <3>3. MaxOf(h.firstSeq, h'.firstSeq) = h'.firstSeq
      BY <2>2, <3>2 DEF MaxOf
    <3> QED
      BY <2>2, <3>1, <3>2, <3>3 DEF Later, Numbered
  <2> QED
    BY <2>3, <2>4
<1> QED
  BY <1>1, ScreenWellFormed, PTL DEF Spec, RowsKeepTheirNumber

(* A row comes back whole if a cell that is not trimmed follows each of its *)
(* continuations.                                                           *)
LEMMA RepaddedSame ==
    ASSUME NEW s, s.columns \in Nat, ~Has(s, "DECSCNM"),
           NEW row \in [0 .. s.columns - 1 -> Cell],
           \A c \in DOMAIN row : row[c].d = Cont => \E d \in DOMAIN row : d >= c /\ ~Trimmable(row[d])
    PROVE  Repadded(s, row) = row
<1> DEFINE n == s.columns
<1>1. PICK k \in 0 .. n :
         /\ Repadded(s, row) = [c \in 0 .. MaxOf(k, n) - 1 |-> IF c < k THEN row[c] ELSE DefaultCell(s)]
         /\ \A c \in k .. n - 1 : Trimmable(row[c])
  BY RepaddedIs
<1>2. MaxOf(k, n) = n /\ DOMAIN row = 0 .. n - 1
  BY DEF MaxOf
<1>3. ASSUME NEW c \in k .. n - 1 PROVE row[c] = DefaultCell(s)
  <2>1. c \in 0 .. n - 1
    OBVIOUS
  <2>2. Trimmable(row[c]) /\ row[c] \in Cell
    BY <1>1, <2>1
  <2>3. row[c].d # Cont
    <3> SUFFICES ASSUME row[c].d = Cont PROVE FALSE
      OBVIOUS
    <3>1. PICK d \in 0 .. n - 1 : d >= c /\ ~Trimmable(row[d])
      BY <1>2, <2>1
    <3>2. d \in k .. n - 1
      BY <3>1
    <3> QED
      BY <1>1, <3>1, <3>2
  <2>4. row[c].d = Blank /\ row[c].a = {}
    BY <2>2, <2>3 DEF Trimmable, PlainAttr
  <2>5. row[c] = [d |-> Blank, a |-> {}]
    <3> DEFINE x == row[c]
    <3>1. x \in [d : Seq(Runes), a : SUBSET Flags] /\ x.d = Blank /\ x.a = {}
      BY <2>2, <2>4 DEF Cell
    <3> HIDE DEF x
    <3>2. x = [d |-> Blank, a |-> {}]
      BY <3>1
    <3> QED
      BY <3>2 DEF x
  <2> QED
    BY <2>5 DEF DefaultCell, DefaultAttr
<1>4. \A c \in 0 .. n - 1 : (IF c < k THEN row[c] ELSE DefaultCell(s)) = row[c]
  BY <1>3
<1>5. row = [c \in 0 .. n - 1 |-> row[c]]
  OBVIOUS
<1>6. Repadded(s, row) = [c \in 0 .. n - 1 |-> IF c < k THEN row[c] ELSE DefaultCell(s)]
  BY <1>1, <1>2
<1>7. [c \in 0 .. n - 1 |-> IF c < k THEN row[c] ELSE DefaultCell(s)] = [c \in 0 .. n - 1 |-> row[c]]
  BY <1>4
<1> QED
  BY <1>5, <1>6, <1>7

LEMMA RepaddedBufferSame ==
    ASSUME NEW s, s.columns \in Nat, ~Has(s, "DECSCNM"), NEW lines \in Nat,
           NEW b, IsBuffer(b, lines, s.columns), PairsFollowed(b)
    PROVE  RepaddedBuffer(s, b) = b
<1>1. b \in [0 .. lines - 1 -> [0 .. s.columns - 1 -> Cell]]
  BY DEF IsBuffer
<1>2. ASSUME NEW r \in 0 .. lines - 1 PROVE Repadded(s, b[r]) = b[r]
  <2>1. b[r] \in [0 .. s.columns - 1 -> Cell]
    BY <1>1
  <2>2. \A c \in DOMAIN b[r] : b[r][c].d = Cont => \E d \in DOMAIN b[r] : d >= c /\ ~Trimmable(b[r][d])
    BY <1>1 DEF PairsFollowed
  <2> DEFINE row == b[r]
  <2> HIDE DEF row
  <2>3. Repadded(s, row) = row
    BY <2>1, <2>2, RepaddedSame DEF row
  <2> QED
    BY <2>3 DEF row
<1>3. b = [r \in 0 .. lines - 1 |-> b[r]]
  BY <1>1
<1> QED
  BY <1>1, <1>2, <1>3 DEF RepaddedBuffer

(* A live upgrade brings back the screen it took, whatever its size, if it  *)
(* is Restorable (MarshalState, trimBuffer, UnmarshalState,                 *)
(* padRowsToColumns).                                                       *)
THEOREM UpgradeTransfersScreen == Spec => UpgradeKeepsScreen
<1>1. Invariant /\ [Next]_vars => [LiveUpgrade /\ Restorable => h'.s = [h.s EXCEPT !.reply = <<>>]]_vars
  <2> SUFFICES ASSUME Invariant, LiveUpgrade, Restorable PROVE h'.s = [h.s EXCEPT !.reply = <<>>]
    OBVIOUS
  <2> DEFINE s == h.s
             B == RepaddedBuffer(s, s.buf)
             A == RepaddedBuffer(s, s.altBuf)
             stops == ThroughJSON(s.tabStops)
             L == ThroughJSON(s.lineWrapped)
             M == ThroughJSON(s.altLineWrapped)
  <2>1. h'.s = UpgradedScreen(s)
    BY UpgradedOK DEF LiveUpgrade, MayStep, Invariant
  <2>2. /\ s.lines \in Nat /\ s.columns \in Nat /\ IsBuffer(s.buf, s.lines, s.columns)
        /\ s.altBuf = NoBuffer \/ IsBuffer(s.altBuf, s.lines, s.columns)
    BY DEF Invariant, HistoryOK, Fine, ScreenOK, Afloat
  <2>3. /\ PairsFollowed(s.buf) /\ PairsFollowed(s.altBuf) /\ ~Has(s, "DECSCNM")
        /\ s.lineWrapped # {} /\ s.tabStops # {} /\ s.altLineWrapped # {}
    BY DEF Restorable
  <2>4. B = s.buf
    BY <2>2, <2>3, RepaddedBufferSame
  <2>5. A = s.altBuf
    <3>1. CASE s.altBuf = NoBuffer
      BY <3>1, RepaddedNothing
    <3>2. CASE IsBuffer(s.altBuf, s.lines, s.columns)
      BY <2>2, <2>3, <3>2, RepaddedBufferSame
    <3> QED
      BY <2>2, <3>1, <3>2
  <2>6. stops = s.tabStops /\ L = s.lineWrapped /\ M = s.altLineWrapped
    BY <2>3 DEF ThroughJSON
  <2>7. UpgradedScreen(s) = [s EXCEPT !.buf = RepaddedBuffer(s, @), !.altBuf = RepaddedBuffer(s, @),
              !.lineWrapped = ThroughJSON(@), !.altLineWrapped = ThroughJSON(@),
              !.tabStops = ThroughJSON(@), !.reply = <<>>]
    BY DEF UpgradedScreen
  <2>8. UpgradedScreen(s) = [s EXCEPT !.buf = B, !.altBuf = A, !.lineWrapped = L, !.altLineWrapped = M,
                                      !.tabStops = stops, !.reply = <<>>]
    BY <2>7
  <2> HIDE DEF A, B, stops, L, M
  <2>9. UpgradedScreen(s) = [s EXCEPT !.buf = s.buf, !.altBuf = s.altBuf, !.lineWrapped = s.lineWrapped,
                                      !.altLineWrapped = s.altLineWrapped, !.tabStops = s.tabStops, !.reply = <<>>]
    BY <2>4, <2>5, <2>6, <2>8
  <2> HIDE DEF s
  <2>10. UpgradedScreen(s) = [s EXCEPT !.reply = <<>>]
    BY <2>9
  <2> QED
    BY <2>1, <2>10 DEF s
<1> QED
  BY <1>1, ScreenWellFormed, PTL DEF Spec, UpgradeKeepsScreen


-----------------------------------------------------------------------------
(* Wide characters stay whole: what Draw makes of a buffer without halves. *)

PairedRow(row) ==
    \A c \in DOMAIN row :
        /\ Width(row[c].d) = 2 /\ c + 1 \in DOMAIN row => row[c + 1].d = Cont
        /\ row[c].d = Cont => c > 0 /\ Width(row[c - 1].d) = 2
Whole(s) == \A r \in 0 .. s.lines - 1 : PairedRow(s.buf[r])
(* No margin and no insertion has a part in it. *)
Free(s) == ScreenOK(s) /\ ~Has(s, "DECLRMM") /\ ~Has(s, "IRM")

LEMMA Widths ==
    /\ Width(Cont) = 0 /\ Width(Blank) = 1 /\ Blank # Cont
    /\ \A x : Width(x) > 0 => x # Cont
<1>1. Width(Cont) = 0
  BY DEF Width, Cont
<1>2. Width(Blank) = 1
  <2>1. DOMAIN Blank = {1} /\ Blank[1] = " "
    BY DEF Blank
  <2>2. " " # "W" /\ " " \notin {"+", "z"}
    OBVIOUS
  <2> QED
    BY <2>1, <2>2, Zenon DEF Width
<1>3. Blank # Cont
  BY DEF Blank, Cont
<1>4. \A x : Width(x) > 0 => x # Cont
  BY <1>1
<1> QED
  BY <1>1, <1>2, <1>3, <1>4

LEMMA WholeIs == ASSUME NEW s, ScreenOK(s) PROVE Whole(s) <=> PairsIntact(s.buf)
<1>1. DOMAIN s.buf = 0 .. s.lines - 1
  BY CellsOf
<1> QED
  BY <1>1 DEF Whole, PairsIntact, PairedRow

LEMMA FreeStays ==
    ASSUME NEW s, Free(s), NEW t, ScreenOK(t), Kept(s, t) PROVE Free(t) /\ t.columns = s.columns /\ t.lines = s.lines
  BY DEF Free, Kept, Has

LEMMA BlankRow ==
    ASSUME NEW s, NEW n \in Nat PROVE PairedRow([c \in 0 .. n - 1 |-> DefaultCell(s)])
<1>1. DefaultCell(s).d = Blank
  BY DEF DefaultCell
<1> QED
  BY <1>1, Widths DEF PairedRow

LEMMA ShiftRowsWhole ==
    ASSUME NEW s, Free(s), Whole(s), NEW top \in Nat, NEW bottom \in 0 .. s.lines - 1, NEW n \in Int
    PROVE  Whole(ShiftRows(s, top, bottom, n))
<1> DEFINE F(r, c) == IF r + n \in top .. bottom THEN s.buf[r + n][c] ELSE DefaultCell(s)
           Row0(r) == [c \in DOMAIN s.buf[r] |->
                           IF c \in Left(s) .. Right(s) THEN F(r, c) ELSE s.buf[r][c]]
           b == [r \in DOMAIN s.buf |-> IF r \notin top .. bottom THEN s.buf[r] ELSE Row0(r)]
<1>1. ScreenOK(s) /\ s.columns \in Nat /\ s.lines \in Nat /\ "buf" \in DOMAIN s
  BY DEF Free, ScreenOK, Afloat, HasFields
<1>2. ShiftRows(s, top, bottom, n) = [s EXCEPT !.buf = b]
  BY DEF ShiftRows, SetCells
<1>3. Left(s) = 0 /\ Right(s) = s.columns - 1
  BY DEF Free, Left, Right
<1>4. ASSUME NEW r \in 0 .. s.lines - 1 PROVE PairedRow(b[r])
  <2>1. DOMAIN s.buf = 0 .. s.lines - 1 /\ DOMAIN s.buf[r] = 0 .. s.columns - 1
    BY <1>1, CellsOf
  <2>2. CASE r \notin top .. bottom
    BY <2>1, <2>2 DEF Whole
  <2>3. CASE r \in top .. bottom /\ r + n \in top .. bottom
    <3>1. r + n \in 0 .. s.lines - 1
      BY <1>1, <2>3
    <3>2. s.buf[r + n] \in [0 .. s.columns - 1 -> Cell]
      BY <1>1, <3>1, CellsOf
    <3>3. b[r] = [c \in 0 .. s.columns - 1 |-> s.buf[r + n][c]]
      BY <1>3, <2>1, <2>3
    <3>4. b[r] = s.buf[r + n]
      BY <3>2, <3>3
    <3> HIDE DEF b
    <3> QED
      BY <3>1, <3>4 DEF Whole
  <2>4. CASE r \in top .. bottom /\ r + n \notin top .. bottom
    <3>1. b[r] = [c \in 0 .. s.columns - 1 |-> DefaultCell(s)]
      BY <1>3, <2>1, <2>4
    <3> HIDE DEF b
    <3> QED
      BY <1>1, <3>1, BlankRow
  <2> QED
    BY <2>2, <2>3, <2>4
<1> HIDE DEF b
<1> QED
  BY <1>1, <1>2, <1>4 DEF Whole

LEMMA IndexWhole ==
    ASSUME NEW s, Free(s), Whole(s) PROVE Whole(Index(s)) /\ Free(Index(s))
<1> DEFINE t == [s EXCEPT !.wrapNext = FALSE]
           u == ShiftRows(t, ScrollTop(s), ScrollBottom(s), 1)
           v == [t EXCEPT !.row = @ + 1]
<1>1. ScreenOK(s) /\ HasFields(s)
  BY DEF Free, ScreenOK, Afloat
<1>2. Steady(s, t) /\ t.buf = s.buf /\ t.lines = s.lines
  BY <1>1, Moves, Zenon DEF HasFields
<1>3. v.buf = s.buf /\ v.lines = s.lines
  BY <1>1 DEF HasFields
<1>4. Index(s) \in {t, u, v}
  BY DEF Index
<1> HIDE DEF t, v
<1>5. Free(t) /\ Whole(t) /\ Whole(v)
  BY <1>2, <1>3, FreeStays DEF Steady, Calm, Whole
<1>6. Whole(u)
  BY <1>1, <1>2, <1>5, Ranges, ShiftRowsWhole DEF ScreenOK
<1> HIDE DEF u
<1>7. Free(Index(s))
  BY <1>1, IndexOK, FreeStays DEF Steady, Calm
<1> QED
  BY <1>4, <1>5, <1>6, <1>7

LEMMA ReturnWhole ==
    ASSUME NEW s, Free(s), Whole(s)
    PROVE  Whole(CarriageReturn(s)) /\ Free(CarriageReturn(s)) /\ CarriageReturn(s).col = 0
<1>1. ScreenOK(s) /\ HasFields(s)
  BY DEF Free, ScreenOK, Afloat
<1>2. CarriageReturn(s).buf = s.buf /\ CarriageReturn(s).lines = s.lines /\ CarriageReturn(s).col = 0
  BY <1>1 DEF CarriageReturn, HasFields, Free
<1>3. Free(CarriageReturn(s))
  BY <1>1, CarriageReturnOK, FreeStays DEF Steady, Calm
<1> QED
  BY <1>2, <1>3 DEF Whole

LEMMA FeedWhole ==
    ASSUME NEW s, Free(s), Whole(s)
    PROVE  LET t == LineFeed(CarriageReturn(s)) IN Whole(t) /\ Free(t) /\ t.col = 0
<1> DEFINE r == CarriageReturn(s)
           i == Index(r)
<1>1. Whole(r) /\ Free(r) /\ r.col = 0
  BY ReturnWhole
<1>2. LineFeed(r) = IF Has(r, "LNM") THEN CarriageReturn(i) ELSE i
  BY DEF LineFeed
<1> HIDE DEF r
<1>3. Whole(i) /\ Free(i) /\ i.col = 0
  BY <1>1, IndexWhole, IndexOK DEF Free
<1> HIDE DEF i
<1> QED
  BY <1>2, <1>3, ReturnWhole DEF r

LEMMA MarkWrappedWhole ==
    ASSUME NEW s, ScreenOK(s)
    PROVE  /\ MarkWrapped(s).buf = s.buf /\ MarkWrapped(s).lines = s.lines
           /\ MarkWrapped(s).row = s.row /\ (s.panicked => MarkWrapped(s).panicked)
<1>1. HasFields(s)
  BY DEF ScreenOK, Afloat
<1> QED
  BY <1>1 DEF MarkWrapped, Panic, HasFields

(* The last cell of the row, and no half of a pair, is blanked. *)
LEMMA WrapWideWhole ==
    ASSUME NEW s, Free(s), Whole(s), ~s.panicked, s.col = s.columns - 1,
           s.buf[s.row][s.columns - 1].d # Cont
    PROVE  Whole(WrapWide(s)) /\ Free(WrapWide(s)) /\ (~WrapWide(s).panicked => WrapWide(s).col = 0)
<1> DEFINE line == [s.buf[s.row] EXCEPT ![s.col] = DefaultCell(s)]
           b == [s.buf EXCEPT ![s.row] = line]
           t == [s EXCEPT !.buf = b]
           u == MarkWrapped(t)
<1>1. /\ ScreenOK(s) /\ HasFields(s) /\ s.columns \in Nat \ {0} /\ s.lines \in Nat
      /\ s.row \in 0 .. s.lines - 1 /\ s.col \in 0 .. s.columns - 1
  BY DEF Free, ScreenOK, Afloat
<1>2. s.buf[s.row] \in [0 .. s.columns - 1 -> Cell] /\ DOMAIN s.buf = 0 .. s.lines - 1
  BY <1>1, CellsOf
<1>3. PairedRow(line)
  <2> DEFINE old == s.buf[s.row]
             n == s.columns
  <2>1. PairedRow(old) /\ old[n - 1].d # Cont /\ old \in [0 .. n - 1 -> Cell] /\ n \in Nat \ {0}
    BY <1>1, <1>2 DEF Whole
  <2>2. line = [old EXCEPT ![n - 1] = DefaultCell(s)]
    OBVIOUS
  <2> HIDE DEF old, n, line
  <2>3. DOMAIN old = 0 .. n - 1 /\ DOMAIN line = 0 .. n - 1
    BY <2>1, <2>2
  <2>4. line[n - 1].d = Blank
    BY <2>1, <2>2 DEF DefaultCell
  <2>5. \A c \in 0 .. n - 2 : line[c] = old[c]
    BY <2>1, <2>2
  <2>6. ASSUME NEW c \in 0 .. n - 1, Width(line[c].d) = 2, c + 1 \in 0 .. n - 1 PROVE line[c + 1].d = Cont
    <3>1. c \in 0 .. n - 2 /\ c + 1 \in 0 .. n - 1
      BY <2>1, <2>6
    <3>2. line[c] = old[c]
      BY <2>5, <3>1
    <3>3. old[c + 1].d = Cont
      BY <2>1, <2>3, <2>6, <3>1, <3>2 DEF PairedRow
    <3>4. c + 1 # n - 1
      BY <2>1, <3>3
    <3>5. c + 1 \in 0 .. n - 2
      BY <2>1, <3>1, <3>4
    <3>6. line[c + 1] = old[c + 1]
      BY <2>5, <3>5
    <3> QED
      BY <3>3, <3>6
  <2>7. ASSUME NEW c \in 0 .. n - 1, line[c].d = Cont PROVE c > 0 /\ Width(line[c - 1].d) = 2
    <3>1. c # n - 1
      BY <2>4, <2>7, Widths
    <3>2. line[c] = old[c] /\ c > 0 /\ Width(old[c - 1].d) = 2
      BY <2>1, <2>3, <2>5, <2>7, <3>1 DEF PairedRow
    <3>3. c - 1 \in 0 .. n - 2
      BY <2>1, <3>1, <3>2
    <3> QED
      BY <2>5, <3>2, <3>3
  <2> QED
    BY <2>3, <2>6, <2>7 DEF PairedRow
<1> HIDE DEF line
<1>4. \A r \in 0 .. s.lines - 1 : PairedRow(b[r])
  BY <1>1, <1>2, <1>3 DEF Whole
<1>5. WrapWide(s) = IF u.panicked THEN u ELSE LineFeed(CarriageReturn(u))
  <2>1. ~(s.col >= s.columns)
    BY <1>1
  <2>2. t = [s EXCEPT !.buf[s.row][s.col] = DefaultCell(s)]
    BY <1>1 DEF line
  <2> QED
    BY <2>1, <2>2 DEF WrapWide, Then
<1>6. DefaultCell(s) \in Cell
  BY <1>1, DefaultCellOK
<1>7. IsBuffer(b, s.lines, s.columns)
  <2>1. s.buf \in [0 .. s.lines - 1 -> [0 .. s.columns - 1 -> Cell]]
    BY <1>1 DEF ScreenOK, Afloat, IsBuffer
  <2> QED
    BY <1>1, <1>2, <1>6, <2>1 DEF IsBuffer, line
<1> HIDE DEF b
<1>8. Steady(s, t) /\ t.buf = b /\ t.lines = s.lines
  BY <1>1, <1>7, NewBuffer DEF HasFields
<1> HIDE DEF t
<1>9. Free(t) /\ Whole(t) /\ ScreenOK(t)
  BY <1>4, <1>8, FreeStays DEF Steady, Calm, Whole
<1>10. ScreenOK(u) /\ Kept(t, u) /\ u.buf = t.buf /\ u.lines = t.lines
  BY <1>9, MarkWrappedOK, MarkWrappedWhole
<1> HIDE DEF u
<1>11. Free(u) /\ Whole(u)
  BY <1>9, <1>10, FreeStays DEF Whole
<1> QED
  BY <1>5, <1>11, FeedWhole

(* After clearWidePairAt(col) no pair reaches col: whatever is put there    *)
(* breaks none.                                                             *)
Cleared(l, n, col) ==
    \A c \in (0 .. n - 1) \ {col} :
        /\ Width(l[c].d) = 2 /\ c + 1 \in 0 .. n - 1 => c + 1 # col /\ l[c + 1].d = Cont
        /\ l[c].d = Cont => c > 0 /\ c - 1 # col /\ Width(l[c - 1].d) = 2

(* The rows that clearWidePairAt makes of one, by their data alone.        *)
LEMMA ClearWidePairAtIs ==
    ASSUME NEW n \in Nat, NEW l \in [0 .. n - 1 -> Cell], NEW col \in 0 .. n - 1
    PROVE  LET k == ClearWidePairAt(l, col)
           IN  /\ k \in [0 .. n - 1 -> Cell]
               /\ \A c \in 0 .. n - 1 :
                     \/ k[c].d = l[c].d
                     \/ k[c].d = Blank
               /\ Width(l[col].d) = 2 =>
                     \A c \in 0 .. n - 1 : k[c].d = IF c = col + 1 THEN Blank ELSE l[c].d
               /\ l[col].d = Cont /\ col > 0 /\ Width(l[col - 1].d) = 2 =>
                     \A c \in 0 .. n - 1 : k[c].d = IF c = col - 1 THEN Blank ELSE l[c].d
               /\ Width(l[col].d) # 2 /\ l[col].d # Cont => k = l
<1> DEFINE k == ClearWidePairAt(l, col)
           tail == IF Width(l[col].d) = 2 /\ col + 1 \in DOMAIN l
                   THEN [l EXCEPT ![col + 1].d = Blank] ELSE l
<1>1. k \in [0 .. n - 1 -> Cell]
  BY ClearWidePairAtOK
<1>2. k = IF tail[col].d = Cont /\ col > 0 /\ Width(tail[col - 1].d) = 2
          THEN [tail EXCEPT ![col - 1].d = Blank] ELSE tail
  BY DEF ClearWidePairAt
<1>3. \A m \in [0 .. n - 1 -> Cell], i \in 0 .. n - 1 :
         /\ [m EXCEPT ![i].d = Blank] \in [0 .. n - 1 -> Cell]
         /\ \A c \in 0 .. n - 1 : [m EXCEPT ![i].d = Blank][c].d = IF c = i THEN Blank ELSE m[c].d
  <2>1. Blank \in Seq(Runes)
    BY DEF Blank, Runes
  <2>2. \A x \in Cell : [x EXCEPT !.d = Blank] \in Cell /\ [x EXCEPT !.d = Blank].d = Blank
    BY <2>1 DEF Cell
  <2> QED
    BY <2>2
<1> HIDE DEF k
<1>4. CASE Width(l[col].d) = 2
  <2>1. l[col].d # Cont
    BY <1>4, Widths
  <2>2. tail \in [0 .. n - 1 -> Cell] /\ \A c \in 0 .. n - 1 : tail[c].d = IF c = col + 1 THEN Blank ELSE l[c].d
    <3>1. CASE col + 1 \in 0 .. n - 1
      <4>1. tail = [l EXCEPT ![col + 1].d = Blank]
        BY <1>4, <3>1
      <4> HIDE DEF tail
      <4> QED
        BY <1>3, <3>1, <4>1
    <3>2. CASE col + 1 \notin 0 .. n - 1
      BY <3>2
    <3> QED
      BY <3>1, <3>2
  <2> HIDE DEF tail
  <2>3. tail[col].d = l[col].d
    BY <2>2
  <2>4. k = tail
    BY <1>2, <2>1, <2>3
  <2> QED
    BY <1>1, <1>4, <2>1, <2>2, <2>4 DEF k
<1>5. CASE Width(l[col].d) # 2
  <2>1. tail = l
    BY <1>5
  <2> HIDE DEF tail
  <2>2. CASE l[col].d = Cont /\ col > 0 /\ Width(l[col - 1].d) = 2
    <3>1. k = [l EXCEPT ![col - 1].d = Blank] /\ col - 1 \in 0 .. n - 1
      BY <1>2, <2>1, <2>2
    <3>2. \A c \in 0 .. n - 1 : k[c].d = IF c = col - 1 THEN Blank ELSE l[c].d
      BY <1>3, <3>1
    <3> QED
      BY <1>1, <1>5, <2>2, <3>2 DEF k
  <2>3. CASE ~(l[col].d = Cont /\ col > 0 /\ Width(l[col - 1].d) = 2)
    <3>1. k = l
      BY <1>2, <2>1, <2>3
    <3> QED
      BY <1>1, <1>5, <2>3, <3>1 DEF k
  <2> QED
    BY <2>2, <2>3
<1> QED
  BY <1>4, <1>5

LEMMA PairCleared ==
    ASSUME NEW n \in Nat, NEW l \in [0 .. n - 1 -> Cell], NEW col \in 0 .. n - 1, PairedRow(l)
    PROVE  Cleared(ClearWidePairAt(l, col), n, col)
<1> DEFINE k == ClearWidePairAt(l, col)
<1>1. \A c \in 0 .. n - 1 :
        /\ Width(l[c].d) = 2 /\ c + 1 \in 0 .. n - 1 => l[c + 1].d = Cont
        /\ l[c].d = Cont => c > 0 /\ Width(l[c - 1].d) = 2
  BY DEF PairedRow
<1>2. Width(Cont) = 0 /\ Width(Blank) = 1 /\ Blank # Cont
  BY Widths
<1>3. CASE Width(l[col].d) = 2
  <2>1. \A c \in 0 .. n - 1 : k[c].d = IF c = col + 1 THEN Blank ELSE l[c].d
    BY <1>3, ClearWidePairAtIs
  <2> HIDE DEF k
  <2> QED
    BY <1>1, <1>2, <1>3, <2>1 DEF Cleared, k
<1>4. CASE l[col].d = Cont
  <2>1. col > 0 /\ Width(l[col - 1].d) = 2
    BY <1>1, <1>4
  <2>2. \A c \in 0 .. n - 1 : k[c].d = IF c = col - 1 THEN Blank ELSE l[c].d
    BY <1>4, <2>1, ClearWidePairAtIs
  <2> HIDE DEF k
  <2> QED
    BY <1>1, <1>2, <1>4, <2>1, <2>2 DEF Cleared, k
<1>5. CASE Width(l[col].d) # 2 /\ l[col].d # Cont
  <2>1. k = l
    BY <1>5, ClearWidePairAtIs
  <2> HIDE DEF k
  <2> QED
    BY <1>1, <1>2, <1>5, <2>1 DEF Cleared, k
<1> QED
  BY <1>3, <1>4, <1>5

(* A character one column wide, or a wide one whose continuation has no    *)
(* column left.                                                            *)
LEMMA PutOne ==
    ASSUME NEW n \in Nat, NEW l \in [0 .. n - 1 -> Cell], NEW col \in 0 .. n - 1, PairedRow(l),
           NEW x \in Cell, Width(x.d) = 1 \/ (Width(x.d) = 2 /\ col + 1 = n)
    PROVE  PairedRow([ClearWidePairAt(l, col) EXCEPT ![col] = x])
<1> DEFINE k == ClearWidePairAt(l, col)
           m == [k EXCEPT ![col] = x]
<1>1. k \in [0 .. n - 1 -> Cell] /\ Cleared(k, n, col)
  BY PairCleared, ClearWidePairAtIs
<1> HIDE DEF k
<1>2. DOMAIN m = 0 .. n - 1 /\ \A c \in 0 .. n - 1 : m[c] = IF c = col THEN x ELSE k[c]
  BY <1>1
<1>3. x.d # Cont /\ (col + 1 \in 0 .. n - 1 => Width(x.d) # 2)
  BY Widths
<1> HIDE DEF m
<1>4. PairedRow(m)
  BY <1>1, <1>2, <1>3 DEF Cleared, PairedRow
<1> QED
  BY <1>4 DEF m, k

(* A wide character and its continuation. *)
LEMMA PutTwo ==
    ASSUME NEW n \in Nat, NEW l \in [0 .. n - 1 -> Cell], NEW col \in 0 .. n - 1, PairedRow(l),
           col + 1 < n, NEW x \in Cell, Width(x.d) = 2, NEW y \in Cell, y.d = Cont
    PROVE  PairedRow([[ClearWidePairAt(ClearWidePairAt(l, col), col + 1)
                         EXCEPT ![col + 1] = y] EXCEPT ![col] = x])
<1> DEFINE k == ClearWidePairAt(l, col)
           j == ClearWidePairAt(k, col + 1)
           m == [[j EXCEPT ![col + 1] = y] EXCEPT ![col] = x]
<1>1. k \in [0 .. n - 1 -> Cell] /\ Cleared(k, n, col)
  BY PairCleared, ClearWidePairAtIs
<1> HIDE DEF k
<1>2. col + 1 \in 0 .. n - 1 /\ col + 1 # col
  OBVIOUS
<1>3. k[col + 1].d # Cont
  BY <1>1, <1>2 DEF Cleared
<1>4. /\ j \in [0 .. n - 1 -> Cell]
      /\ Width(k[col + 1].d) = 2 =>
            \A c \in 0 .. n - 1 : j[c].d = IF c = col + 2 THEN Blank ELSE k[c].d
      /\ Width(k[col + 1].d) # 2 => j = k
  <2>1. (col + 1) + 1 = col + 2
    OBVIOUS
  <2> QED
    BY <1>1, <1>2, <1>3, <2>1, ClearWidePairAtIs
<1> HIDE DEF j
<1>5. DOMAIN m = 0 .. n - 1
      /\ \A c \in 0 .. n - 1 : m[c] = IF c = col THEN x ELSE IF c = col + 1 THEN y ELSE j[c]
  BY <1>2, <1>4
<1> HIDE DEF m
<1>6. x.d # Cont /\ Width(y.d) = 0 /\ Blank # Cont /\ Width(Blank) = 1
  BY Widths
<1>7. ASSUME NEW c \in 0 .. n - 1, Width(m[c].d) = 2, c + 1 \in 0 .. n - 1 PROVE m[c + 1].d = Cont
  <2>1. CASE c = col
    BY <1>2, <1>5, <2>1
  <2>2. CASE c # col
    <3>1. c # col + 1 /\ m[c] = j[c]
      BY <1>2, <1>5, <1>6, <1>7, <2>2
    <3>2. Width(k[c].d) = 2 /\ (c # col + 2 \/ j = k)
      BY <1>4, <1>6, <1>7, <3>1
    <3>3. c + 1 # col /\ k[c + 1].d = Cont
      BY <1>1, <1>7, <2>2, <3>2 DEF Cleared
    <3>4. c + 1 # col + 1 /\ c + 1 # col + 2
      BY <2>2, <3>1
    <3>5. m[c + 1] = j[c + 1] /\ j[c + 1].d = k[c + 1].d
      BY <1>4, <1>5, <1>7, <3>3, <3>4
    <3> QED
      BY <3>3, <3>5
  <2> QED
    BY <2>1, <2>2
<1>8. ASSUME NEW c \in 0 .. n - 1, m[c].d = Cont PROVE c > 0 /\ Width(m[c - 1].d) = 2
  <2>1. CASE c = col + 1
    BY <1>2, <1>5, <2>1
  <2>2. CASE c # col + 1
    <3>1. c # col /\ m[c] = j[c]
      BY <1>5, <1>6, <1>8, <2>2
    <3>2. k[c].d = Cont /\ (Width(k[col + 1].d) = 2 => c # col + 2)
      BY <1>4, <1>6, <1>8, <3>1
    <3>3. c > 0 /\ c - 1 # col /\ Width(k[c - 1].d) = 2
      BY <1>1, <3>1, <3>2 DEF Cleared
    <3>4. c - 1 # col + 1
      <4> SUFFICES ASSUME c - 1 = col + 1 PROVE FALSE
        OBVIOUS
      <4>1. c = col + 2 /\ Width(k[col + 1].d) = 2
        BY <3>3
      <4> QED
        BY <3>2, <4>1
    <3>5. c - 1 \in 0 .. n - 1 /\ m[c - 1] = j[c - 1]
      BY <1>5, <3>3, <3>4
    <3>6. j[c - 1].d = k[c - 1].d
      <4>1. CASE Width(k[col + 1].d) = 2
        <5>1. c - 1 # col + 2
          <6> SUFFICES ASSUME c - 1 = col + 2 PROVE FALSE
            OBVIOUS
          <6>1. col + 1 \in (0 .. n - 1) \ {col} /\ (col + 1) + 1 = c - 1 /\ c - 1 \in 0 .. n - 1
            BY <1>2, <3>5
          <6>2. k[c - 1].d = Cont
            BY <1>1, <4>1, <6>1 DEF Cleared
          <6> QED
            BY <3>3, <6>2, Widths
        <5> QED
          BY <1>4, <3>5, <4>1, <5>1
      <4>2. CASE Width(k[col + 1].d) # 2
        BY <1>4, <4>2
      <4> QED
        BY <4>1, <4>2
    <3> QED
      BY <3>3, <3>5, <3>6
  <2> QED
    BY <2>1, <2>2
<1>9. PairedRow(m)
  BY <1>5, <1>7, <1>8 DEF PairedRow
<1> QED
  BY <1>9 DEF m, j, k

LEMMA PutClusterWhole ==
    ASSUME NEW s, Free(s), Whole(s), s.col < s.columns, NEW x \in Seq(Runes), Width(x) > 0
    PROVE  Whole(PutCluster(s, x)) /\ PutCluster(s, x).panicked = s.panicked
<1> DEFINE l == s.buf[s.row]
           n == s.columns
           here == [d |-> x, a |-> s.attr]
           next == [d |-> Cont, a |-> s.attr]
           one == ClearWidePairAt(l, s.col)
           wide == [ClearWidePairAt(one, s.col + 1) EXCEPT ![s.col + 1] = next]
           two == IF Width(x) = 2 /\ s.col + 1 < n THEN wide ELSE one
           line == [two EXCEPT ![s.col] = here]
<1>1. /\ ScreenOK(s) /\ HasFields(s) /\ n \in Nat /\ s.lines \in Nat /\ s.attr \in SUBSET Flags
      /\ s.row \in 0 .. s.lines - 1 /\ s.col \in 0 .. n - 1 /\ DOMAIN s.buf = 0 .. s.lines - 1
  <2>1. ScreenOK(s) /\ HasFields(s) /\ n \in Nat /\ s.lines \in Nat /\ s.col \in Nat
    BY DEF Free, ScreenOK, Afloat
  <2>2. s.attr \in SUBSET Flags /\ s.row \in 0 .. s.lines - 1
    BY <2>1 DEF ScreenOK, Afloat
  <2>3. s.col \in 0 .. n - 1
    BY <2>1
  <2> QED
    BY <2>1, <2>2, <2>3, CellsOf
<1>2. l \in [0 .. n - 1 -> Cell] /\ PairedRow(l)
  BY <1>1, CellsOf DEF Whole
<1>3. here \in Cell /\ next \in Cell /\ here.d = x /\ next.d = Cont
  <2>1. <<>> \in Seq(Runes)
    OBVIOUS
  <2> QED
    BY <1>1, <2>1, CellOK DEF Cont
<1>4. PutCluster(s, x) = SetLine(s, s.row, line)
  <2>1. ~(s.col >= s.columns)
    BY <1>1
  <2> QED
    BY <2>1 DEF PutCluster
<1>5. Width(x) \in {1, 2}
  BY WidthIs
<1> HIDE DEF l, n, here, next
<1>6. PairedRow(line)
  <2>1. CASE Width(x) = 2 /\ s.col + 1 < n
    BY <1>1, <1>2, <1>3, <2>1, PutTwo
  <2>2. CASE ~(Width(x) = 2 /\ s.col + 1 < n)
    <3>1. line = [one EXCEPT ![s.col] = here]
      BY <2>2
    <3>2. Width(x) = 1 \/ (Width(x) = 2 /\ s.col + 1 = n)
      BY <1>1, <1>5, <2>2
    <3> HIDE DEF line
    <3> QED
      BY <1>1, <1>2, <1>3, <3>1, <3>2, PutOne
  <2> QED
    BY <2>1, <2>2
<1> HIDE DEF line
<1> DEFINE t == [s EXCEPT !.buf[s.row] = line]
<1>7. t.lines = s.lines /\ t.panicked = s.panicked /\ t.buf = [s.buf EXCEPT ![s.row] = line]
  BY <1>1 DEF HasFields
<1>8. \A r \in 0 .. s.lines - 1 : t.buf[r] = IF r = s.row THEN line ELSE s.buf[r]
  BY <1>1, <1>7
<1>9. PutCluster(s, x) = t
  BY <1>4 DEF SetLine
<1> HIDE DEF t
<1> QED
  BY <1>6, <1>7, <1>8, <1>9 DEF Whole

LEMMA AdvanceWhole ==
    ASSUME NEW s, ScreenOK(s), Whole(s), NEW x \in Seq(Runes) PROVE Whole(Advance(s, x))
<1> DEFINE t == [s EXCEPT !.lastDrawn = x]
           m == MarkWrapped(t)
<1>1. HasFields(s)
  BY DEF ScreenOK, Afloat
<1>2. ScreenOK(t) /\ t.buf = s.buf /\ t.lines = s.lines
  BY <1>1 DEF ScreenOK, Afloat, HasFields
<1>3. m.buf = s.buf /\ m.lines = s.lines /\ HasFields(m) /\ HasFields(t)
  BY <1>2, MarkWrappedOK, MarkWrappedWhole DEF ScreenOK, Afloat
<1>4. \/ \E c : Advance(s, x) = [t EXCEPT !.col = c]
      \/ Advance(s, x) = m
      \/ \E c : Advance(s, x) = [m EXCEPT !.wrapNext = TRUE, !.col = c]
  <2>1. /\ s.col + Width(x) <= DrawLimit(s) \/ s.col + Width(x) > DrawLimit(s)
        /\ ~(s.col + Width(x) <= DrawLimit(s) /\ s.col + Width(x) > DrawLimit(s))
    <3>1. s.col \in Nat /\ s.columns \in Nat /\ s.rightMargin \in Nat
      BY DEF ScreenOK, Afloat
    <3> QED
      BY <3>1, WidthIs, SMTT(30) DEF DrawLimit
  <2>2. CASE s.col + Width(x) <= DrawLimit(s)
    <3> DEFINE next == s.col + Width(x)
               limit == DrawLimit(s)
    <3>1. Advance(s, x) = [t EXCEPT !.col = next]
      <4>1. next <= limit /\ ~(next > limit)
        BY <2>1, <2>2
      <4> QED
        BY <4>1 DEF Advance, Then
    <3> HIDE DEF t
    <3> QED
      BY <3>1, Zenon
  <2>3. CASE s.col + Width(x) > DrawLimit(s) /\ Has(s, "DECAWM")
    <3>1. Advance(s, x) = IF m.panicked THEN m ELSE [m EXCEPT !.wrapNext = TRUE, !.col = DrawLimit(s) + 1]
      BY <2>1, <2>3 DEF Advance, Then
    <3> HIDE DEF m
    <3> QED
      BY <3>1, Zenon
  <2>4. CASE s.col + Width(x) > DrawLimit(s) /\ ~Has(s, "DECAWM")
    <3>1. Advance(s, x) = [t EXCEPT !.col = IF Has(s, "DECLRMM") THEN DrawLimit(s) ELSE DrawLimit(s) + 1]
      BY <2>1, <2>4 DEF Advance
    <3> HIDE DEF t
    <3> QED
      BY <3>1, Zenon
  <2> QED
    BY <2>1, <2>2, <2>3, <2>4, Zenon
<1> HIDE DEF t, m
<1>5. Advance(s, x).buf = s.buf /\ Advance(s, x).lines = s.lines
  BY <1>2, <1>3, <1>4, Zenon DEF HasFields
<1> QED
  BY <1>5 DEF Whole

LEMMA DrawWideWhole ==
    ASSUME NEW s, Free(s), Whole(s), ~s.panicked, NEW x \in Seq(Runes), Width(x) > 0,
           Width(x) = 2 => s.buf[s.row][s.columns - 1].d # Cont
    PROVE  Whole(DrawWide(s, x))
<1> DEFINE w == IF s.wrapNext THEN WrapPending(s) ELSE s
           c == MinOf(w.col, DrawLimit(s))
           t == [w EXCEPT !.col = c]
           fits == ~(/\ Width(x) = 2 /\ t.col = DrawLimit(t) /\ t.col > 0
                     /\ t.row < t.lines - 1 /\ Has(t, "DECAWM"))
           u == IF fits THEN t ELSE WrapWide(t)
           v == IF u.panicked THEN u ELSE PutCluster(u, x)
<1>1. ScreenOK(s) /\ HasFields(s) /\ s.columns \in Nat \ {0} /\ s.col \in Nat
  BY DEF Free, ScreenOK, Afloat
<1>2. /\ Free(w) /\ Whole(w) /\ w.columns = s.columns /\ w.lines = s.lines /\ ~w.panicked /\ w.col \in Nat
      /\ w = s \/ w.col = 0
  <2> DEFINE y == [s EXCEPT !.wrapNext = FALSE]
             z == LineFeed(CarriageReturn(y))
  <2>1. WrapPending(s) = z
    BY DEF WrapPending
  <2>2. Steady(s, y) /\ y.buf = s.buf /\ y.lines = s.lines
    BY <1>1, Moves, Zenon DEF HasFields
  <2> HIDE DEF y
  <2>3. Free(y) /\ Whole(y)
    BY <2>2, FreeStays DEF Steady, Calm, Whole
  <2>4. Free(z) /\ Whole(z) /\ z.col = 0
    BY <2>3, FeedWhole
  <2>5. Steady(s, z)
    BY <2>2, <2>3, FeedOK, SteadyTwice DEF Free
  <2> HIDE DEF z
  <2>6. z.columns = s.columns /\ z.lines = s.lines /\ ~z.panicked
    BY <2>5 DEF Steady, Calm, Kept
  <2> QED
    BY <1>1, <2>1, <2>4, <2>6
<1> HIDE DEF w
<1>3. DrawLimit(s) = s.columns - 1 /\ DrawLimit(t) = t.columns - 1
  <2>1. t.mode = w.mode
    BY <1>2 DEF Free, ScreenOK, Afloat, HasFields
  <2> QED
    BY <1>2, <2>1 DEF DrawLimit, Free, Has
<1>4. c \in 0 .. s.columns - 1 /\ (c > 0 => w = s)
  BY <1>1, <1>2, <1>3 DEF MinOf
<1> HIDE DEF c
<1>5. ScreenOK(w) /\ HasFields(w)
  BY <1>2 DEF Free, ScreenOK, Afloat
<1>6. /\ Steady(w, t) /\ t.buf = w.buf /\ t.lines = w.lines /\ t.col = c /\ t.row = w.row
      /\ t.columns = s.columns /\ t.panicked = w.panicked
  <2>1. c \in Nat
    BY <1>4
  <2>2. /\ t.buf = w.buf /\ t.lines = w.lines /\ t.col = c /\ t.row = w.row
        /\ t.columns = w.columns /\ t.panicked = w.panicked
    BY <1>5 DEF HasFields
  <2>3. Steady(w, t)
    BY <1>5, <2>1, Moves, Zenon
  <2> QED
    BY <1>2, <2>2, <2>3
<1> HIDE DEF t
<1>7. Free(t) /\ Whole(t)
  BY <1>2, <1>6, FreeStays DEF Steady, Calm, Whole
<1>8. MakeRoom(t, Width(x)) = u
  <2>1. CASE fits
    <3>1. ~Has(t, "IRM")
      BY <1>7 DEF Free
    <3> QED
      BY <2>1, <3>1 DEF MakeRoom, Then
  <2>2. CASE ~fits
    <3>1. t.col < t.columns
      BY <1>1, <1>4, <1>6
    <3>2. ~Has(WrapWide(t), "IRM")
      BY <1>2, <1>6, <1>7, WrapWideOK DEF Free, Kept, Has
    <3> QED
      BY <2>2, <3>2 DEF MakeRoom, Then
  <2> QED
    BY <2>1, <2>2
<1>9. Free(u) /\ Whole(u) /\ (~u.panicked => u.col < u.columns)
  <2>1. CASE fits
    <3>1. t.col < t.columns
      BY <1>1, <1>4, <1>6
    <3> QED
      BY <1>7, <2>1, <3>1
  <2>2. CASE ~fits
    <3>1. Width(x) = 2 /\ t.col = t.columns - 1 /\ t.col > 0
      BY <1>3, <2>2
    <3>2. w = s /\ t.buf[t.row][t.columns - 1].d # Cont
      BY <1>4, <1>6, <3>1
    <3>3. Whole(WrapWide(t)) /\ Free(WrapWide(t)) /\ (~WrapWide(t).panicked => WrapWide(t).col = 0)
      BY <1>2, <1>6, <1>7, <3>1, <3>2, WrapWideWhole
    <3>4. WrapWide(t).columns \in Nat \ {0}
      BY <3>3 DEF Free, ScreenOK, Afloat
    <3> QED
      BY <2>2, <3>3, <3>4
  <2> QED
    BY <2>1, <2>2
<1> HIDE DEF fits, u
<1>10. Whole(v) /\ ScreenOK(v)
  BY <1>9, PutClusterWhole, PutClusterOK DEF Free
<1>11. DrawWide(s, x) = IF v.panicked THEN v ELSE Advance(v, x)
  BY <1>8 DEF DrawWide, Then, w, t, c
<1> HIDE DEF v
<1> QED
  BY <1>10, <1>11, AdvanceWhole

(* The character set changes letters, not widths. *)
LEMMA TranslateWidth ==
    ASSUME NEW s, NEW x \in Seq(Runes) PROVE Width(Translate(s, x)) = Width(x)
<1> DEFINE y == [i \in DOMAIN x |-> IF x[i] = "a" THEN "line" ELSE x[i]]
<1>1. DOMAIN y = DOMAIN x
  OBVIOUS
<1>2. \A i \in DOMAIN x : y[i] = "W" <=> x[i] = "W"
  OBVIOUS
<1>3. \A i \in DOMAIN x : y[i] \in {"+", "z"} <=> x[i] \in {"+", "z"}
  OBVIOUS
<1>4. Translate(s, x) = x \/ Translate(s, x) = y
  BY DEF Translate
<1> HIDE DEF y
<1>5. (\E i \in DOMAIN y : y[i] = "W") <=> (\E i \in DOMAIN x : x[i] = "W")
  BY <1>1, <1>2
<1>6. (\A i \in DOMAIN y : y[i] \in {"+", "z"}) <=> (\A i \in DOMAIN x : x[i] \in {"+", "z"})
  BY <1>1, <1>3
<1>7. Width(y) = Width(x)
  BY <1>5, <1>6 DEF Width
<1> QED
  BY <1>4, <1>7

LEMMA DrawnWhole ==
    ASSUME NEW s, Free(s), Whole(s), ~s.panicked, NEW x \in Seq(Runes), Width(x) > 0,
           Width(x) = 2 => s.buf[s.row][s.columns - 1].d # Cont
    PROVE  Whole(Draw(s, <<x>>))
<1> DEFINE b == [s |-> s, stop |-> FALSE]
           y == Translate(s, x)
<1>1. Draw(s, <<x>>) = DrawLaws!Fold(s, b, <<x>>).s
  BY DEF Draw, FoldLeft, MapThenFoldSet, Max, DrawLaws!Fold, DrawLaws!Greatest, DrawStep
<1>2. DrawLaws!Fold(s, b, <<x>>) = DrawStep(s, b, x)
  BY RepeatInduction, DrawLaws!FoldSingle
<1>3. y \in Seq(Runes) /\ Width(y) = Width(x)
  BY TranslateOK, TranslateWidth
<1>4. DrawStep(s, b, x).s = DrawWide(s, y)
  BY <1>3 DEF DrawStep
<1> HIDE DEF b, y
<1>5. Whole(DrawWide(s, y))
  BY <1>3, DrawWideWhole
<1> QED
  BY <1>1, <1>2, <1>4, <1>5

(* Drawing a character over one half of a wide one blanks the other half,  *)
(* through wraps and scrolling, wherever the cursor is: Draw never leaves a *)
(* head or a continuation alone (clearWidePairAt in Draw).                 *)
THEOREM DrawnPairsIntact == Spec => DrawKeepsPairs
<1>1. ASSUME Invariant, NEW c \in {<<"a">>, <<"W">>, <<"a", "+">>},
             Output(Text(c)), DrawsAlone(c), ~WrappedHalf(c), PairsIntact(h.s.buf)
      PROVE  PairsIntact(h'.s.buf)
  <2> DEFINE g == [h EXCEPT !.s.reply = <<>>]
             s == g.s
             d == Draw(s, <<c>>)
             f == Lift(g, d)
  <2>1. HistoryOK(h) /\ ~h.s.panicked /\ HasFields(h.s) /\ TopOK(h)
    BY <1>1 DEF Invariant, Output, MayStep, HistoryOK, Fine, ScreenOK, Afloat
  <2>2. HistoryOK(g) /\ ~s.panicked
    BY <2>1, AnsweredOK
  <2>3. s.buf = h.s.buf /\ s.mode = h.s.mode /\ s.row = h.s.row /\ s.columns = h.s.columns
    BY <2>1 DEF HasFields, TopOK
  <2>4. c \in Seq(Runes) /\ Width(c) > 0
    <3> DEFINE N == {"a", "W", "+"}
    <3>1. N \subseteq Runes
      BY DEF Runes
    <3>2. <<"a">> \in Seq(N) /\ <<"W">> \in Seq(N) /\ <<"a", "+">> \in Seq(N)
      OBVIOUS
    <3> HIDE DEF N
    <3>3. \A x \in Seq(N) : x \in Seq(Runes)
      BY <3>1
    <3>4. Width(c) > 0
      <4>1. 1 \in DOMAIN c /\ c[1] \in {"a", "W"}
        BY <1>1
      <4>2. c[1] \notin {"+", "z"}
        BY <4>1
      <4> QED
        BY <4>1, <4>2 DEF Width
    <3> QED
      BY <1>1, <3>2, <3>3, <3>4
  <2>5. h' = Replay(g, <<Text(c)>>)
    BY <1>1 DEF Output
  <2>6. ScreenOK(s) /\ TopOK(g)
    BY <2>2 DEF HistoryOK, Fine
  <2>7. Free(s) /\ Whole(s)
    <3>1. ~Has(s, "DECLRMM") /\ ~Has(s, "IRM")
      BY <1>1, <2>3 DEF DrawsAlone, Has
    <3> QED
      BY <1>1, <2>3, <2>6, <3>1, WholeIs DEF Free
  <2>8. Width(c) = 2 => s.buf[s.row][s.columns - 1].d # Cont
    BY <1>1, <2>3 DEF WrappedHalf
  <2> HIDE DEF g
  <2>9. Whole(d)
    BY <2>2, <2>4, <2>7, <2>8, DrawnWhole
  <2>10. Fine(d)
    <3>1. <<c>> \in Seq(Seq(Runes))
      BY <2>4
    <3> QED
      BY <2>2, <2>6, <3>1, DrawOK
  <2>11. Replay(g, <<Text(c)>>) = Perform(g, Text(c))
    <3> DEFINE e == Text(c)
    <3>1. Replay(g, <<e>>) = ReplayLaws!Fold(0, g, <<e>>)
      BY DEF Replay, FoldLeft, MapThenFoldSet, Max, ReplayLaws!Fold, ReplayLaws!Greatest, ReplayStep
    <3> HIDE DEF e
    <3>2. ReplayLaws!Fold(0, g, <<e>>) = ReplayStep(0, g, e)
      BY ReplayInduction, ReplayLaws!FoldSingle
    <3>3. ReplayStep(0, g, e) = Perform(g, e)
      BY <2>2 DEF ReplayStep
    <3> QED
      BY <3>1, <3>2, <3>3 DEF e
  <2>12. Perform(g, Text(c)) = AfterEvent(f)
    <3>1. Text(c)[1] = "Draw" /\ Text(c)[2] = <<c>>
      BY DEF Text
    <3>2. Perform(g, Text(c)) = AfterEvent(Lift(g, EditOp(s, Text(c))))
      <4> DEFINE e == Text(c)
      <4>1. e[1] \in EditOps
        BY <3>1 DEF EditOps
      <4> HIDE DEF e
      <4> QED
        BY <4>1 DEF Perform, PlainOps, CursorOps, EditOps, ReportOps, e
    <3>3. EditOp(s, Text(c)) = d
      BY <3>1 DEF EditOp
    <3> QED
      BY <3>2, <3>3
  <2> HIDE DEF d
  <2>13. f.s = d /\ "s" \in DOMAIN f
    BY <2>6 DEF Lift, TopOK
  <2> HIDE DEF f
  <2>14. AfterEvent(f).s.buf = d.buf
    BY <2>10, <2>13 DEF AfterEvent, Fine, ScreenOK, Afloat, HasFields
  <2>15. PairsIntact(d.buf)
    BY <2>9, <2>10, WholeIs DEF Fine
  <2> QED
    BY <2>5, <2>11, <2>12, <2>14, <2>15
<1>2. Invariant /\ [Next]_vars =>
        [\A c \in {<<"a">>, <<"W">>, <<"a", "+">>} :
           Output(Text(c)) /\ DrawsAlone(c) /\ ~WrappedHalf(c) /\ PairsIntact(h.s.buf)
               => PairsIntact(h'.s.buf)]_vars
  BY <1>1
<1> QED
  BY <1>2, ScreenWellFormed, PTL DEF Spec, DrawKeepsPairs

-----------------------------------------------------------------------------
(* What a shell has printed.  Each of its lines is one digit in the first  *)
(* column; a full-screen program leaves only "#" there.                    *)

Digits == {"1", "2", "3", "4", "5", "6", "7", "8", "9"}
Written == {<<x>> : x \in Digits}
PlainRow(row) ==
    /\ row \in Row
    /\ \A c \in DOMAIN row : IF c = 0 THEN row[c].d \in {Blank, <<"#">>} \union Written ELSE row[c].d = Blank
Mute(row) == 0 \in DOMAIN row => row[0].d \notin Written

LEMMA LinesOfOne ==
    /\ LinesOf(<<>>) = <<>> /\ LinesOf(Blank) = <<>> /\ LinesOf(<<"#">>) = <<>>
    /\ \A x \in Digits : LinesOf(<<x>>) = <<x>>
<1>1. LinesOf(<<>>) = <<>>
  BY TextInduction, LinesLaws!FoldEmpty DEF LinesOf
<1>2. \A x : LinesOf(<<x>>) = LinesStep(0, <<>>, x)
  BY TextInduction, LinesLaws!FoldSingle, Zenon DEF LinesOf
<1>3. LinesOf(Blank) = <<>> /\ LinesOf(<<"#">>) = <<>>
  BY <1>2, Zenon DEF LinesStep, Blank
<1>4. ASSUME NEW x \in Digits PROVE LinesOf(<<x>>) = <<x>>
  <2>1. x \notin {" ", "#"}
    BY Zenon DEF Digits
  <2>2. Append(<<>>, x) = <<x>>
    OBVIOUS
  <2>3. LinesOf(<<x>>) = Append(<<>>, x)
    BY <1>2, <2>1, Zenon DEF LinesStep
  <2> QED
    BY <2>2, <2>3
<1> QED
  BY <1>1, <1>3, <1>4

(* The text of a row of the shell is the digit in its first cell. *)
LEMMA RowTextDigit ==
    ASSUME NEW row, PlainRow(row)
    PROVE  RowText(row) = IF Mute(row) THEN <<>> ELSE row[0].d
<1>1. PICK n \in Nat : row \in [0 .. n - 1 -> Cell]
  BY DEF PlainRow, Row
<1>2. RowText(row) = LinesOf(Seen(row, n).text)
  BY <1>1, RowTextIs
<1>3. CASE n = 0
  <2>1. DOMAIN row = {}
    BY <1>1, <1>3
  <2>2. Mute(row)
    BY <2>1 DEF Mute
  <2>3. Seen(row, n).text = <<>>
    BY <1>3, SeenNext DEF NoText
  <2> QED
    BY <1>2, <2>2, <2>3, LinesOfOne
<1>4. CASE n # 0
  <2> DEFINE d == row[0].d
  <2>1. 0 \in DOMAIN row /\ \A c \in 1 .. n - 1 : c \in DOMAIN row /\ c # 0
    BY <1>1, <1>4
  <2>2. d \in {Blank, <<"#">>} \union Written /\ \A c \in 1 .. n - 1 : row[c].d \in {Cont, Blank}
    BY <2>1 DEF PlainRow
  <2>3. LinesOf(Seen(row, n).text) = LinesOf(Seen(row, 1).text)
    <3>1. 1 \in 0 .. n
      BY <1>4
    <3> QED
      BY <1>1, <2>2, <3>1, SeenQuiet
  <2>4. Seen(row, 1) = SeenStep(row, NoText, 0)
    <3>1. Seen(row, 0 + 1) = SeenStep(row, Seen(row, 0), 0) /\ Seen(row, 0) = NoText
      BY SeenNext
    <3> QED
      BY <3>1
  <2> HIDE DEF d
  <2>5. PICK x : d = <<x>>
    BY <2>2, Zenon DEF Written, Blank
  <2>6. d # Cont /\ <<>> \o d = d
    BY <2>5 DEF Cont
  <2>7. Seen(row, 1).text = d
    <3>1. ~(0 < NoText.next) /\ NoText.text = <<>>
      BY DEF NoText
    <3> QED
      BY <2>4, <2>6, <3>1 DEF SeenStep, d
  <2>8. CASE d \in Written
    <3>1. ~Mute(row)
      BY <2>1, <2>8 DEF Mute, d
    <3>2. LinesOf(d) = d
      BY <2>8, LinesOfOne DEF Written
    <3> QED
      BY <1>2, <2>3, <2>7, <3>1, <3>2 DEF d
  <2>9. CASE d \notin Written
    <3>1. Mute(row)
      BY <2>9 DEF Mute, d
    <3>2. LinesOf(d) = <<>>
      BY <2>2, <2>9, LinesOfOne
    <3> QED
      BY <1>2, <2>3, <2>7, <3>1, <3>2
  <2> QED
    BY <2>8, <2>9
<1> QED
  BY <1>3, <1>4

LEMMA RowTextType ==
    ASSUME NEW row, PlainRow(row)
    PROVE  RowText(row) \in Seq(Digits) /\ (Mute(row) => RowText(row) = <<>>)
<1>1. \A x \in Digits : <<x>> \in Seq(Digits)
  OBVIOUS
<1>2. <<>> \in Seq(Digits)
  OBVIOUS
<1>3. ~Mute(row) => row[0].d \in Written
  BY DEF Mute
<1>4. ~Mute(row) => row[0].d \in Seq(Digits)
  BY <1>1, <1>3 DEF Written
<1> QED
  BY <1>2, <1>4, RowTextDigit

(* The text of n rows of b, from row i on.                                  *)
SpellStep(p, text, row) == text \o RowText(row)
SpellLaws == INSTANCE FoldLaws WITH Op <- SpellStep
LEMMA SpellInduction == SpellLaws!Induction
  BY NaturalInduction DEF SpellLaws!Induction
RowsIn(b, i, n) == [k \in 1 .. n |-> b[i + k - 1]]
Spell(b, i, n) == SpellLaws!Fold(0, <<>>, RowsIn(b, i, n))
PlainIn(b, i, n) == \A k \in i .. i + n - 1 : PlainRow(b[k])
MuteIn(b, i, n) == \A k \in i .. i + n - 1 : Mute(b[k])

LEMMA SpellNext ==
    ASSUME NEW b, NEW i \in Nat, NEW n \in Nat
    PROVE  Spell(b, i, 0) = <<>> /\ Spell(b, i, n + 1) = Spell(b, i, n) \o RowText(b[i + n])
<1> DEFINE E == {b[i + k] : k \in 0 .. n}
           q == RowsIn(b, i, n)
           z == RowsIn(b, i, 0)
           e == b[i + n]
<1>1. e \in E
  OBVIOUS
<1>2. \A k \in 1 .. n : b[i + k - 1] \in E
  <2> SUFFICES ASSUME NEW k \in 1 .. n PROVE b[i + k - 1] \in E
    OBVIOUS
  <2>1. k - 1 \in 0 .. n /\ i + (k - 1) = i + k - 1
    OBVIOUS
  <2> QED
    BY <2>1
<1>3. q \in Seq(E) /\ Len(q) = n
  <2> HIDE DEF E
  <2> QED
    BY <1>2 DEF RowsIn
<1>4. RowsIn(b, i, n + 1) = Append(q, e)
  <2>1. i + (n + 1) - 1 = i + n
    OBVIOUS
  <2> HIDE DEF E
  <2> QED
    BY <2>1 DEF RowsIn
<1>5. z = <<>>
  BY DEF RowsIn
<1> HIDE DEF E, q, e, z
<1>6. SpellLaws!Fold(0, <<>>, Append(q, e)) = SpellStep(0, SpellLaws!Fold(0, <<>>, q), e)
  BY <1>1, <1>3, SpellInduction, SpellLaws!FoldAppend
<1>7. SpellLaws!Fold(0, <<>>, z) = <<>>
  BY <1>5, SpellInduction, SpellLaws!FoldEmpty
<1> QED
  BY <1>4, <1>6, <1>7 DEF Spell, SpellStep, q, e, z

LEMMA SpellType ==
    ASSUME NEW b, NEW i \in Nat, NEW n \in Nat, PlainIn(b, i, n)
    PROVE  Spell(b, i, n) \in Seq(Digits)
<1> DEFINE S == {k \in Nat : k <= n => Spell(b, i, k) \in Seq(Digits)}
<1>1. 0 \in S
  <2>1. <<>> \in Seq(Digits)
    OBVIOUS
  <2> QED
    BY <2>1, SpellNext
<1>2. ASSUME NEW k \in Nat, k \in S PROVE k + 1 \in S
  <2> SUFFICES ASSUME k + 1 <= n PROVE Spell(b, i, k + 1) \in Seq(Digits)
    OBVIOUS
  <2>1. Spell(b, i, k) \in Seq(Digits)
    BY <1>2
  <2>2. RowText(b[i + k]) \in Seq(Digits)
    <3>1. i + k \in i .. i + n - 1
      OBVIOUS
    <3> QED
      BY <3>1, RowTextType DEF PlainIn
  <2> QED
    BY <2>1, <2>2, SpellNext, ConcatProperties
<1>3. Nat \subseteq S
  <2> HIDE DEF S
  <2> QED
    BY <1>1, <1>2, SpellInduction, SpellLaws!SetInduction
<1> QED
  BY <1>3

(* Rows with the same text, one by one, spell the same. *)
AlikeIn(b, i, d, j, n) == \A k \in 0 .. n - 1 : RowText(b[i + k]) = RowText(d[j + k])
LEMMA SpellSame ==
    ASSUME NEW b, NEW i \in Nat, NEW d, NEW j \in Nat, NEW n \in Nat, AlikeIn(b, i, d, j, n)
    PROVE  Spell(b, i, n) = Spell(d, j, n)
<1> DEFINE S == {k \in Nat : k <= n => Spell(b, i, k) = Spell(d, j, k)}
<1>1. 0 \in S
  BY SpellNext
<1>2. ASSUME NEW k \in Nat, k \in S PROVE k + 1 \in S
  <2> SUFFICES ASSUME k + 1 <= n PROVE Spell(b, i, k + 1) = Spell(d, j, k + 1)
    OBVIOUS
  <2>1. Spell(b, i, k) = Spell(d, j, k) /\ RowText(b[i + k]) = RowText(d[j + k])
    BY <1>2 DEF AlikeIn
  <2>2. Spell(b, i, k + 1) = Spell(b, i, k) \o RowText(b[i + k])
    BY SpellNext
  <2>3. Spell(d, j, k + 1) = Spell(d, j, k) \o RowText(d[j + k])
    BY SpellNext
  <2> QED
    BY <2>1, <2>2, <2>3
<1>3. Nat \subseteq S
  <2> HIDE DEF S
  <2> QED
    BY <1>1, <1>2, SpellInduction, SpellLaws!SetInduction
<1> QED
  BY <1>3

LEMMA SpellMute ==
    ASSUME NEW b, NEW i \in Nat, NEW n \in Nat, PlainIn(b, i, n), MuteIn(b, i, n)
    PROVE  Spell(b, i, n) = <<>>
<1> DEFINE S == {k \in Nat : k <= n => Spell(b, i, k) = <<>>}
<1>1. 0 \in S
  BY SpellNext
<1>2. ASSUME NEW k \in Nat, k \in S PROVE k + 1 \in S
  <2> SUFFICES ASSUME k + 1 <= n PROVE Spell(b, i, k + 1) = <<>>
    OBVIOUS
  <2>1. Spell(b, i, k) = <<>>
    BY <1>2
  <2>2. RowText(b[i + k]) = <<>>
    <3>1. i + k \in i .. i + n - 1
      OBVIOUS
    <3> QED
      BY <3>1, RowTextType DEF PlainIn, MuteIn
  <2>3. <<>> \o <<>> = <<>>
    OBVIOUS
  <2> QED
    BY <2>1, <2>2, <2>3, SpellNext
<1>3. Nat \subseteq S
  <2> HIDE DEF S
  <2> QED
    BY <1>1, <1>2, SpellInduction, SpellLaws!SetInduction
<1> QED
  BY <1>3

(* The rows of a first part, then those of a second one. *)
Splits(b, i, m, j, n, l) ==
    /\ Spell(b, i, l) = Spell(b, i, m) \o Spell(b, j, n)
    /\ PlainIn(b, i, m) /\ PlainIn(b, j, n)
    /\ Spell(b, i, m) \in Seq(Digits) /\ Spell(b, j, n) \in Seq(Digits)
LEMMA SpellTwo ==
    ASSUME NEW b, NEW i \in Nat, NEW m \in Nat, NEW n \in Nat, NEW j \in Nat, j = i + m, NEW l \in Nat, l = m + n,
           PlainIn(b, i, l)
    PROVE  Splits(b, i, m, j, n, l)
<1>1. PlainIn(b, i, m) /\ PlainIn(b, i + m, n)
  BY DEF PlainIn
<1>2. Spell(b, i, m) \in Seq(Digits) /\ Spell(b, i + m, n) \in Seq(Digits)
  BY <1>1, SpellType
<1> DEFINE A == Spell(b, i, m)
           S == {k \in Nat : k <= n => Spell(b, i, m + k) = A \o Spell(b, i + m, k)}
<1>3. 0 \in S
  <2>1. Spell(b, i + m, 0) = <<>> /\ m + 0 = m
    BY SpellNext
  <2>2. A \o <<>> = A
    <3> HIDE DEF A
    <3> QED
      BY <1>2, ConcatEmptySeq DEF A
  <2> QED
    BY <2>1, <2>2
<1>4. ASSUME NEW k \in Nat, k \in S PROVE k + 1 \in S
  <2> SUFFICES ASSUME k + 1 <= n PROVE Spell(b, i, m + (k + 1)) = A \o Spell(b, i + m, k + 1)
    OBVIOUS
  <2> DEFINE B == Spell(b, i + m, k)
             t == RowText(b[i + m + k])
  <2>1. Spell(b, i, m + k) = A \o B
    BY <1>4
  <2>2. PlainIn(b, i + m, k) /\ PlainRow(b[i + m + k])
    <3>1. i + m + k \in i .. i + (m + n) - 1 /\ i + m .. i + m + k - 1 \subseteq i .. i + (m + n) - 1
      OBVIOUS
    <3> QED
      BY <3>1 DEF PlainIn
  <2>3. B \in Seq(Digits) /\ t \in Seq(Digits)
    BY <2>2, SpellType, RowTextType
  <2>4. Spell(b, i + m, k + 1) = B \o t
    <3>1. i + m \in Nat
      OBVIOUS
    <3>2. Spell(b, i + m, k + 1) = Spell(b, i + m, k) \o RowText(b[(i + m) + k])
      BY <3>1, SpellNext
    <3> QED
      BY <3>2
  <2>5. Spell(b, i, m + (k + 1)) = (A \o B) \o t
    <3>1. m + (k + 1) = (m + k) + 1 /\ m + k \in Nat /\ i + (m + k) = i + m + k
      OBVIOUS
    <3>2. Spell(b, i, (m + k) + 1) = Spell(b, i, m + k) \o RowText(b[i + (m + k)])
      BY <3>1, SpellNext
    <3> QED
      BY <2>1, <3>1, <3>2
  <2>6. A \in Seq(Digits)
    BY <1>2
  <2> HIDE DEF A, B, t
  <2>7. (A \o B) \o t = A \o (B \o t)
    BY <2>3, <2>6, ConcatAssociative
  <2> QED
    BY <2>4, <2>5, <2>7
<1>5. Nat \subseteq S
  <2> HIDE DEF S
  <2> QED
    BY <1>3, <1>4, SpellInduction, SpellLaws!SetInduction
<1> QED
  BY <1>1, <1>2, <1>5 DEF Splits

LEMMA SpellOne ==
    ASSUME NEW b, NEW i \in Nat, PlainRow(b[i])
    PROVE  Spell(b, i, 1) = RowText(b[i])
<1>1. Spell(b, i, 0 + 1) = <<>> \o RowText(b[i + 0])
  BY SpellNext
<1>2. i + 0 = i /\ RowText(b[i]) \in Seq(Digits)
  BY RowTextType
<1> QED
  BY <1>1, <1>2, ConcatEmptySeq

-----------------------------------------------------------------------------
(* Rows that enter history take their text with them; what history evicts   *)
(* is the oldest of what was heard.                                         *)

PlainTop(g) == PlainIn(g.top, 1, Len(g.top))
\* p is what history holds, then t, but for a beginning that has been evicted.
Heard(g, t, p) ==
    \E u \in Seq(Digits) : /\ p = u \o (Spell(g.top, 1, Len(g.top)) \o t)
                           /\ g.firstSeq = 0 => u = <<>>

LEMMA Join == ASSUME NEW a \in Seq(Digits), NEW b \in Seq(Digits) PROVE a \o b \in Seq(Digits)
  BY ConcatProperties

LEMMA Joined ==
    ASSUME NEW a \in Seq(Digits), NEW b \in Seq(Digits), NEW t \in Seq(Digits)
    PROVE  (a \o b) \o t = a \o (b \o t)
  BY ConcatAssociative

LEMMA One == 1 \in Nat /\ 2 \in Nat /\ 1 + 1 = 2 OBVIOUS

LEMMA PushHeard ==
    ASSUME NEW g, TopOK(g), PlainTop(g), NEW row, PlainRow(row), NEW t \in Seq(Digits), NEW p,
           Heard(g, RowText(row) \o t, p)
    PROVE  PlainTop(PushRow(g, row)) /\ Heard(PushRow(g, row), t, p)
<1> DEFINE f == PushRow(g, row)
           n == Len(g.top)
           A == Spell(g.top, 1, n)
           r == RowText(row)
<1>1. g.max \in Nat \ {0} /\ n \in Nat /\ n <= g.max /\ g.firstSeq \in Nat /\ g.top \in Seq(Row) /\ row \in Row
  BY DEF TopOK, PlainRow
<1>2. PlainIn(g.top, 1, n) /\ A \in Seq(Digits) /\ r \in Seq(Digits)
  <2>1. PlainIn(g.top, 1, n)
    BY DEF PlainTop
  <2> HIDE DEF n
  <2> QED
    BY <1>1, <2>1, SpellType, RowTextType
<1>3. PICK u \in Seq(Digits) : p = u \o (A \o (r \o t)) /\ (g.firstSeq = 0 => u = <<>>)
  BY DEF Heard
<1>4. CASE n # g.max
  <2> DEFINE top == Append(g.top, row)
  <2>1. f.top = top /\ f.firstSeq = g.firstSeq
    BY <1>1, <1>4 DEF PushRow, TopOK
  <2>2. Len(top) = n + 1 /\ top[n + 1] = row /\ \A i \in 1 .. n : top[i] = g.top[i]
    BY <1>1
  <2> HIDE DEF top, f, n, A, r
  <2>3. PlainIn(top, 1, n + 1)
    <3>1. ASSUME NEW k \in 1 .. 1 + (n + 1) - 1 PROVE PlainRow(top[k])
      <4>1. k \in 1 .. n \/ k = n + 1
        BY <1>1
      <4>2. k \in 1 .. n => k \in 1 .. 1 + n - 1
        BY <1>1
      <4> QED
        BY <1>2, <2>2, <4>1, <4>2 DEF PlainIn
    <3> QED
      BY <3>1 DEF PlainIn
  <2>4. Spell(top, 1, n) = A
    <3>1. \A k \in 0 .. n - 1 : RowText(top[1 + k]) = RowText(g.top[1 + k])
      <4> SUFFICES ASSUME NEW k \in 0 .. n - 1 PROVE top[1 + k] = g.top[1 + k]
        OBVIOUS
      <4>1. 1 + k \in 1 .. n
        BY <1>1
      <4> QED
        BY <2>2, <4>1
    <3> DEFINE i == 1
    <3>2. i \in Nat /\ AlikeIn(top, i, g.top, i, n)
      BY <3>1 DEF AlikeIn
    <3> HIDE DEF i
    <3>3. Spell(top, i, n) = Spell(g.top, i, n)
      BY <1>1, <3>2, SpellSame
    <3> QED
      BY <3>3 DEF A, i
  <2>5. Spell(top, 1, n + 1) = A \o r
    <3>1. Spell(top, 1, n + 1) = Spell(top, 1, n) \o RowText(top[1 + n])
      BY <1>1, SpellNext
    <3>2. 1 + n = n + 1
      BY <1>1
    <3> QED
      BY <2>2, <2>4, <3>1, <3>2 DEF r
  <2>6. p = u \o ((A \o r) \o t)
    <3>1. (A \o r) \o t = A \o (r \o t)
      BY <1>2, Joined
    <3> QED
      BY <1>3, <3>1
  <2>7. PlainTop(f)
    BY <2>1, <2>2, <2>3 DEF PlainTop
  <2>8. Heard(f, t, p)
    BY <1>3, <2>1, <2>2, <2>5, <2>6 DEF Heard
  <2> QED
    BY <2>7, <2>8 DEF f
<1>5. CASE n = g.max
  <2> DEFINE top == Append(Tail(g.top), row)
             m == n - 1
             a == RowText(g.top[1])
             B == Spell(g.top, 2, m)
  <2>1. f.top = top /\ f.firstSeq = g.firstSeq + 1
    <3>1. g.max > 0 /\ g.max # 0
      BY <1>1
    <3> QED
      BY <1>5, <3>1 DEF PushRow, TopOK
  <2>2. m \in Nat /\ n = 1 + m /\ g.top # <<>>
    BY <1>1, <1>5
  <2>3. Tail(g.top) \in Seq(Row) /\ Len(Tail(g.top)) = m /\ \A i \in 1 .. m : Tail(g.top)[i] = g.top[i + 1]
    BY <1>1, <2>2
  <2>4. Len(top) = m + 1 /\ top[m + 1] = row /\ \A i \in 1 .. m : top[i] = g.top[i + 1]
    BY <1>1, <2>2, <2>3
  <2> HIDE DEF top, f, n, A, r, m, a, B
  <2>5. PlainRow(g.top[1]) /\ \A i \in 1 .. m : PlainRow(g.top[i + 1])
    <3>1. 1 \in 1 .. 1 + n - 1 /\ \A i \in 1 .. m : i + 1 \in 1 .. 1 + n - 1
      BY <2>2
    <3> QED
      BY <1>2, <3>1 DEF PlainIn
  <2>6. PlainIn(top, 1, m + 1)
    <3>1. ASSUME NEW k \in 1 .. 1 + (m + 1) - 1 PROVE PlainRow(top[k])
      <4>1. k \in 1 .. m \/ k = m + 1
        BY <2>2
      <4> QED
        BY <2>4, <2>5, <4>1
    <3> QED
      BY <3>1 DEF PlainIn
  <2>7. Spell(top, 1, m) = B
    <3>1. \A k \in 0 .. m - 1 : RowText(top[1 + k]) = RowText(g.top[2 + k])
      <4> SUFFICES ASSUME NEW k \in 0 .. m - 1 PROVE top[1 + k] = g.top[2 + k]
        OBVIOUS
      <4>1. 1 + k \in 1 .. m /\ (1 + k) + 1 = 2 + k
        BY <2>2
      <4> QED
        BY <2>4, <4>1
    <3> DEFINE i == 1
               j == 2
    <3>2. i \in Nat /\ j \in Nat /\ AlikeIn(top, i, g.top, j, m)
      BY <3>1 DEF AlikeIn
    <3> HIDE DEF i, j
    <3>3. Spell(top, i, m) = Spell(g.top, j, m)
      BY <2>2, <3>2, SpellSame
    <3> QED
      BY <3>3 DEF B, i, j
  <2>8. Spell(top, 1, m + 1) = B \o r
    <3>1. Spell(top, 1, m + 1) = Spell(top, 1, m) \o RowText(top[1 + m])
      BY <2>2, SpellNext
    <3>2. 1 + m = m + 1
      BY <2>2
    <3> QED
      BY <2>4, <2>7, <3>1, <3>2 DEF r
  <2>9. A = a \o B /\ a \in Seq(Digits) /\ B \in Seq(Digits)
    <3>2. /\ Spell(g.top, 1, n) = Spell(g.top, 1, 1) \o Spell(g.top, 2, m)
          /\ Spell(g.top, 1, 1) \in Seq(Digits) /\ Spell(g.top, 2, m) \in Seq(Digits)
      <4> DEFINE o == 1
                 j == 2
      <4>1. o \in Nat /\ j \in Nat /\ j = o + o /\ n = o + m /\ PlainIn(g.top, o, n)
        BY <1>2, <2>2
      <4> HIDE DEF o, j
      <4>2. Splits(g.top, o, o, j, m, n)
        BY <1>1, <2>2, <4>1, SpellTwo
      <4> QED
        BY <4>2 DEF Splits, o, j
    <3>3. Spell(g.top, 1, 1) = a
      BY <2>5, One, SpellOne, Zenon DEF a
    <3> QED
      BY <3>2, <3>3 DEF A, B
  <2>10. p = (u \o a) \o ((B \o r) \o t) /\ u \o a \in Seq(Digits)
    <3> DEFINE rt == r \o t
               c == B \o rt
    <3>1. rt \in Seq(Digits) /\ u \o a \in Seq(Digits)
      BY <1>2, <2>9, Join
    <3>2. (B \o r) \o t = c
      BY <1>2, <2>9, Joined
    <3>3. p = u \o (A \o rt)
      BY <1>3
    <3> HIDE DEF rt
    <3>4. c \in Seq(Digits)
      BY <2>9, <3>1, Join
    <3>5. (a \o B) \o rt = a \o c
      BY <2>9, <3>1, Joined
    <3> HIDE DEF c
    <3>6. (u \o a) \o c = u \o (a \o c)
      BY <2>9, <3>4, Joined
    <3>7. p = u \o (a \o c)
      BY <2>9, <3>3, <3>5
    <3> QED
      BY <3>1, <3>2, <3>6, <3>7
  <2>11. PlainTop(f)
    BY <2>1, <2>4, <2>6 DEF PlainTop
  <2>12. f.firstSeq # 0
    BY <1>1, <2>1
  <2>13. Heard(f, t, p)
    BY <2>1, <2>4, <2>8, <2>10, <2>12 DEF Heard
  <2> QED
    BY <2>11, <2>13 DEF f
<1> QED
  BY <1>4, <1>5

LEMMA PushesNext ==
    ASSUME NEW g, NEW buf, NEW k \in Nat
    PROVE  PushRows(g, buf, 0) = g /\ PushRows(g, buf, k + 1) = PushRow(PushRows(g, buf, k), buf[k])
<1> DEFINE q(n) == [i \in 1 .. n |-> i]
<1>1. \A n : PushRows(g, buf, n) = PushLaws!Fold(buf, g, q(n))
  BY DEF PushRows, FoldLeft, MapThenFoldSet, Max, PushLaws!Fold, PushLaws!Greatest, PushRowsStep
<1>2. q(0) = <<>>
  OBVIOUS
<1>3. q(k) \in Seq(Nat) /\ q(k + 1) = Append(q(k), k + 1) /\ k + 1 \in Nat
  OBVIOUS
<1>4. PushLaws!Fold(buf, g, q(k + 1)) = PushRowsStep(buf, PushLaws!Fold(buf, g, q(k)), k + 1)
  <2> DEFINE Q == q(k)
             e == k + 1
             E == Nat
  <2>1. Q \in Seq(E) /\ e \in E
    BY <1>3
  <2> HIDE DEF Q, e, q, E
  <2>2. PushLaws!Fold(buf, g, Append(Q, e)) = PushRowsStep(buf, PushLaws!Fold(buf, g, Q), e)
    BY <2>1, PushInduction, PushLaws!FoldAppend
  <2> QED
    BY <1>3, <2>2 DEF Q, e
<1> HIDE DEF q
<1>5. PushLaws!Fold(buf, g, q(0)) = g
  BY <1>2, PushInduction, PushLaws!FoldEmpty
<1>6. (k + 1) - 1 = k
  OBVIOUS
<1> QED
  BY <1>1, <1>4, <1>5, <1>6 DEF PushRowsStep

LEMMA PushesHeard ==
    ASSUME NEW g, TopOK(g), PlainTop(g), NEW buf, NEW n \in Nat, PlainIn(buf, 0, n),
           NEW t \in Seq(Digits), NEW p, Heard(g, Spell(buf, 0, n) \o t, p)
    PROVE  LET f == PushRows(g, buf, n) IN TopOK(f) /\ f.s = g.s /\ PlainTop(f) /\ Heard(f, t, p)
<1> DEFINE R(k) == Spell(buf, k, n - k)
           S == {k \in Nat : k <= n => /\ PlainTop(PushRows(g, buf, k))
                                       /\ Heard(PushRows(g, buf, k), R(k) \o t, p)}
<1>1. \A k \in 0 .. n : PlainIn(buf, 0, k) /\ PlainIn(buf, k, n - k)
  BY DEF PlainIn
<1>2. ASSUME NEW k \in 0 .. n PROVE TopOK(PushRows(g, buf, k)) /\ PushRows(g, buf, k).s = g.s
  <2>1. \A i \in 0 .. k - 1 : buf[i] \in Row
    <3> SUFFICES ASSUME NEW i \in 0 .. k - 1 PROVE PlainRow(buf[i])
      BY DEF PlainRow
    <3>1. i \in 0 .. 0 + n - 1
      OBVIOUS
    <3> QED
      BY <3>1 DEF PlainIn
  <2> QED
    BY <2>1, PushRowsOK DEF Later
<1>3. 0 \in S
  <2>1. n - 0 = n /\ PushRows(g, buf, 0) = g
    BY PushesNext
  <2> QED
    BY <2>1
<1>4. ASSUME NEW k \in Nat, k \in S PROVE k + 1 \in S
  <2> SUFFICES ASSUME k + 1 <= n
               PROVE  PlainTop(PushRows(g, buf, k + 1)) /\ Heard(PushRows(g, buf, k + 1), R(k + 1) \o t, p)
    OBVIOUS
  <2> DEFINE e == PushRows(g, buf, k)
             m == n - (k + 1)
             r == RowText(buf[k])
             X == Spell(buf, k + 1, m)
  <2>1. PlainTop(e) /\ Heard(e, R(k) \o t, p)
    BY <1>4
  <2>2. TopOK(e)
    <3>1. k \in 0 .. n
      OBVIOUS
    <3> QED
      BY <1>2, <3>1
  <2>3. m \in Nat /\ n - k = 1 + m /\ k \in 0 .. n
    OBVIOUS
  <2>4. PlainRow(buf[k])
    <3>1. k \in 0 .. 0 + n - 1
      OBVIOUS
    <3> QED
      BY <3>1 DEF PlainIn
  <2>5. PushRows(g, buf, k + 1) = PushRow(e, buf[k])
    BY PushesNext
  <2>6. R(k) = r \o X /\ r \in Seq(Digits) /\ X \in Seq(Digits)
    <3> HIDE DEF m
    <3>1. PlainIn(buf, k, 1 + m)
      BY <1>1, <2>3
    <3>2. Spell(buf, k, 1 + m) = Spell(buf, k, 1) \o Spell(buf, k + 1, m) /\ Spell(buf, k + 1, m) \in Seq(Digits)
      <4> DEFINE o == 1
                 j == k + 1
                 l == 1 + m
      <4>1. o \in Nat /\ j \in Nat /\ l \in Nat /\ k \in Nat /\ j = k + o /\ l = o + m
        BY <2>3
      <4>3. PlainIn(buf, k, l)
        BY <3>1
      <4> HIDE DEF o, j, l
      <4>2. Splits(buf, k, o, j, m, l)
        BY <2>3, <4>1, <4>3, SpellTwo
      <4> QED
        BY <4>2 DEF Splits, o, j, l
    <3>3. Spell(buf, k, 1) = r /\ r \in Seq(Digits)
      BY <2>4, SpellOne, RowTextType
    <3> QED
      BY <2>3, <3>2, <3>3
  <2> HIDE DEF e, r, X
  <2>7. R(k) \o t = r \o (X \o t) /\ X \o t \in Seq(Digits)
    <3>1. (r \o X) \o t = r \o (X \o t)
      BY <2>6, Joined
    <3>2. X \o t \in Seq(Digits)
      BY <2>6, Join
    <3> QED
      BY <2>6, <3>1, <3>2
  <2>8. Heard(e, r \o (X \o t), p)
    BY <2>1, <2>7
  <2>9. PlainTop(PushRow(e, buf[k])) /\ Heard(PushRow(e, buf[k]), X \o t, p)
    BY <2>1, <2>2, <2>4, <2>7, <2>8, PushHeard DEF r
  <2> QED
    BY <2>5, <2>9 DEF X
<1>5. Nat \subseteq S
  <2> HIDE DEF S
  <2> QED
    BY <1>3, <1>4, SpellInduction, SpellLaws!SetInduction
<1>6. PlainTop(PushRows(g, buf, n)) /\ Heard(PushRows(g, buf, n), R(n) \o t, p)
  BY <1>5
<1>7. R(n) \o t = t
  <2>1. n - n = 0 /\ Spell(buf, n, 0) = <<>>
    BY SpellNext
  <2>2. R(n) = <<>>
    BY <2>1
  <2> HIDE DEF R
  <2> QED
    BY <2>2, ConcatEmptySeq
<1>8. n \in 0 .. n
  OBVIOUS
<1> HIDE DEF R, S
<1> QED
  BY <1>2, <1>6, <1>7, <1>8

-----------------------------------------------------------------------------
(* Rows that are fitted to another width, and a page to another height.     *)

LEMMA MuteIsText ==
    ASSUME NEW row, PlainRow(row) PROVE Mute(row) <=> RowText(row) = <<>>
<1>1. CASE Mute(row)
  BY <1>1, RowTextDigit
<1>2. CASE ~Mute(row)
  <2>1. row[0].d \in Written
    BY <1>2 DEF Mute
  <2>2. RowText(row) = row[0].d
    BY <1>2, RowTextDigit
  <2>3. \A x \in Digits : <<x>> # <<>>
    OBVIOUS
  <2> QED
    BY <1>2, <2>1, <2>2, <2>3 DEF Written
<1> QED
  BY <1>1, <1>2

LEMMA SameFirst ==
    ASSUME NEW row, PlainRow(row), NEW line, PlainRow(line),
           0 \in DOMAIN row, 0 \in DOMAIN line, row[0].d = line[0].d
    PROVE  RowText(line) = RowText(row)
<1>1. Mute(row) <=> Mute(line)
  BY DEF Mute
<1> QED
  BY <1>1, RowTextDigit

LEMMA PlainCells ==
    ASSUME NEW n \in Nat, NEW row \in [0 .. n - 1 -> Cell],
           \A c \in 0 .. n - 1 : IF c = 0 THEN row[c].d \in {Blank, <<"#">>} \union Written ELSE row[c].d = Blank
    PROVE  PlainRow(row)
<1>1. row \in Row /\ DOMAIN row = 0 .. n - 1
  BY DEF Row
<1> QED
  BY <1>1 DEF PlainRow

LEMMA BlankPlain ==
    ASSUME NEW s, NEW n \in Nat
    PROVE  PlainRow(BlankLine(n, DefaultCell(s))) /\ RowText(BlankLine(n, DefaultCell(s))) = <<>>
<1> DEFINE row == BlankLine(n, DefaultCell(s))
<1>1. DefaultCell(s) \in Cell /\ DefaultCell(s).d = Blank
  BY DefaultCellIs DEF DefaultCell
<1>2. row \in [0 .. n - 1 -> Cell] /\ \A c \in 0 .. n - 1 : row[c] = DefaultCell(s)
  BY <1>1 DEF BlankLine
<1>3. Blank \notin Written
  BY DEF Blank, Written, Digits
<1> HIDE DEF row
<1>4. PlainRow(row)
  BY <1>1, <1>2, PlainCells
<1>5. Mute(row)
  BY <1>1, <1>2, <1>3 DEF Mute
<1>6. RowText(row) = <<>>
  BY <1>4, <1>5, MuteIsText
<1> QED
  BY <1>4, <1>6 DEF row

Fitted(s, b, drop, lines, columns) ==
    RowsFrom(FitRowsWidth(b, columns, DefaultCell(s)), drop, lines, BlankLine(columns, DefaultCell(s)))

FitsRow(row, b, n, i) ==
    /\ PlainRow(row)
    /\ i \in 0 .. n - 1 => RowText(row) = RowText(b[i])
    /\ i \notin 0 .. n - 1 => RowText(row) = <<>>
LEMMA FitRow ==
    ASSUME NEW s, NEW n \in Nat, NEW c0 \in Nat \ {0}, NEW b, IsBuffer(b, n, c0), PlainIn(b, 0, n),
           NEW drop \in Nat, NEW lines \in Nat \ {0}, NEW columns \in Nat \ {0}, NEW k \in 0 .. lines - 1
    PROVE  FitsRow(Fitted(s, b, drop, lines, columns)[k], b, n, k + drop)
<1> DEFINE fit == FitRowsWidth(b, columns, DefaultCell(s))
           blank == BlankLine(columns, DefaultCell(s))
           row == Fitted(s, b, drop, lines, columns)[k]
           i == k + drop
<1>1. row = IF i \in DOMAIN fit THEN fit[i] ELSE blank
  BY DEF Fitted, RowsFrom
<1>2. DOMAIN fit = 0 .. n - 1 /\ DOMAIN b = 0 .. n - 1
  BY DEF FitRowsWidth, IsBuffer
<1>3. CASE i \notin 0 .. n - 1
  <2>1. row = blank
    BY <1>1, <1>2, <1>3
  <2> HIDE DEF row, blank, i
  <2>2. PlainRow(blank) /\ RowText(blank) = <<>>
    BY BlankPlain DEF blank
  <2> QED
    BY <1>3, <2>1, <2>2 DEF FitsRow, row, i
<1>4. CASE i \in 0 .. n - 1
  <2> DEFINE old == b[i]
  <2>1. row = [c \in 0 .. columns - 1 |-> IF c \in DOMAIN old THEN old[c] ELSE DefaultCell(s)]
    <3>1. row = fit[i]
      BY <1>1, <1>2, <1>4
    <3>2. fit[i] = [c \in 0 .. columns - 1 |-> IF c \in DOMAIN old THEN old[c] ELSE DefaultCell(s)]
      BY <1>2, <1>4 DEF FitRowsWidth
    <3> QED
      BY <3>1, <3>2
  <2>2. old \in [0 .. c0 - 1 -> Cell] /\ DOMAIN old = 0 .. c0 - 1
    BY <1>4 DEF IsBuffer
  <2>3. PlainRow(old)
    <3>1. i \in 0 .. 0 + n - 1
      BY <1>4
    <3> QED
      BY <3>1 DEF PlainIn
  <2>4. DefaultCell(s) \in Cell /\ DefaultCell(s).d = Blank
    BY DefaultCellIs DEF DefaultCell
  <2> HIDE DEF row, old, i
  <2>5. row \in [0 .. columns - 1 -> Cell] /\ 0 \in 0 .. columns - 1 /\ 0 \in 0 .. c0 - 1
    BY <2>1, <2>2, <2>4
  <2>6. row[0] = old[0]
    BY <2>1, <2>2, <2>5
  <2>7. \A c \in 0 .. columns - 1 : IF c = 0 THEN row[c].d \in {Blank, <<"#">>} \union Written
                                             ELSE row[c].d = Blank
    <3> SUFFICES ASSUME NEW c \in 0 .. columns - 1
                 PROVE  IF c = 0 THEN row[c].d \in {Blank, <<"#">>} \union Written ELSE row[c].d = Blank
      OBVIOUS
    <3>1. row[c] = IF c \in DOMAIN old THEN old[c] ELSE DefaultCell(s)
      BY <2>1
    <3>2. c \in DOMAIN old => IF c = 0 THEN old[c].d \in {Blank, <<"#">>} \union Written ELSE old[c].d = Blank
      BY <2>3 DEF PlainRow
    <3> QED
      BY <2>2, <2>4, <2>5, <3>1, <3>2
  <2>8. PlainRow(row)
    BY <2>5, <2>7, PlainCells
  <2>9. RowText(row) = RowText(old)
    <3>1. DOMAIN row = 0 .. columns - 1
      BY <2>5
    <3> QED
      BY <2>2, <2>3, <2>5, <2>6, <2>8, <3>1, SameFirst
  <2> QED
    BY <1>4, <2>8, <2>9 DEF FitsRow, row, old, i
<1> QED
  BY <1>3, <1>4

LEMMA SpellTrim ==
    ASSUME NEW b, NEW i \in Nat, NEW m \in Nat, NEW k \in Nat, NEW j \in Nat, j = i + m,
           NEW l \in Nat, l = m + k, PlainIn(b, i, l), MuteIn(b, j, k)
    PROVE  Spell(b, i, l) = Spell(b, i, m)
<1>1. Splits(b, i, m, j, k, l)
  BY SpellTwo
<1>2. Spell(b, j, k) = <<>>
  BY <1>1, SpellMute DEF Splits
<1>3. Spell(b, i, m) \o <<>> = Spell(b, i, m)
  BY <1>1, ConcatEmptySeq DEF Splits
<1> QED
  BY <1>1, <1>2, <1>3 DEF Splits

(* What is kept of a page spells what it did, after the rows that leave.    *)
LEMMA FitText ==
    ASSUME NEW s, NEW n \in Nat \ {0}, NEW c0 \in Nat \ {0}, NEW b, IsBuffer(b, n, c0), PlainIn(b, 0, n),
           NEW drop \in 0 .. n, NEW lines \in Nat \ {0}, NEW columns \in Nat \ {0},
           \A r \in drop + lines .. n - 1 : Mute(b[r])
    PROVE  LET new == Fitted(s, b, drop, lines, columns)
           IN  /\ PlainIn(new, 0, lines) /\ PlainIn(b, 0, drop)
               /\ Spell(b, 0, n) = Spell(b, 0, drop) \o Spell(new, 0, lines)
               /\ Spell(new, 0, lines) \in Seq(Digits)
<1> DEFINE new == Fitted(s, b, drop, lines, columns)
           rest == n - drop
           m == MinOf(rest, lines)
           o == 0
<1>1. rest \in Nat /\ m \in Nat /\ m <= rest /\ m <= lines /\ (m = rest \/ m = lines) /\ drop \in Nat
  BY DEF MinOf
<1>2. ASSUME NEW k \in 0 .. lines - 1
      PROVE  /\ PlainRow(new[k])
             /\ k + drop \in 0 .. n - 1 => RowText(new[k]) = RowText(b[k + drop])
             /\ k + drop \notin 0 .. n - 1 => RowText(new[k]) = <<>>
  <2>1. FitsRow(new[k], b, n, k + drop)
    BY <1>1, FitRow
  <2> HIDE DEF new
  <2> QED
    BY <2>1 DEF FitsRow
<1> HIDE DEF new, m
<1>3. o \in Nat /\ PlainIn(b, o, n) /\ drop = o + drop /\ n = drop + rest /\ n \in Nat
  OBVIOUS
<1> HIDE DEF o, rest
<1>4. Splits(b, o, drop, drop, rest, n)
  BY <1>1, <1>3, SpellTwo
<1>5. Spell(b, drop, rest) = Spell(b, drop, m)
  <2> DEFINE k == rest - m
             j == drop + m
  <2>1. k \in Nat /\ j \in Nat /\ j = drop + m /\ rest = m + k
    BY <1>1
  <2>2. MuteIn(b, j, k)
    <3> SUFFICES ASSUME NEW r \in j .. j + k - 1 PROVE Mute(b[r])
      BY DEF MuteIn
    <3>1. r \in drop + lines .. n - 1
      BY <1>1, <1>3, <2>1
    <3> QED
      BY <3>1
  <2>3. PlainIn(b, drop, rest)
    BY <1>4 DEF Splits
  <2> HIDE DEF k, j
  <2> QED
    BY <1>1, <2>1, <2>2, <2>3, SpellTrim
<1>6. PlainIn(new, o, lines)
  BY <1>2 DEF PlainIn, o
<1>7. Spell(new, o, lines) = Spell(new, o, m)
  <2> DEFINE k == lines - m
             l == lines
  <2>1. k \in Nat /\ m = o + m /\ l = m + k /\ l \in Nat
    BY <1>1 DEF o
  <2>2. MuteIn(new, m, k)
    <3> SUFFICES ASSUME NEW r \in m .. m + k - 1 PROVE Mute(new[r])
      BY DEF MuteIn
    <3>1. r \in 0 .. lines - 1 /\ r + drop \notin 0 .. n - 1
      BY <1>1, <1>3, <2>1
    <3>2. PlainRow(new[r]) /\ RowText(new[r]) = <<>>
      BY <1>2, <3>1
    <3> QED
      BY <3>2, MuteIsText
  <2>3. PlainIn(new, o, l)
    BY <1>6
  <2> HIDE DEF k, l
  <2>4. Spell(new, o, l) = Spell(new, o, m)
    BY <1>1, <1>3, <2>1, <2>2, <2>3, SpellTrim
  <2> QED
    BY <2>4 DEF l
<1>8. Spell(b, drop, m) = Spell(new, o, m)
  <2>1. AlikeIn(b, drop, new, o, m)
    <3> SUFFICES ASSUME NEW k \in 0 .. m - 1 PROVE RowText(b[drop + k]) = RowText(new[o + k])
      BY DEF AlikeIn
    <3>1. k \in 0 .. lines - 1 /\ k + drop \in 0 .. n - 1 /\ k + drop = drop + k /\ o + k = k
      BY <1>1, <1>3 DEF o
    <3>2. RowText(new[k]) = RowText(b[k + drop])
      BY <1>2, <3>1
    <3> QED
      BY <3>1, <3>2
  <2> QED
    BY <1>1, <1>3, <2>1, SpellSame
<1>9. Spell(new, o, lines) \in Seq(Digits)
  BY <1>4, <1>5, <1>7, <1>8 DEF Splits
<1>10. /\ PlainIn(new, o, lines) /\ PlainIn(b, o, drop)
       /\ Spell(b, o, n) = Spell(b, o, drop) \o Spell(new, o, lines)
  BY <1>4, <1>5, <1>6, <1>7, <1>8 DEF Splits
<1> QED
  BY <1>9, <1>10 DEF new, o

Fits(b, n, keep, drop, new, lines) ==
    LET foot == ShiftedUp(keep, drop)
    IN  /\ drop \in 0 .. n /\ (lines >= n => drop = 0)
        /\ PlainIn(new, 0, lines) /\ PlainIn(b, 0, drop)
        /\ Spell(b, 0, n) = Spell(b, 0, drop) \o Spell(new, 0, lines)
        /\ Spell(new, 0, lines) \in Seq(Digits)
        /\ foot \in 0 .. lines - 1 /\ MuteIn(new, foot, lines - foot)
        /\ MuteIn(b, 0, n) => MuteIn(new, 0, lines)
LEMMA FitPage ==
    ASSUME NEW s, NEW n \in Nat \ {0}, NEW c0 \in Nat \ {0}, NEW b, IsBuffer(b, n, c0), PlainIn(b, 0, n),
           NEW keep \in 0 .. n - 1, MuteIn(b, keep, n - keep),
           NEW lines \in Nat \ {0}, NEW columns \in Nat \ {0}
    PROVE  LET drop == DropCount(s, b, lines, keep)
           IN  Fits(b, n, keep, drop, Fitted(s, b, drop, lines, columns), lines)
<1> DEFINE drop == DropCount(s, b, lines, keep)
           new == Fitted(s, b, drop, lines, columns)
           foot == ShiftedUp(keep, drop)
<1>1. /\ drop \in 0 .. n /\ (lines >= n => drop = 0) /\ keep - drop < lines
      /\ \A r \in drop + lines .. n - 1 : r > keep
  <2>1. keep < n /\ keep \in Nat
    OBVIOUS
  <2> QED
    BY <2>1, DropCountIs
<1> HIDE DEF drop
<1>2. \A r \in drop + lines .. n - 1 : Mute(b[r])
  <2> SUFFICES ASSUME NEW r \in drop + lines .. n - 1 PROVE Mute(b[r])
    OBVIOUS
  <2>1. r > keep
    BY <1>1
  <2>2. r \in keep .. keep + (n - keep) - 1
    BY <1>1, <2>1
  <2> QED
    BY <2>2 DEF MuteIn
<1>3. foot \in 0 .. lines - 1 /\ foot >= keep - drop
  BY <1>1 DEF ShiftedUp, MaxOf
<1>4. /\ PlainIn(new, 0, lines) /\ PlainIn(b, 0, drop)
      /\ Spell(b, 0, n) = Spell(b, 0, drop) \o Spell(new, 0, lines)
      /\ Spell(new, 0, lines) \in Seq(Digits)
  BY <1>1, <1>2, FitText
<1>5. ASSUME NEW from \in Nat, NEW k \in 0 .. lines - 1, k + drop >= from,
             from <= n, MuteIn(b, from, n - from)
      PROVE  Mute(new[k])
  <2>1. /\ PlainRow(new[k])
        /\ k + drop \in 0 .. n - 1 => RowText(new[k]) = RowText(b[k + drop])
        /\ k + drop \notin 0 .. n - 1 => RowText(new[k]) = <<>>
    <3>1. drop \in Nat /\ n \in Nat
      BY <1>1
    <3>2. FitsRow(new[k], b, n, k + drop)
      BY <3>1, FitRow
    <3> HIDE DEF new
    <3> QED
      BY <3>2 DEF FitsRow
  <2>2. CASE k + drop \in 0 .. n - 1
    <3>1. k + drop \in from .. from + (n - from) - 1 /\ k + drop \in 0 .. 0 + n - 1
      BY <1>1, <1>5, <2>2
    <3>2. Mute(b[k + drop]) /\ PlainRow(b[k + drop])
      BY <1>5, <3>1 DEF MuteIn, PlainIn
    <3>3. RowText(b[k + drop]) = <<>>
      BY <3>2, MuteIsText
    <3> HIDE DEF new
    <3> QED
      BY <2>1, <2>2, <3>3, MuteIsText
  <2>3. CASE k + drop \notin 0 .. n - 1
    <3> HIDE DEF new
    <3> QED
      BY <2>1, <2>3, MuteIsText
  <2> QED
    BY <2>2, <2>3
<1> HIDE DEF new, foot
<1>6. MuteIn(new, foot, lines - foot)
  <2> SUFFICES ASSUME NEW k \in foot .. foot + (lines - foot) - 1 PROVE Mute(new[k])
    BY DEF MuteIn
  <2>1. k \in 0 .. lines - 1 /\ k + drop >= keep /\ keep \in Nat /\ keep <= n
    BY <1>1, <1>3
  <2> QED
    BY <1>5, <2>1
<1>7. ASSUME MuteIn(b, 0, n) PROVE MuteIn(new, 0, lines)
  <2> SUFFICES ASSUME NEW k \in 0 .. 0 + lines - 1 PROVE Mute(new[k])
    BY DEF MuteIn
  <2> DEFINE z == 0
  <2>1. k \in 0 .. lines - 1 /\ k + drop >= z /\ z \in Nat /\ z <= n /\ MuteIn(b, z, n - z)
    BY <1>1, <1>7
  <2> HIDE DEF z
  <2> QED
    BY <1>5, <2>1
<1> QED
  BY <1>1, <1>3, <1>4, <1>6, <1>7 DEF Fits, drop, new, foot

-----------------------------------------------------------------------------
(* The screen of a shell.  Outside full-screen programs the cursor is in    *)
(* the first column and nothing is written from its row on; inside one the  *)
(* shell's page is stashed, with its cursor, and the program's is mute.     *)

Quiet(s) ==
    /\ "conformanceExplicit" \in DOMAIN s /\ s.conformanceExplicit = FALSE
    /\ ~s.panicked /\ s.columns > 1 /\ s.margins = NoMargins
    /\ s.mode \in {ResetModes, ResetModes \union {"AltBufCursor"}}
    /\ s.charset = 0 /\ s.g0 = "lat1"
Foreground(s) ==
    /\ PlainIn(s.buf, 0, s.lines) /\ MuteIn(s.buf, s.row, s.lines - s.row)
    /\ s.col = 0 /\ s.wrapNext = FALSE
Behind(s) ==
    /\ s.altSavedCursor # NoCursor /\ s.altSavedCursor.col = 0 /\ s.altSavedCursor.row < s.lines
    /\ s.altWrapNext = FALSE
    /\ PlainIn(s.altBuf, 0, s.lines)
    /\ MuteIn(s.altBuf, s.altSavedCursor.row, s.lines - s.altSavedCursor.row)
    /\ PlainIn(s.buf, 0, s.lines) /\ MuteIn(s.buf, 0, s.lines)
Tame(s) == ScreenOK(s) /\ Quiet(s) /\ (s.altActive => Behind(s)) /\ (~s.altActive => Foreground(s))
PageText(s) == Spell(IF s.altActive THEN s.altBuf ELSE s.buf, 0, s.lines)
ShellOK(g, p) == TopOK(g) /\ Tame(g.s) /\ PlainTop(g) /\ Heard(g, PageText(g.s), p)

(* What a step that is neither a mode nor a size leaves alone. *)
Hushed(s, t) ==
    /\ HasFields(t)
    /\ "conformanceExplicit" \in DOMAIN t /\ t.conformanceExplicit = s.conformanceExplicit
    /\ t.mode = s.mode /\ t.charset = s.charset /\ t.g0 = s.g0 /\ t.panicked = s.panicked

LEMMA SameTop ==
    ASSUME NEW g, NEW f, f.top = g.top, f.firstSeq = g.firstSeq
    PROVE  /\ PlainTop(g) => PlainTop(f)
           /\ \A t, p : Heard(g, t, p) => Heard(f, t, p)
  BY DEF PlainTop, Heard

LEMMA Lifted ==
    ASSUME NEW g, TopOK(g), NEW t
    PROVE  Lift(g, t).top = g.top /\ Lift(g, t).firstSeq = g.firstSeq /\ Lift(g, t).s = t
  BY DEF Lift, TopOK

LEMMA MuteFrom ==
    ASSUME NEW b, NEW n \in Nat, NEW m \in 0 .. n, MuteIn(b, 0, n)
    PROVE  MuteIn(b, m, n - m) /\ MuteIn(b, 0, m)
  BY DEF MuteIn

(* The rows that leave the live page go to history, with their text. *)
LEMMA LiveShell ==
    ASSUME NEW g, ScreenOK(g.s), Quiet(g.s), TopOK(g), PlainTop(g),
           NEW lines \in Nat \ {0}, NEW columns \in Nat \ {0},
           PlainIn(g.s.buf, 0, g.s.lines), MuteIn(g.s.buf, g.s.row, g.s.lines - g.s.row),
           NEW t \in Seq(Digits), NEW p
    PROVE  LET e == ResizeLive(g, lines, columns)
               s == g.s
           IN  /\ Hushed(s, e.s)
               /\ PlainIn(e.s.buf, 0, lines) /\ MuteIn(e.s.buf, e.s.row, lines - e.s.row)
               /\ MuteIn(s.buf, 0, s.lines) => MuteIn(e.s.buf, 0, lines)
               /\ Heard(g, Spell(s.buf, 0, s.lines), p) =>
                     PlainTop(e) /\ Heard(e, Spell(e.s.buf, 0, lines), p)
               /\ MuteIn(s.buf, 0, s.lines) /\ Heard(g, t, p) => PlainTop(e) /\ Heard(e, t, p)
<1> DEFINE s == g.s
           n == s.lines
           b == s.buf
           drop == DropCount(s, b, lines, s.row)
           f == PushRows(g, b, drop)
           B == Fitted(s, b, drop, lines, columns)
           R == IF lines < n THEN ShiftedUp(s.row, drop) ELSE s.row
           z == [s EXCEPT !.buf = B, !.row = R]
           e == ResizeLive(g, lines, columns)
           foot == ShiftedUp(s.row, drop)
<1>1. /\ n \in Nat \ {0} /\ s.columns \in Nat \ {0} /\ IsBuffer(b, n, s.columns)
      /\ s.row \in 0 .. n - 1 /\ HasFields(s)
  BY DEF ScreenOK, Afloat
<1>2. /\ drop \in 0 .. n /\ (lines >= n => drop = 0)
      /\ PlainIn(B, 0, lines) /\ PlainIn(b, 0, drop)
      /\ Spell(b, 0, n) = Spell(b, 0, drop) \o Spell(B, 0, lines)
      /\ Spell(B, 0, lines) \in Seq(Digits)
      /\ foot \in 0 .. lines - 1 /\ MuteIn(B, foot, lines - foot)
      /\ MuteIn(b, 0, n) => MuteIn(B, 0, lines)
  <2> HIDE DEF b, n, s
  <2>1. PlainIn(b, 0, n) /\ MuteIn(b, s.row, n - s.row)
    BY DEF b, n, s
  <2>2. Fits(b, n, s.row, drop, B, lines)
    BY <1>1, <2>1, FitPage
  <2> HIDE DEF drop, B
  <2> QED
    BY <2>2 DEF Fits
<1>3. R = foot
  <2>1. lines >= n => ShiftedUp(s.row, drop) = s.row
    BY <1>1, <1>2 DEF ShiftedUp, MaxOf
  <2> QED
    BY <1>1, <2>1
<1>4. e = [f EXCEPT !.s.buf = B, !.s.row = IF lines < n THEN ShiftedUp(@, drop) ELSE @]
  BY DEF ResizeLive, Fitted
<1> HIDE DEF drop, B
<1>5. TopOK(f) /\ f.s = s
  <2>1. \A i \in 0 .. drop - 1 : b[i] \in Row
    <3> SUFFICES ASSUME NEW i \in 0 .. drop - 1 PROVE b[i] \in Row
      OBVIOUS
    <3>1. i \in 0 .. 0 + drop - 1
      BY <1>2
    <3>2. PlainRow(b[i])
      BY <1>2, <3>1 DEF PlainIn
    <3> QED
      BY <3>2 DEF PlainRow
  <2>2. drop \in Nat
    BY <1>2
  <2> HIDE DEF b
  <2> QED
    BY <2>1, <2>2, PushRowsOK DEF Later
<1> HIDE DEF f
<1>6. e = Lift(f, z)
  BY <1>1, <1>4, <1>5 DEF Lift, HasFields, TopOK
<1>7. e.top = f.top /\ e.firstSeq = f.firstSeq /\ e.s = z
  <2> HIDE DEF z, e
  <2> QED
    BY <1>5, <1>6, Lifted
<1>8. /\ HasFields(z) /\ z.mode = s.mode /\ z.charset = s.charset /\ z.g0 = s.g0 /\ z.panicked = s.panicked
      /\ z.buf = B /\ z.row = R
  BY <1>1 DEF HasFields
<1>9. "conformanceExplicit" \in DOMAIN z /\ z.conformanceExplicit = s.conformanceExplicit
  <2>1. "conformanceExplicit" \in DOMAIN s
    BY DEF Quiet
  <2> QED
    BY <2>1
<1> HIDE DEF z, R, e, foot
<1>10. Hushed(s, e.s)
  BY <1>7, <1>8, <1>9 DEF Hushed
<1>11. PlainIn(e.s.buf, 0, lines) /\ MuteIn(e.s.buf, e.s.row, lines - e.s.row)
  BY <1>2, <1>3, <1>7, <1>8
<1>12. MuteIn(b, 0, n) => MuteIn(e.s.buf, 0, lines)
  BY <1>2, <1>7, <1>8
<1>13. ASSUME Heard(g, Spell(b, 0, n), p) PROVE PlainTop(e) /\ Heard(e, Spell(e.s.buf, 0, lines), p)
  <2> DEFINE T == Spell(B, 0, lines)
  <2>1. T \in Seq(Digits) /\ drop \in Nat /\ PlainIn(b, 0, drop) /\ Spell(b, 0, n) = Spell(b, 0, drop) \o T
    BY <1>2
  <2> HIDE DEF T, b, n
  <2>3. Heard(g, Spell(b, 0, drop) \o T, p)
    BY <1>13, <2>1
  <2>2. PlainTop(f) /\ Heard(f, T, p)
    BY <2>1, <2>3, PushesHeard DEF f
  <2> QED
    BY <1>7, <1>8, <2>2, SameTop DEF T
<1>14. ASSUME MuteIn(b, 0, n), Heard(g, t, p) PROVE PlainTop(e) /\ Heard(e, t, p)
  <2>1. drop \in Nat /\ PlainIn(b, 0, drop)
    BY <1>2
  <2>2. Spell(b, 0, drop) = <<>>
    <3>1. 0 \in Nat /\ MuteIn(b, 0, drop)
      BY <1>1, <1>2, <1>14, MuteFrom
    <3> HIDE DEF b
    <3> QED
      BY <2>1, <3>1, SpellMute
  <2>3. <<>> \o t = t
    BY ConcatEmptySeq
  <2> HIDE DEF b
  <2>4. PlainTop(f) /\ Heard(f, t, p)
    <3>1. Heard(g, Spell(b, 0, drop) \o t, p)
      BY <1>14, <2>2, <2>3
    <3> QED
      BY <2>1, <3>1, PushesHeard DEF f
  <2> QED
    BY <1>7, <2>4, SameTop
<1> QED
  BY <1>10, <1>11, <1>12, <1>13, <1>14 DEF e

(* The stashed page of the shell does the same, and its cursor goes along. *)
StashKept(s, f, lines, p) ==
    LET c == f.s.altSavedCursor
    IN  /\ Hushed(s, f.s) /\ f.s.altWrapNext = FALSE /\ f.s.buf = s.buf
        /\ PlainTop(f) /\ Heard(f, Spell(f.s.altBuf, 0, lines), p)
        /\ PlainIn(f.s.altBuf, 0, lines) /\ MuteIn(f.s.altBuf, c.row, lines - c.row)
        /\ c # NoCursor /\ c.col = s.altSavedCursor.col /\ c.row \in 0 .. lines - 1
LEMMA StashedShell ==
    ASSUME NEW g, TopOK(g), PlainTop(g), HasFields(g.s), g.s.altActive,
           NEW n \in Nat \ {0}, NEW c0 \in Nat \ {0}, IsBuffer(g.s.altBuf, n, c0),
           NEW lines \in Nat \ {0}, NEW columns \in Nat \ {0},
           g.s.altSavedCursor # NoCursor, g.s.altSavedCursor \in CursorSet, g.s.altSavedCursor.row < n,
           PlainIn(g.s.altBuf, 0, n),
           MuteIn(g.s.altBuf, g.s.altSavedCursor.row, n - g.s.altSavedCursor.row),
           "conformanceExplicit" \in DOMAIN g.s,
           NEW p, Heard(g, Spell(g.s.altBuf, 0, n), p)
    PROVE  StashKept(g.s, ResizeInactiveBuffer(g, lines, columns), lines, p)
<1> DEFINE u == g.s
           b == u.altBuf
           keep == u.altSavedCursor.row
           drop == DropCount(u, b, lines, keep)
           q == PushRows(g, b, drop)
           B == Fitted(u, b, drop, lines, columns)
           foot == ShiftedUp(keep, drop)
           C == [u.altSavedCursor EXCEPT !.row = foot]
           z == [u EXCEPT !.altBuf = B, !.altSavedCursor = C, !.altLineWrapped = {}, !.altWrapNext = FALSE]
           f == ResizeInactiveBuffer(g, lines, columns)
<1>1. keep \in 0 .. n - 1
  BY DEF CursorSet
<1>2. /\ drop \in 0 .. n /\ PlainIn(B, 0, lines) /\ PlainIn(b, 0, drop)
      /\ Spell(b, 0, n) = Spell(b, 0, drop) \o Spell(B, 0, lines)
      /\ Spell(B, 0, lines) \in Seq(Digits)
      /\ foot \in 0 .. lines - 1 /\ MuteIn(B, foot, lines - foot)
  <2>1. IsBuffer(b, n, c0) /\ PlainIn(b, 0, n) /\ MuteIn(b, keep, n - keep)
    OBVIOUS
  <2> HIDE DEF b, keep, u
  <2>2. keep \in 0 .. n - 1 /\ lines \in Nat \ {0} /\ columns \in Nat \ {0}
    BY <1>1
  <2>3. Fits(b, n, keep, drop, B, lines)
    BY <2>1, <2>2, FitPage
  <2> HIDE DEF drop, B
  <2> QED
    BY <2>3 DEF Fits
<1>3. CursorShiftedUp(u.altSavedCursor, drop) = C
  <2> HIDE DEF drop
  <2> QED
    BY DEF CursorShiftedUp, CursorSet
<1>4. f = [q EXCEPT !.s.altBuf = B, !.s.altSavedCursor = CursorShiftedUp(@, drop),
                    !.s.altLineWrapped = {}, !.s.altWrapNext = FALSE]
  BY DEF ResizeInactiveBuffer, Fitted
<1> HIDE DEF drop, B
<1>5. TopOK(q) /\ q.s = u
  <2>1. \A i \in 0 .. drop - 1 : b[i] \in Row
    <3> SUFFICES ASSUME NEW i \in 0 .. drop - 1 PROVE b[i] \in Row
      OBVIOUS
    <3>1. i \in 0 .. 0 + drop - 1
      BY <1>2
    <3>2. PlainRow(b[i])
      BY <1>2, <3>1 DEF PlainIn
    <3> QED
      BY <3>2 DEF PlainRow
  <2>2. drop \in Nat
    BY <1>2
  <2> HIDE DEF b
  <2> QED
    BY <2>1, <2>2, PushRowsOK DEF Later
<1> HIDE DEF q
<1>6. f = Lift(q, z)
  <2>1. q.s.altSavedCursor = u.altSavedCursor
    BY <1>5
  <2>2. f = [q EXCEPT !.s.altBuf = B, !.s.altSavedCursor = C, !.s.altLineWrapped = {}, !.s.altWrapNext = FALSE]
    <3> DEFINE c == u.altSavedCursor
    <3>1. CursorShiftedUp(c, drop) = C
      BY <1>3
    <3> HIDE DEF C, c, f
    <3> QED
      BY <1>4, <1>5, <2>1, <3>1 DEF HasFields, TopOK, c
  <2> HIDE DEF C, f
  <2> QED
    BY <1>5, <2>2 DEF Lift, HasFields, TopOK
<1>7. f.top = q.top /\ f.firstSeq = q.firstSeq /\ f.s = z
  <2> HIDE DEF z, f
  <2> QED
    BY <1>5, <1>6, Lifted
<1>8. C # NoCursor /\ C.col = u.altSavedCursor.col /\ C.row = foot
  <2>1. DOMAIN C = {"row", "col", "attr", "hidden"} /\ C.row = foot /\ C.col = u.altSavedCursor.col
    BY DEF CursorSet
  <2>2. DOMAIN NoCursor = {}
    BY DEF NoCursor
  <2> HIDE DEF C
  <2> QED
    BY <2>1, <2>2
<1> HIDE DEF C
<1>9. /\ HasFields(z) /\ z.mode = u.mode /\ z.charset = u.charset /\ z.g0 = u.g0 /\ z.panicked = u.panicked
      /\ z.altBuf = B /\ z.altSavedCursor = C /\ z.altWrapNext = FALSE /\ z.buf = u.buf
  BY DEF HasFields
<1>10. "conformanceExplicit" \in DOMAIN z /\ z.conformanceExplicit = u.conformanceExplicit
  OBVIOUS
<1> HIDE DEF z, f, foot
<1>11. PlainTop(f) /\ Heard(f, Spell(f.s.altBuf, 0, lines), p)
  <2> DEFINE T == Spell(B, 0, lines)
  <2>1. T \in Seq(Digits) /\ drop \in Nat /\ PlainIn(b, 0, drop) /\ Spell(b, 0, n) = Spell(b, 0, drop) \o T
    BY <1>2
  <2>2. Heard(g, Spell(b, 0, n), p)
    OBVIOUS
  <2> HIDE DEF T, b
  <2>3. Heard(g, Spell(b, 0, drop) \o T, p)
    BY <2>1, <2>2
  <2>4. PlainTop(q) /\ Heard(q, T, p)
    BY <2>1, <2>3, PushesHeard DEF q
  <2> QED
    BY <1>7, <1>9, <2>4, SameTop DEF T
<1>12. Hushed(u, f.s)
  BY <1>7, <1>9, <1>10 DEF Hushed
<1> QED
  BY <1>2, <1>7, <1>8, <1>9, <1>11, <1>12 DEF f, StashKept

(* Outside full-screen programs the other buffer is only blanked. *)
LEMMA BlankedStash ==
    ASSUME NEW g, TopOK(g), HasFields(g.s), ~g.s.altActive, "conformanceExplicit" \in DOMAIN g.s,
           NEW lines, NEW columns
    PROVE  LET f == ResizeInactiveBuffer(g, lines, columns)
           IN  /\ Hushed(g.s, f.s) /\ f.s.buf = g.s.buf /\ f.s.row = g.s.row
               /\ f.top = g.top /\ f.firstSeq = g.firstSeq
<1> DEFINE u == g.s
           D == BlankBuffer(lines, columns)
           z == [u EXCEPT !.altBuf = D, !.altLineWrapped = {}, !.altWrapNext = FALSE]
           f == ResizeInactiveBuffer(g, lines, columns)
<1>1. CASE u.altBuf = NoBuffer
  <2>1. f = g
    BY <1>1 DEF ResizeInactiveBuffer
  <2> QED
    BY <2>1 DEF Hushed
<1>2. CASE u.altBuf # NoBuffer
  <2>1. f = [g EXCEPT !.s.altBuf = D, !.s.altLineWrapped = {}, !.s.altWrapNext = FALSE]
    BY <1>2 DEF ResizeInactiveBuffer
  <2> HIDE DEF D
  <2>2. f = Lift(g, z)
    BY <2>1 DEF Lift, HasFields, TopOK
  <2>3. f.top = g.top /\ f.firstSeq = g.firstSeq /\ f.s = z
    <3> HIDE DEF z, f
    <3> QED
      BY <2>2, Lifted
  <2>4. /\ HasFields(z) /\ z.mode = u.mode /\ z.charset = u.charset /\ z.g0 = u.g0 /\ z.panicked = u.panicked
        /\ z.buf = u.buf /\ z.row = u.row
    BY DEF HasFields
  <2>5. "conformanceExplicit" \in DOMAIN z /\ z.conformanceExplicit = u.conformanceExplicit
    OBVIOUS
  <2> HIDE DEF z, f
  <2> QED
    BY <2>3, <2>4, <2>5 DEF Hushed, f
<1> QED
  BY <1>1, <1>2

(* Through a change of size the shell's text stays. *)
LEMMA ResizeShell ==
    ASSUME NEW g, NEW p, ShellOK(g, p), NEW lines \in Nat \ {0}, NEW columns \in Nat, columns > 1
    PROVE  ShellOK(HResize(g, lines, columns), p)
<1> DEFINE s == g.s
           n == s.lines
           e == ResizeLive(g, lines, columns)
           f == ResizeInactiveBuffer(e, lines, columns)
           u == f.s
           t == [u EXCEPT !.lines = lines, !.columns = columns, !.margins = NoMargins, !.leftMargin = 0,
                          !.col = MinOf(@, columns - 1), !.lineWrapped = {}, !.wrapNext = FALSE]
           h1 == HResize(g, lines, columns)
<1>1. TopOK(g) /\ ScreenOK(s) /\ Quiet(s) /\ PlainTop(g) /\ Heard(g, PageText(s), p) /\ ~s.panicked
  BY DEF ShellOK, Tame, Quiet
<1>2. columns \in Nat \ {0}
  OBVIOUS
<1>3. HistoryOK(h1) /\ HistoryOK(g)
  <2>1. HistoryOK(g)
    BY <1>1 DEF HistoryOK, Fine
  <2> QED
    BY <1>1, <1>2, <2>1, HResizeOK
<1>4. h1 = g \/ h1 = Lift(f, t)
  <2>1. AtLeast1(lines) = lines /\ AtLeast1(columns) = columns
    BY <1>2 DEF AtLeast1
  <2> QED
    BY <2>1 DEF HResize
<1>5. Later(g, e) /\ Refitted(s, e.s, lines, columns) /\ Stashed(s, e.s)
  BY <1>1, <1>2, ResizeLiveOK
<1>6. /\ n \in Nat \ {0} /\ s.columns \in Nat \ {0} /\ s.row \in 0 .. n - 1 /\ s.altActive \in BOOLEAN
      /\ s.altActive => IsBuffer(s.altBuf, n, s.columns)
      /\ s.altSavedCursor # NoCursor => s.altSavedCursor \in CursorSet
  BY <1>1 DEF ScreenOK, Afloat
<1>7. /\ e.s.altActive = s.altActive /\ e.s.altBuf = s.altBuf /\ e.s.altSavedCursor = s.altSavedCursor
      /\ e.s.col = s.col
  BY <1>5 DEF Refitted, Stashed
<1>8. TopOK(e)
  BY <1>5 DEF Later
<1>9. Later(e, f) /\ Refitted(s, u, lines, columns)
  BY <1>1, <1>2, <1>5, <1>8, ResizeInactiveBufferOK
<1>10. HasFields(u) /\ u.altActive = s.altActive /\ u.col = s.col /\ TopOK(f)
  BY <1>9 DEF Refitted, Later
(* Whatever the first two steps do, this is what the third one leaves. *)
<1>11. ASSUME Hushed(s, u), PlainTop(f),
              s.altActive => /\ u.altSavedCursor # NoCursor /\ u.altSavedCursor.col = 0
                             /\ u.altSavedCursor.row < lines /\ u.altWrapNext = FALSE
                             /\ PlainIn(u.altBuf, 0, lines)
                             /\ MuteIn(u.altBuf, u.altSavedCursor.row, lines - u.altSavedCursor.row)
                             /\ PlainIn(u.buf, 0, lines) /\ MuteIn(u.buf, 0, lines)
                             /\ Heard(f, Spell(u.altBuf, 0, lines), p),
              ~s.altActive => /\ PlainIn(u.buf, 0, lines) /\ MuteIn(u.buf, u.row, lines - u.row)
                              /\ u.col = 0 /\ Heard(f, Spell(u.buf, 0, lines), p)
       PROVE  h1 = Lift(f, t) => ShellOK(h1, p)
  <2> HIDE DEF e, f, u, h1
  <2>1. /\ HasFields(t) /\ t.lines = lines /\ t.columns = columns /\ t.margins = NoMargins
        /\ t.wrapNext = FALSE /\ t.col = MinOf(u.col, columns - 1)
    BY <1>10 DEF HasFields
  <2>2. /\ t.buf = u.buf /\ t.row = u.row /\ t.altBuf = u.altBuf /\ t.altActive = u.altActive
        /\ t.altSavedCursor = u.altSavedCursor /\ t.altWrapNext = u.altWrapNext
    BY <1>10 DEF HasFields
  <2>3. /\ t.charset = u.charset /\ t.g0 = u.g0 /\ t.mode = u.mode /\ t.panicked = u.panicked
    BY <1>10 DEF HasFields
  <2>4. "conformanceExplicit" \in DOMAIN t /\ t.conformanceExplicit = u.conformanceExplicit
    BY <1>11 DEF Hushed
  <2> HIDE DEF t
  <2>5. Lift(f, t).top = f.top /\ Lift(f, t).firstSeq = f.firstSeq /\ Lift(f, t).s = t
    BY <1>10, Lifted
  <2>6. Quiet(t)
    <3>1. u.mode = s.mode /\ u.charset = s.charset /\ u.g0 = s.g0 /\ u.panicked = s.panicked
          /\ u.conformanceExplicit = s.conformanceExplicit
      BY <1>11 DEF Hushed
    <3> QED
      BY <1>1, <2>1, <2>3, <2>4, <3>1 DEF Quiet
  <2>7. t.altActive => Behind(t)
    BY <1>10, <1>11, <2>1, <2>2 DEF Behind
  <2>8. ~t.altActive => Foreground(t)
    <3>1. MinOf(0, columns - 1) = 0
      BY DEF MinOf
    <3> QED
      BY <1>10, <1>11, <2>1, <2>2, <3>1 DEF Foreground
  <2>9. ASSUME h1 = Lift(f, t) PROVE ShellOK(h1, p)
    <3>1. h1.s = t /\ h1.top = f.top /\ h1.firstSeq = f.firstSeq
      BY <2>5, <2>9
    <3>2. TopOK(h1) /\ ScreenOK(t)
      BY <1>3, <3>1 DEF HistoryOK, Fine
    <3>3. Heard(f, PageText(t), p)
      BY <1>6, <1>10, <1>11, <2>1, <2>2 DEF PageText
    <3>4. PlainTop(h1) /\ Heard(h1, PageText(t), p)
      BY <1>11, <3>1, <3>3, SameTop
    <3> QED
      BY <2>6, <2>7, <2>8, <3>1, <3>2, <3>4 DEF ShellOK, Tame
  <2> QED
    BY <2>9
<1>12. CASE s.altActive
  <2> DEFINE T == Spell(s.altBuf, 0, n)
  <2>1. Behind(s) /\ PageText(s) = T
    BY <1>12 DEF ShellOK, Tame, PageText
  <2>2. /\ PlainIn(s.buf, 0, n) /\ MuteIn(s.buf, 0, n) /\ PlainIn(s.altBuf, 0, n)
        /\ s.altSavedCursor # NoCursor /\ s.altSavedCursor.col = 0 /\ s.altSavedCursor.row < n
        /\ MuteIn(s.altBuf, s.altSavedCursor.row, n - s.altSavedCursor.row)
    BY <2>1 DEF Behind
  <2>3. MuteIn(s.buf, s.row, n - s.row)
    <3>1. s.row \in 0 .. n /\ n \in Nat
      BY <1>6
    <3> QED
      BY <2>2, <3>1, MuteFrom
  <2>4. T \in Seq(Digits)
    <3>1. 0 \in Nat /\ n \in Nat
      BY <1>6
    <3> QED
      BY <2>2, <3>1, SpellType
  <2> HIDE DEF T
  <2>5. Heard(g, T, p)
    BY <1>1, <2>1
  <2>6. /\ Hushed(s, e.s) /\ PlainIn(e.s.buf, 0, lines) /\ MuteIn(e.s.buf, 0, lines)
        /\ PlainTop(e) /\ Heard(e, T, p)
    BY <1>1, <1>2, <2>2, <2>3, <2>4, <2>5, LiveShell
  <2> HIDE DEF e, s
  <2>7. Heard(e, Spell(e.s.altBuf, 0, n), p)
    BY <1>7, <2>6 DEF T
  <2>8. /\ Hushed(e.s, u) /\ u.altWrapNext = FALSE /\ u.buf = e.s.buf
        /\ PlainTop(f) /\ Heard(f, Spell(u.altBuf, 0, lines), p)
        /\ PlainIn(u.altBuf, 0, lines)
        /\ MuteIn(u.altBuf, u.altSavedCursor.row, lines - u.altSavedCursor.row)
        /\ u.altSavedCursor # NoCursor /\ u.altSavedCursor.col = s.altSavedCursor.col
        /\ u.altSavedCursor.row \in 0 .. lines - 1
    <3>1. HasFields(e.s) /\ "conformanceExplicit" \in DOMAIN e.s
      BY <2>6 DEF Hushed
    <3>2. e.s.altActive /\ IsBuffer(e.s.altBuf, n, s.columns) /\ e.s.altSavedCursor \in CursorSet
      BY <1>6, <1>7, <1>12, <2>2
    <3>3. n \in Nat \ {0} /\ s.columns \in Nat \ {0}
      BY <1>6
    <3>4. /\ PlainIn(e.s.altBuf, 0, n) /\ e.s.altSavedCursor # NoCursor /\ e.s.altSavedCursor.row < n
          /\ MuteIn(e.s.altBuf, e.s.altSavedCursor.row, n - e.s.altSavedCursor.row)
          /\ e.s.altSavedCursor.col = s.altSavedCursor.col
      BY <1>7, <2>2
    <3>5. TopOK(e) /\ PlainTop(e)
      BY <1>8, <2>6
    <3> DEFINE w == s.columns
    <3>6. w \in Nat \ {0} /\ n \in Nat \ {0} /\ IsBuffer(e.s.altBuf, n, w)
      BY <3>2, <3>3
    <3> HIDE DEF n, w
    <3>7. StashKept(e.s, ResizeInactiveBuffer(e, lines, columns), lines, p)
      BY <1>2, <2>7, <3>1, <3>2, <3>4, <3>5, <3>6, StashedShell
    <3>8. StashKept(e.s, f, lines, p)
      BY <3>7
    <3> HIDE DEF f
    <3> QED
      BY <3>4, <3>8 DEF StashKept
  <2>9. Hushed(s, u)
    BY <2>6, <2>8 DEF Hushed
  <2>10. u.altSavedCursor.row < lines
    BY <2>8
  <2>11. h1 = g => ShellOK(h1, p)
    OBVIOUS
  <2> HIDE DEF u, f, t, h1
  <2>12. ShellOK(h1, p)
    BY <1>4, <1>11, <1>12, <2>2, <2>6, <2>8, <2>9, <2>10, <2>11
  <2> QED
    BY <2>12 DEF h1
<1>13. CASE ~s.altActive
  <2> DEFINE T == Spell(s.buf, 0, n)
  <2>1. Foreground(s) /\ PageText(s) = T
    BY <1>13 DEF ShellOK, Tame, PageText
  <2>2. /\ PlainIn(s.buf, 0, n) /\ MuteIn(s.buf, s.row, n - s.row) /\ s.col = 0
    BY <2>1 DEF Foreground
  <2>3. Heard(g, T, p)
    BY <1>1, <2>1
  <2>4. <<>> \in Seq(Digits)
    OBVIOUS
  <2>5. /\ Hushed(s, e.s) /\ PlainIn(e.s.buf, 0, lines) /\ MuteIn(e.s.buf, e.s.row, lines - e.s.row)
        /\ PlainTop(e) /\ Heard(e, Spell(e.s.buf, 0, lines), p)
    BY <1>1, <1>2, <2>2, <2>3, <2>4, LiveShell
  <2> HIDE DEF e, s, T
  <2>6. /\ Hushed(e.s, u) /\ u.buf = e.s.buf /\ u.row = e.s.row
        /\ f.top = e.top /\ f.firstSeq = e.firstSeq
    <3>1. HasFields(e.s) /\ "conformanceExplicit" \in DOMAIN e.s /\ ~e.s.altActive
      BY <1>7, <1>13, <2>5 DEF Hushed
    <3> QED
      BY <1>8, <3>1, BlankedStash
  <2> HIDE DEF u, f, t, h1
  <2>7. Hushed(s, u)
    BY <2>5, <2>6 DEF Hushed
  <2>8. PlainTop(f) /\ Heard(f, Spell(u.buf, 0, lines), p)
    BY <2>5, <2>6, SameTop
  <2>9. u.col = 0
    BY <1>10, <2>2
  <2>10. h1 = g => ShellOK(h1, p)
    BY DEF h1
  <2>11. ShellOK(h1, p)
    BY <1>4, <1>11, <1>13, <2>5, <2>6, <2>7, <2>8, <2>9, <2>10
  <2> QED
    BY <2>11 DEF h1
<1> QED
  BY <1>12, <1>13

-----------------------------------------------------------------------------
(* Through a live upgrade it stays too: trimming takes blank cells only.    *)

LEMMA RepaddedPlain ==
    ASSUME NEW s, s.columns \in Nat, NEW row, PlainRow(row)
    PROVE  /\ PlainRow(Repadded(s, row)) /\ RowText(Repadded(s, row)) = RowText(row)
           /\ Mute(row) => Mute(Repadded(s, row))
<1> DEFINE t == Repadded(s, row)
<1>1. PICK n \in Nat : row \in [0 .. n - 1 -> Cell]
  BY DEF PlainRow, Row
<1>2. PICK k \in 0 .. n : t = [c \in 0 .. MaxOf(k, s.columns) - 1 |-> IF c < k THEN row[c] ELSE DefaultCell(s)]
  BY <1>1, RepaddedIs
<1> DEFINE m == MaxOf(k, s.columns)
<1>3. m \in Nat
  BY DEF MaxOf
<1>4. t \in Row
  BY <1>1, RepaddedRow
<1>5. t = [c \in 0 .. m - 1 |-> IF c < k THEN row[c] ELSE DefaultCell(s)]
  BY <1>2
<1>6. DefaultCell(s).d = Blank
  BY DEF DefaultCell
<1> HIDE DEF t, m
<1>7. PlainRow(t)
  <2> SUFFICES ASSUME NEW c \in DOMAIN t
               PROVE  IF c = 0 THEN t[c].d \in {Blank, <<"#">>} \union Written ELSE t[c].d = Blank
    BY <1>4 DEF PlainRow
  <2>1. c \in 0 .. m - 1
    BY <1>5
  <2>2. t[c] = IF c < k THEN row[c] ELSE DefaultCell(s)
    BY <1>5, <2>1
  <2>3. c < k => c \in DOMAIN row
    BY <1>1, <1>3, <2>1
  <2>4. c < k => IF c = 0 THEN row[c].d \in {Blank, <<"#">>} \union Written ELSE row[c].d = Blank
    BY <2>3 DEF PlainRow
  <2> QED
    BY <1>6, <2>2, <2>4
<1>8. RowText(t) = RowText(row)
  <2>1. row \in Row
    BY DEF PlainRow
  <2> QED
    BY <2>1, RepaddedText DEF t
<1>9. Mute(row) => Mute(t)
  BY <1>7, <1>8, MuteIsText
<1> QED
  BY <1>7, <1>8, <1>9 DEF t

Repages(b, d, n, m) ==
    /\ PlainIn(d, 0, n) /\ Spell(d, 0, n) = Spell(b, 0, n)
    /\ MuteIn(b, m, n - m) => MuteIn(d, m, n - m)
LEMMA RepaddedPage ==
    ASSUME NEW s, s.columns \in Nat, NEW n \in Nat, NEW b, DOMAIN b = 0 .. n - 1, PlainIn(b, 0, n),
           NEW m \in 0 .. n
    PROVE  Repages(b, RepaddedBuffer(s, b), n, m)
<1> DEFINE d == RepaddedBuffer(s, b)
<1>1. ASSUME NEW r \in 0 .. n - 1
      PROVE  PlainRow(d[r]) /\ RowText(d[r]) = RowText(b[r]) /\ (Mute(b[r]) => Mute(d[r]))
  <2>1. r \in 0 .. 0 + n - 1
    OBVIOUS
  <2>2. PlainRow(b[r])
    BY <2>1 DEF PlainIn
  <2>3. d[r] = Repadded(s, b[r])
    BY DEF RepaddedBuffer
  <2> QED
    BY <2>2, <2>3, RepaddedPlain
<1> HIDE DEF d
<1>2. PlainIn(d, 0, n)
  BY <1>1 DEF PlainIn
<1>3. Spell(d, 0, n) = Spell(b, 0, n)
  <2> DEFINE i == 0
  <2>1. \A k \in 0 .. n - 1 : RowText(d[i + k]) = RowText(b[i + k])
    BY <1>1
  <2>2. i \in Nat /\ AlikeIn(d, i, b, i, n)
    BY <2>1 DEF AlikeIn
  <2> HIDE DEF i
  <2>3. Spell(d, i, n) = Spell(b, i, n)
    BY <2>2, SpellSame
  <2> QED
    BY <2>3 DEF i
<1>4. ASSUME MuteIn(b, m, n - m) PROVE MuteIn(d, m, n - m)
  <2> SUFFICES ASSUME NEW r \in m .. m + (n - m) - 1 PROVE Mute(d[r])
    BY DEF MuteIn
  <2>1. r \in 0 .. n - 1
    OBVIOUS
  <2>2. Mute(b[r])
    BY <1>4 DEF MuteIn
  <2> QED
    BY <1>1, <2>1, <2>2
<1> QED
  BY <1>2, <1>3, <1>4 DEF Repages, d

LEMMA UpgradeShell ==
    ASSUME NEW g, NEW p, ShellOK(g, p) PROVE ShellOK(Upgraded(g), p)
<1> DEFINE s == g.s
           n == s.lines
           f == Upgraded(g)
           t == f.s
           b == RepaddedBuffer(s, s.buf)
           a == RepaddedBuffer(s, s.altBuf)
<1>1. TopOK(g) /\ ScreenOK(s) /\ Quiet(s) /\ PlainTop(g) /\ Heard(g, PageText(s), p) /\ ~s.panicked
  BY DEF ShellOK, Tame, Quiet
<1>2. /\ HistoryOK(f) /\ t = UpgradedScreen(s)
      /\ f.firstSeq = g.firstSeq /\ f.totalAdded = g.totalAdded
      /\ \A i \in 1 .. Len(g.top) : f.top[i] = Repadded(s, g.top[i])
  <2>1. HistoryOK(g)
    BY <1>1 DEF HistoryOK, Fine
  <2> QED
    BY <1>1, <2>1, UpgradedOK
<1>3. /\ n \in Nat \ {0} /\ s.columns \in Nat \ {0} /\ s.row \in 0 .. n - 1 /\ s.altActive \in BOOLEAN
      /\ IsBuffer(s.buf, n, s.columns) /\ (s.altActive => IsBuffer(s.altBuf, n, s.columns))
      /\ s.altSavedCursor # NoCursor => s.altSavedCursor \in CursorSet
      /\ HasFields(s)
  BY <1>1 DEF ScreenOK, Afloat
<1>4. TopOK(f) /\ ScreenOK(t)
  BY <1>2 DEF HistoryOK, Fine
<1> HIDE DEF f, a, b
<1>5. /\ t.buf = b /\ t.altBuf = a /\ t.lines = n /\ t.columns = s.columns /\ t.row = s.row /\ t.col = s.col
      /\ t.wrapNext = s.wrapNext /\ t.altWrapNext = s.altWrapNext /\ t.altActive = s.altActive
      /\ t.altSavedCursor = s.altSavedCursor
  BY <1>2, <1>3 DEF UpgradedScreen, HasFields, a, b
<1>6. Quiet(t)
  <2>1. /\ t.margins = s.margins /\ t.mode = s.mode /\ t.charset = s.charset /\ t.g0 = s.g0
        /\ t.panicked = s.panicked
    BY <1>2, <1>3 DEF UpgradedScreen, HasFields
  <2>2. "conformanceExplicit" \in DOMAIN t /\ t.conformanceExplicit = s.conformanceExplicit
    <3>1. "conformanceExplicit" \in DOMAIN s
      BY <1>1 DEF Quiet
    <3> QED
      BY <1>2, <3>1 DEF UpgradedScreen
  <2> QED
    BY <1>1, <1>5, <2>1, <2>2 DEF Quiet
<1> HIDE DEF t
<1>7. Len(f.top) = Len(g.top) /\ Len(g.top) \in Nat
  BY <1>1, <1>2, <1>4 DEF TopOK
<1>8. PlainTop(f) /\ Spell(f.top, 1, Len(f.top)) = Spell(g.top, 1, Len(g.top))
  <2> DEFINE l == Len(g.top)
             i == 1
  <2>1. ASSUME NEW k \in 1 .. l PROVE PlainRow(f.top[k]) /\ RowText(f.top[k]) = RowText(g.top[k])
    <3>1. k \in 1 .. 1 + l - 1
      BY <1>7
    <3>2. PlainRow(g.top[k])
      BY <1>1, <3>1 DEF PlainTop, PlainIn
    <3> QED
      BY <1>2, <1>3, <3>2, RepaddedPlain
  <2>2. l \in Nat /\ i \in Nat /\ Len(f.top) = l
    BY <1>7
  <2> HIDE DEF l
  <2>3. PlainTop(f)
    <3>1. \A k \in 1 .. 1 + l - 1 : k \in 1 .. l
      BY <2>2
    <3> QED
      BY <2>1, <2>2, <3>1 DEF PlainTop, PlainIn
  <2>4. AlikeIn(f.top, i, g.top, i, l)
    <3>1. \A k \in 0 .. l - 1 : i + k \in 1 .. l
      BY <2>2
    <3> QED
      BY <2>1, <3>1 DEF AlikeIn
  <2> HIDE DEF i
  <2>5. Spell(f.top, i, l) = Spell(g.top, i, l)
    BY <2>2, <2>4, SpellSame
  <2> QED
    BY <2>2, <2>3, <2>5 DEF i, l
<1>9. \A x : Heard(g, x, p) => Heard(f, x, p)
  BY <1>2, <1>8 DEF Heard
<1>10. CASE s.altActive
  <2>1. Behind(s)
    BY <1>10 DEF ShellOK, Tame
  <2> DEFINE m == s.altSavedCursor.row
  <2>2. /\ PlainIn(s.buf, 0, n) /\ MuteIn(s.buf, 0, n) /\ PlainIn(s.altBuf, 0, n)
        /\ s.altSavedCursor # NoCursor /\ s.altSavedCursor.col = 0 /\ m < n
        /\ MuteIn(s.altBuf, m, n - m) /\ s.altWrapNext = FALSE
    BY <2>1 DEF Behind
  <2>3. m \in 0 .. n /\ n \in Nat /\ s.columns \in Nat /\ 0 \in 0 .. n /\ n - 0 = n
    BY <1>3, <2>2 DEF CursorSet
  <2>4. DOMAIN s.buf = 0 .. n - 1 /\ DOMAIN s.altBuf = 0 .. n - 1
    BY <1>3, <1>10 DEF IsBuffer
  <2> HIDE DEF m, n, s
  <2>5. Repages(s.altBuf, a, n, m)
    BY <2>2, <2>3, <2>4, RepaddedPage DEF a
  <2>6. Repages(s.buf, b, n, 0)
    BY <2>2, <2>3, <2>4, RepaddedPage DEF b
  <2>7. Behind(t)
    <3>1. PlainIn(a, 0, n) /\ MuteIn(a, m, n - m) /\ PlainIn(b, 0, n) /\ MuteIn(b, 0, n)
      BY <2>2, <2>3, <2>5, <2>6 DEF Repages
    <3> QED
      BY <1>5, <2>2, <3>1 DEF Behind, m
  <2>8. PageText(t) = PageText(s)
    BY <1>5, <1>10, <2>5 DEF PageText, Repages, n
  <2> QED
    BY <1>1, <1>4, <1>5, <1>6, <1>8, <1>9, <1>10, <2>7, <2>8 DEF ShellOK, Tame, f, t
<1>11. CASE ~s.altActive
  <2>1. Foreground(s)
    BY <1>11 DEF ShellOK, Tame
  <2> DEFINE m == s.row
  <2>2. PlainIn(s.buf, 0, n) /\ MuteIn(s.buf, m, n - m) /\ s.col = 0 /\ s.wrapNext = FALSE
    BY <2>1 DEF Foreground
  <2>3. m \in 0 .. n /\ n \in Nat /\ s.columns \in Nat
    BY <1>3
  <2>4. DOMAIN s.buf = 0 .. n - 1
    BY <1>3 DEF IsBuffer
  <2> HIDE DEF m, n, s
  <2>5. Repages(s.buf, b, n, m)
    BY <2>2, <2>3, <2>4, RepaddedPage DEF b
  <2>6. Foreground(t)
    <3>1. PlainIn(b, 0, n) /\ MuteIn(b, m, n - m)
      BY <2>2, <2>5 DEF Repages
    <3> QED
      BY <1>5, <2>2, <3>1 DEF Foreground, m
  <2>7. PageText(t) = PageText(s)
    BY <1>5, <1>11, <2>5 DEF PageText, Repages, n
  <2> QED
    BY <1>1, <1>4, <1>5, <1>6, <1>8, <1>9, <1>11, <2>6, <2>7 DEF ShellOK, Tame, f, t
<1> QED
  BY <1>10, <1>11

-----------------------------------------------------------------------------
(* What the shell and its full-screen programs write, one operation at a    *)
(* time.  Stays: neither modes, sizes nor the stashed buffer change.        *)

Stays(s, t) ==
    /\ Hushed(s, t)
    /\ t.lines = s.lines /\ t.columns = s.columns /\ t.margins = s.margins
    /\ t.altActive = s.altActive /\ t.altBuf = s.altBuf
    /\ t.altSavedCursor = s.altSavedCursor /\ t.altWrapNext = s.altWrapNext
Shelled(s) == ScreenOK(s) /\ Quiet(s)

LEMMA StaysTwice == ASSUME NEW s, NEW t, NEW u, Stays(s, t), Stays(t, u) PROVE Stays(s, u)
  BY DEF Stays, Hushed

LEMMA StaysShelled ==
    ASSUME NEW s, Shelled(s), NEW t, Stays(s, t), ScreenOK(t) PROVE Shelled(t)
  BY DEF Stays, Hushed, Shelled, Quiet

LEMMA ModesAre ==
    ASSUME NEW s, Shelled(s)
    PROVE  /\ ~Has(s, "DECLRMM") /\ ~Has(s, "IRM") /\ ~Has(s, "LNM") /\ ~Has(s, "DECOM")
           /\ Left(s) = 0 /\ Right(s) = s.columns - 1 /\ DrawLimit(s) = s.columns - 1
           /\ ScrollTop(s) = 0 /\ ScrollBottom(s) = s.lines - 1
           /\ s.lines \in Nat \ {0} /\ s.columns \in Nat \ {0} /\ s.columns > 1
           /\ s.row \in 0 .. s.lines - 1 /\ IsBuffer(s.buf, s.lines, s.columns)
           /\ ~s.panicked /\ HasFields(s) /\ "conformanceExplicit" \in DOMAIN s
           /\ s.altActive \in BOOLEAN
<1>1. ~Has(s, "DECLRMM") /\ ~Has(s, "IRM") /\ ~Has(s, "LNM") /\ ~Has(s, "DECOM")
  BY DEF Shelled, Quiet, ResetModes, Has
<1>2. s.margins = NoMargins /\ s.columns > 1 /\ ~s.panicked /\ "conformanceExplicit" \in DOMAIN s
  BY DEF Shelled, Quiet
<1>3. /\ s.lines \in Nat \ {0} /\ s.columns \in Nat \ {0} /\ s.row \in 0 .. s.lines - 1
      /\ IsBuffer(s.buf, s.lines, s.columns) /\ HasFields(s) /\ s.altActive \in BOOLEAN
  BY DEF Shelled, ScreenOK, Afloat
<1>4. Left(s) = 0 /\ Right(s) = s.columns - 1 /\ DrawLimit(s) = s.columns - 1
  BY <1>1 DEF Left, Right, DrawLimit
<1>5. ScrollTop(s) = 0 /\ ScrollBottom(s) = s.lines - 1
  BY <1>2 DEF ScrollTop, ScrollBottom
<1> QED
  BY <1>1, <1>2, <1>3, <1>4, <1>5

LEMMA AfterIs ==
    ASSUME NEW g, TopOK(g), ~g.s.panicked, HasFields(g.s), "conformanceExplicit" \in DOMAIN g.s
    PROVE  LET f == AfterEvent(g)
           IN  /\ f.top = g.top /\ f.firstSeq = g.firstSeq /\ Stays(g.s, f.s)
               /\ f.s.buf = g.s.buf /\ f.s.row = g.s.row /\ f.s.col = g.s.col /\ f.s.wrapNext = g.s.wrapNext
<1> DEFINE s == g.s
           x == ~Has(s, "DECTCEM")
           t == [s EXCEPT !.hidden = x]
           f == AfterEvent(g)
<1>1. f = Lift(g, t)
  BY DEF AfterEvent, Lift
<1> HIDE DEF x
<1>2. /\ HasFields(t) /\ t.mode = s.mode /\ t.charset = s.charset /\ t.g0 = s.g0 /\ t.panicked = s.panicked
      /\ t.lines = s.lines /\ t.columns = s.columns /\ t.margins = s.margins
  BY DEF HasFields
<1>3. /\ t.altActive = s.altActive /\ t.altBuf = s.altBuf
      /\ t.altSavedCursor = s.altSavedCursor /\ t.altWrapNext = s.altWrapNext
      /\ t.buf = s.buf /\ t.row = s.row /\ t.col = s.col /\ t.wrapNext = s.wrapNext
  BY DEF HasFields
<1>4. "conformanceExplicit" \in DOMAIN t /\ t.conformanceExplicit = s.conformanceExplicit
  OBVIOUS
<1> HIDE DEF t, f
<1>5. f.top = g.top /\ f.firstSeq = g.firstSeq /\ f.s = t
  BY <1>1, Lifted
<1>6. Stays(s, t)
  BY <1>2, <1>3, <1>4 DEF Stays, Hushed
<1> QED
  BY <1>3, <1>5, <1>6 DEF f

LEMMA ReturnIs ==
    ASSUME NEW s, Shelled(s)
    PROVE  LET t == CarriageReturn(s)
           IN  Stays(s, t) /\ t.buf = s.buf /\ t.row = s.row /\ t.col = 0 /\ t.wrapNext = FALSE
<1> DEFINE t == [s EXCEPT !.wrapNext = FALSE, !.col = 0]
<1>1. HasFields(s) /\ "conformanceExplicit" \in DOMAIN s /\ ~Has(s, "DECLRMM")
  BY ModesAre
<1>2. CarriageReturn(s) = t
  BY <1>1 DEF CarriageReturn
<1>3. /\ HasFields(t) /\ t.mode = s.mode /\ t.charset = s.charset /\ t.g0 = s.g0 /\ t.panicked = s.panicked
      /\ t.lines = s.lines /\ t.columns = s.columns /\ t.margins = s.margins
  BY <1>1 DEF HasFields
<1>4. /\ t.altActive = s.altActive /\ t.altBuf = s.altBuf
      /\ t.altSavedCursor = s.altSavedCursor /\ t.altWrapNext = s.altWrapNext
      /\ t.buf = s.buf /\ t.row = s.row /\ t.col = 0 /\ t.wrapNext = FALSE
  BY <1>1 DEF HasFields
<1>5. "conformanceExplicit" \in DOMAIN t /\ t.conformanceExplicit = s.conformanceExplicit
  BY <1>1
<1> HIDE DEF t
<1> QED
  BY <1>2, <1>3, <1>4, <1>5 DEF Stays, Hushed

LEMMA PositionIs ==
    ASSUME NEW s, HasFields(s), "conformanceExplicit" \in DOMAIN s,
           ~Has(s, "DECOM"), ~Has(s, "DECLRMM"), NEW line \in Int, NEW column \in Int
    PROVE  LET t == CursorPosition(s, line, column)
           IN  /\ Stays(s, t) /\ t.buf = s.buf /\ t.wrapNext = FALSE
               /\ t.row = Clamp(AtLeast1(line) - 1, 0, s.lines - 1)
               /\ t.col = Clamp(AtLeast1(column) - 1, 0, s.columns - 1)
<1> DEFINE row == AtLeast1(line) - 1
           col == AtLeast1(column) - 1
           x == Clamp(col, 0, s.columns - 1)
           y == Clamp(row, 0, s.lines - 1)
           z == [s EXCEPT !.wrapNext = FALSE, !.row = row, !.col = col]
           w == EnsureHB(z)
           t == EnsureVB(w, FALSE)
<1>0. row + 0 = row /\ col + 0 = col
  BY DEF AtLeast1
<1> HIDE DEF row, col
<1>1. CursorPosition(s, line, column) = t
  BY <1>0 DEF CursorPosition, row, col
<1>2. /\ HasFields(z) /\ z.mode = s.mode /\ z.charset = s.charset /\ z.g0 = s.g0 /\ z.panicked = s.panicked
      /\ z.lines = s.lines /\ z.columns = s.columns /\ z.margins = s.margins
      /\ z.col = col /\ z.row = row /\ z.wrapNext = FALSE /\ z.buf = s.buf
  BY DEF HasFields
<1>3. /\ z.altActive = s.altActive /\ z.altBuf = s.altBuf
      /\ z.altSavedCursor = s.altSavedCursor /\ z.altWrapNext = s.altWrapNext
  BY DEF HasFields
<1>4. "conformanceExplicit" \in DOMAIN z /\ z.conformanceExplicit = s.conformanceExplicit
  OBVIOUS
<1> HIDE DEF z
<1>5. Stays(s, z)
  BY <1>2, <1>3, <1>4 DEF Stays, Hushed
<1>6. w = [z EXCEPT !.col = x]
  BY <1>2 DEF EnsureHB, Has
<1> HIDE DEF x, y, w
<1>7. /\ HasFields(w) /\ w.mode = z.mode /\ w.charset = z.charset /\ w.g0 = z.g0 /\ w.panicked = z.panicked
      /\ w.lines = z.lines /\ w.columns = z.columns /\ w.margins = z.margins
      /\ w.col = x /\ w.row = row /\ w.wrapNext = FALSE /\ w.buf = z.buf
  BY <1>2, <1>6 DEF HasFields
<1>8. /\ w.altActive = z.altActive /\ w.altBuf = z.altBuf
      /\ w.altSavedCursor = z.altSavedCursor /\ w.altWrapNext = z.altWrapNext
  BY <1>2, <1>6 DEF HasFields
<1>9. "conformanceExplicit" \in DOMAIN w /\ w.conformanceExplicit = z.conformanceExplicit
  BY <1>4, <1>6
<1>10. Stays(z, w)
  BY <1>7, <1>8, <1>9 DEF Stays, Hushed
<1>11. t = [w EXCEPT !.row = y]
  BY <1>2, <1>7 DEF EnsureVB, Has, y
<1> HIDE DEF t
<1>12. /\ HasFields(t) /\ t.mode = w.mode /\ t.charset = w.charset /\ t.g0 = w.g0 /\ t.panicked = w.panicked
       /\ t.lines = w.lines /\ t.columns = w.columns /\ t.margins = w.margins
       /\ t.col = x /\ t.row = y /\ t.wrapNext = FALSE /\ t.buf = w.buf
  BY <1>7, <1>11 DEF HasFields
<1>13. /\ t.altActive = w.altActive /\ t.altBuf = w.altBuf
       /\ t.altSavedCursor = w.altSavedCursor /\ t.altWrapNext = w.altWrapNext
  BY <1>7, <1>11 DEF HasFields
<1>14. "conformanceExplicit" \in DOMAIN t /\ t.conformanceExplicit = w.conformanceExplicit
  BY <1>9, <1>11
<1>15. Stays(w, t)
  BY <1>12, <1>13, <1>14 DEF Stays, Hushed
<1>16. Stays(s, t)
  BY <1>5, <1>10, <1>15, StaysTwice
<1> QED
  BY <1>1, <1>2, <1>7, <1>12, <1>16 DEF x, y, row, col

LEMMA Single == ASSUME NEW x PROVE <<x>>[1] = x /\ DOMAIN <<x>> = {1}
  OBVIOUS

LEMMA OneIsNarrow == ASSUME NEW w, w = 1 PROVE w # 2 /\ w > 0
  OBVIOUS

LEMMA NarrowWidth ==
    ASSUME NEW x, x \in Digits \union {" ", "#"}
    PROVE  Width(<<x>>) = 1 /\ Width(<<x>>) # 2 /\ <<x>> # Cont
<1> DEFINE e == <<x>>
           w == Width(e)
<1>1. e[1] = x /\ DOMAIN e = {1}
  BY Single, Zenon
<1>2. x \notin {"W", "+", "z"}
  BY Zenon DEF Digits
<1> HIDE DEF e
<1>3. w = 1
  BY <1>1, <1>2, Zenon DEF Width
<1> HIDE DEF w
<1>4. w # 2 /\ w > 0
  BY <1>3, OneIsNarrow, Zenon
<1>5. e # Cont
  BY <1>4, Widths, Zenon DEF w
<1> QED
  BY <1>3, <1>4, <1>5, Zenon DEF e, w

LEMMA DrawnIs ==
    ASSUME NEW s, Shelled(s), s.col = 0, s.wrapNext = FALSE, PlainRow(s.buf[s.row]),
           NEW x \in Digits \union {"#"}
    PROVE  LET t == Draw(s, <<<<x>>>>)
           IN  /\ Stays(s, t) /\ t.row = s.row
               /\ t.buf = [s.buf EXCEPT ![s.row] = [@ EXCEPT ![0] = [d |-> <<x>>, a |-> s.attr]]]
<1> DEFINE c == <<x>>
           b == [s |-> s, stop |-> FALSE]
           n == s.columns
           l == s.buf[s.row]
           cell == [d |-> c, a |-> s.attr]
           line == [l EXCEPT ![0] = cell]
           z == [s EXCEPT !.col = 0]
           v == [z EXCEPT !.buf[s.row] = line]
           t == [v EXCEPT !.lastDrawn = c, !.col = 1]
<1>0. s.panicked = FALSE
  BY DEF Shelled, Quiet
<1>1. /\ ~Has(s, "DECLRMM") /\ ~Has(s, "IRM") /\ n \in Nat \ {0} /\ n > 1 /\ ~s.panicked /\ HasFields(s)
      /\ s.lines \in Nat \ {0} /\ s.row \in 0 .. s.lines - 1 /\ IsBuffer(s.buf, s.lines, n)
      /\ DrawLimit(s) = n - 1 /\ "conformanceExplicit" \in DOMAIN s
  BY ModesAre
<1>2. Width(c) = 1 /\ ~(Width(c) = 2)
  <2>1. Width(c) = 1
    BY NarrowWidth, Zenon
  <2> QED
    BY <2>1
<1>3. Translate(s, c) = c
  BY DEF Translate, Shelled, Quiet
<1>4. Draw(s, <<c>>) = DrawWide(s, c)
  <2> HIDE DEF c
  <2>1. Draw(s, <<c>>) = DrawLaws!Fold(s, b, <<c>>).s
    BY DEF Draw, FoldLeft, MapThenFoldSet, Max, DrawLaws!Fold, DrawLaws!Greatest, DrawStep
  <2>2. DrawLaws!Fold(s, b, <<c>>) = DrawStep(s, b, c)
    BY RepeatInduction, DrawLaws!FoldSingle
  <2>3. DrawStep(s, b, c).s = DrawWide(s, c)
    BY <1>1, <1>2, <1>3 DEF DrawStep
  <2> HIDE DEF b
  <2> QED
    BY <2>1, <2>2, <2>3
<1>5. /\ HasFields(z) /\ z.mode = s.mode /\ z.columns = n /\ z.panicked = FALSE /\ z.buf = s.buf /\ z.row = s.row
      /\ z.col = 0 /\ z.attr = s.attr
  <2> QED
    BY <1>0, <1>1 DEF HasFields
<1>6. MakeRoom([s EXCEPT !.col = MinOf(@, DrawLimit(s))], Width(c)) = z
  <2>1. [s EXCEPT !.col = MinOf(@, DrawLimit(s))] = z
    <3>1. MinOf(s.col, DrawLimit(s)) = 0
      BY <1>1 DEF MinOf
    <3> QED
      BY <3>1
  <2> HIDE DEF z, c
  <2>2. ~Has(z, "IRM") /\ ~z.panicked
    BY <1>1, <1>5 DEF Has
  <2>3. MakeRoom(z, Width(c)) = z
    BY <1>2, <2>2 DEF MakeRoom, Then
  <2> QED
    BY <2>1, <2>3
<1> HIDE DEF z
<1>7. l \in [0 .. n - 1 -> Cell] /\ 0 \in 0 .. n - 1
  BY <1>1 DEF IsBuffer
<1>8. ClearWidePairAt(l, 0) = l
  <2>1. l[0].d \in {Blank, <<"#">>} \union Written
    BY <1>7 DEF PlainRow
  <2>2. Width(l[0].d) # 2 /\ l[0].d # Cont
    <3>1. \A y \in Digits \union {" ", "#"} : <<y>> # Cont /\ Width(<<y>>) # 2
      BY NarrowWidth, Zenon
    <3>2. \A w \in {Blank, <<"#">>} \union Written : \E y \in Digits \union {" ", "#"} : w = <<y>>
      BY Zenon DEF Blank, Written
    <3> HIDE DEF l
    <3> QED
      BY <2>1, <3>1, <3>2, Zenon
  <2> HIDE DEF l
  <2> QED
    BY <1>1, <1>7, <2>2, ClearWidePairAtIs
<1>9. PutCluster(z, c) = v
  <2> HIDE DEF c, v
  <2>1. PutCluster(z, c) = SetLine(z, s.row, [ClearWidePairAt(l, 0) EXCEPT ![0] = [d |-> c, a |-> s.attr]])
    BY <1>1, <1>2, <1>5 DEF PutCluster
  <2> HIDE DEF l
  <2>2. PutCluster(z, c) = SetLine(z, s.row, line)
    BY <1>8, <2>1
  <2> HIDE DEF line
  <2> QED
    BY <2>2 DEF SetLine, v
<1> HIDE DEF line
<1>10. /\ HasFields(v) /\ v.mode = s.mode /\ v.columns = n /\ v.panicked = FALSE /\ v.row = s.row /\ v.col = 0
       /\ v.buf = [s.buf EXCEPT ![s.row] = line]
  BY <1>5 DEF HasFields
<1>11. Advance(v, c) = t
  <2> HIDE DEF c, v, t
  <2>1. DrawLimit(v) = n - 1
    BY <1>1, <1>10 DEF DrawLimit, Has
  <2>2. v.col + Width(c) = 1 /\ v.col + Width(c) <= DrawLimit(v)
    BY <1>1, <1>2, <1>10, <2>1
  <2>3. Advance(v, c) = [[v EXCEPT !.lastDrawn = c] EXCEPT !.col = v.col + Width(c)]
    BY <1>1, <2>1, <2>2 DEF Advance
  <2>4. Advance(v, c) = [[v EXCEPT !.lastDrawn = c] EXCEPT !.col = 1]
    BY <2>2, <2>3
  <2> QED
    BY <2>4 DEF t
<1>12. DrawWide(s, c) = t
  <2> HIDE DEF c, v, t
  <2>1. z.panicked = FALSE /\ v.panicked = FALSE /\ s.wrapNext = FALSE
    BY <1>5, <1>10
  <2> QED
    BY <1>6, <1>9, <1>11, <2>1 DEF DrawWide, Then
<1>13. /\ v.charset = s.charset /\ v.g0 = s.g0 /\ v.lines = s.lines /\ v.margins = s.margins
       /\ v.altActive = s.altActive /\ v.altBuf = s.altBuf
       /\ v.altSavedCursor = s.altSavedCursor /\ v.altWrapNext = s.altWrapNext
  <2>1. /\ z.charset = s.charset /\ z.g0 = s.g0 /\ z.lines = s.lines /\ z.margins = s.margins
        /\ z.altActive = s.altActive /\ z.altBuf = s.altBuf
        /\ z.altSavedCursor = s.altSavedCursor /\ z.altWrapNext = s.altWrapNext
    BY <1>1 DEF HasFields, z
  <2> QED
    BY <1>5, <2>1 DEF HasFields
<1>14. "conformanceExplicit" \in DOMAIN v /\ v.conformanceExplicit = s.conformanceExplicit
  <2>1. "conformanceExplicit" \in DOMAIN z /\ z.conformanceExplicit = s.conformanceExplicit
    BY <1>1 DEF z
  <2> QED
    BY <2>1
<1> HIDE DEF v, c
<1>15. /\ HasFields(t) /\ t.mode = v.mode /\ t.charset = v.charset /\ t.g0 = v.g0 /\ t.panicked = v.panicked
       /\ t.lines = v.lines /\ t.columns = v.columns /\ t.margins = v.margins
       /\ t.row = v.row /\ t.buf = v.buf
  BY <1>10 DEF HasFields
<1>16. /\ t.altActive = v.altActive /\ t.altBuf = v.altBuf
       /\ t.altSavedCursor = v.altSavedCursor /\ t.altWrapNext = v.altWrapNext
  BY <1>10 DEF HasFields
<1>17. "conformanceExplicit" \in DOMAIN t /\ t.conformanceExplicit = v.conformanceExplicit
  BY <1>14
<1> HIDE DEF t
<1>18. Stays(s, t)
  <2>1. v.panicked = s.panicked
    BY <1>0, <1>10
  <2> QED
    BY <1>10, <1>13, <1>14, <1>15, <1>16, <1>17, <2>1 DEF Stays, Hushed
<1>19. t.row = s.row /\ t.buf = [s.buf EXCEPT ![s.row] = [@ EXCEPT ![0] = [d |-> <<x>>, a |-> s.attr]]]
  BY <1>10, <1>15 DEF line, cell, l, c
<1> QED
  BY <1>4, <1>12, <1>18, <1>19 DEF c

-----------------------------------------------------------------------------
(* A line the shell prints.                                                 *)

(* d is b with a row r whose text is y, and nothing below. *)
Pens(b, d, n, r, y) ==
    /\ PlainIn(d, 0, n) /\ MuteIn(d, r + 1, n - (r + 1))
    /\ Spell(d, 0, n) = Spell(b, 0, n) \o y
LEMMA PenPage ==
    ASSUME NEW n \in Nat, NEW r \in 0 .. n - 1, NEW b, PlainIn(b, 0, n), MuteIn(b, r, n - r),
           NEW d, \A k \in 0 .. n - 1 : k # r => d[k] = b[k], PlainRow(d[r]),
           NEW y, RowText(d[r]) = y
    PROVE  Pens(b, d, n, r, y)
<1> DEFINE o == 0
           r1 == r + 1
           k1 == n - r1
           k0 == n - r
<1>1. o \in Nat /\ r1 \in Nat /\ k1 \in Nat /\ k0 \in Nat /\ r = o + r /\ n = r + k0 /\ r1 = o + r1 /\ n = r1 + k1
      /\ r \in Nat
  OBVIOUS
<1>2. PlainIn(d, o, n)
  BY DEF PlainIn
<1>3. MuteIn(d, r1, k1)
  <2>1. \A k \in r1 .. r1 + k1 - 1 : k \in r .. r + (n - r) - 1 /\ k \in 0 .. n - 1 /\ k # r
    OBVIOUS
  <2> QED
    BY <2>1 DEF MuteIn
<1>4. PlainIn(b, o, n) /\ MuteIn(b, r, k0)
  OBVIOUS
<1>5. AlikeIn(d, o, b, o, r)
  BY DEF AlikeIn
<1>6. Spell(d, o, r + 1) = Spell(d, o, r) \o RowText(d[o + r])
  BY <1>1, SpellNext
<1>7. d[o + r] = d[r] /\ r1 = r + 1
  OBVIOUS
<1> HIDE DEF o, r1, k1, k0
<1>8. Spell(b, o, n) = Spell(b, o, r)
  BY <1>1, <1>4, SpellTrim
<1>9. Spell(d, o, n) = Spell(d, o, r1)
  <2>1. o \in Nat /\ r1 \in Nat /\ k1 \in Nat /\ r1 = o + r1 /\ n = r1 + k1
    BY <1>1
  <2> QED
    BY <1>2, <1>3, <2>1, SpellTrim
<1>10. Spell(d, o, r) = Spell(b, o, r)
  BY <1>1, <1>5, SpellSame
<1>11. Spell(d, o, n) = Spell(b, o, n) \o y
  BY <1>6, <1>7, <1>8, <1>9, <1>10
<1> QED
  BY <1>2, <1>3, <1>11 DEF Pens, o, r1, k1

(* What the page says, history goes on to say. *)
LEMMA HeardMore ==
    ASSUME NEW g, TopOK(g), PlainTop(g), NEW t \in Seq(Digits), NEW x \in Digits, NEW p, Heard(g, t, p)
    PROVE  Heard(g, t \o <<x>>, Append(p, x))
<1> DEFINE n == Len(g.top)
           i == 1
           A == Spell(g.top, i, n)
           y == <<x>>
<1>1. n \in Nat /\ i \in Nat /\ PlainIn(g.top, i, n)
  BY DEF TopOK, PlainTop
<1>2. y \in Seq(Digits)
  OBVIOUS
<1>3. PICK u \in Seq(Digits) : p = u \o (A \o t) /\ (g.firstSeq = 0 => u = <<>>)
  BY DEF Heard
<1> HIDE DEF n, i
<1>4. A \in Seq(Digits)
  BY <1>1, SpellType
<1> HIDE DEF A
<1>5. A \o t \in Seq(Digits)
  BY <1>4, Join
<1> DEFINE B == A \o t
<1>6. B \o y = A \o (t \o y)
  <2> HIDE DEF y
  <2> QED
    BY <1>2, <1>4, Joined
<1> HIDE DEF B
<1>7. B \in Seq(Digits) /\ p = u \o B
  BY <1>3, <1>5 DEF B
<1>8. p \in Seq(Digits)
  BY <1>7, Join
<1>9. Append(p, x) = p \o y
  BY <1>8, AppendIsConcat
<1> HIDE DEF y
<1>10. p \o y = u \o (B \o y)
  BY <1>2, <1>7, Joined
<1>11. Append(p, x) = u \o (A \o (t \o y))
  BY <1>6, <1>9, <1>10
<1> QED
  BY <1>3, <1>11 DEF Heard, A, y, i, n

(* A chunk of one, two or three operations, and what each of them does. *)
Once(g, c) == ReplayStep(0, g, c)
LEMMA ReplayIs ==
    \A g, c, d, e :
        /\ Replay(g, <<c>>) = Once(g, c)
        /\ Replay(g, <<c, d>>) = Once(Once(g, c), d)
        /\ Replay(g, <<c, d, e>>) = Once(Once(Once(g, c), d), e)
<1> TAKE g, c, d, e
<1> DEFINE p == 0
           E == {c, d, e}
           q1 == <<c>>
           q2 == <<c, d>>
           q3 == <<c, d, e>>
<1>1. \A q : Replay(g, q) = ReplayLaws!Fold(p, g, q)
  BY DEF Replay, FoldLeft, MapThenFoldSet, Max, ReplayLaws!Fold, ReplayLaws!Greatest, ReplayStep
<1>2. q2 = Append(q1, d) /\ q3 = Append(q2, e)
  OBVIOUS
<1>3. c \in E /\ d \in E /\ e \in E
  OBVIOUS
<1>4. q1 \in Seq(E) /\ q2 \in Seq(E)
  <2> HIDE DEF E
  <2> QED
    BY <1>3
<1> HIDE DEF p, E
<1>5. ReplayLaws!Fold(p, g, q1) = ReplayStep(p, g, c)
  BY ReplayInduction, ReplayLaws!FoldSingle
<1> HIDE DEF q1, q2, q3
<1>6. ReplayLaws!Fold(p, g, Append(q1, d)) = ReplayStep(p, ReplayLaws!Fold(p, g, q1), d)
  BY <1>3, <1>4, ReplayInduction, ReplayLaws!FoldAppend
<1>7. ReplayLaws!Fold(p, g, Append(q2, e)) = ReplayStep(p, ReplayLaws!Fold(p, g, q2), e)
  BY <1>3, <1>4, ReplayInduction, ReplayLaws!FoldAppend
<1>8. /\ Replay(g, q1) = ReplayStep(p, g, c)
      /\ Replay(g, q2) = ReplayStep(p, ReplayStep(p, g, c), d)
      /\ Replay(g, q3) = ReplayStep(p, ReplayStep(p, ReplayStep(p, g, c), d), e)
  BY <1>1, <1>2, <1>5, <1>6, <1>7, Zenon
<1> QED
  BY <1>8 DEF p, q1, q2, q3, Once

PlaceOp(n) == <<"CursorPosition", n, 1>>
SwitchOp(x) == <<x, <<"AltBufCursor">>>>
LEMMA PerformIs ==
    ASSUME NEW g, NEW x, NEW n
    PROVE  /\ Perform(g, Text(x)) = AfterEvent(Lift(g, Draw(g.s, <<x>>)))
           /\ Perform(g, <<"CarriageReturn">>) = AfterEvent(Lift(g, CarriageReturn(g.s)))
           /\ Perform(g, <<"LineFeed">>) = AfterEvent(HLineFeed(g))
           /\ Perform(g, PlaceOp(n)) = AfterEvent(Lift(g, CursorPosition(g.s, n, 1)))
           /\ Perform(g, SwitchOp("SetMode")) = AfterEvent(Lift(g, SetMode(g.s, <<"AltBufCursor">>)))
           /\ Perform(g, SwitchOp("ResetMode")) = AfterEvent(Lift(g, ResetMode(g.s, <<"AltBufCursor">>)))
<1>1. ASSUME NEW e, e[1] = "Draw" PROVE Perform(g, e) = AfterEvent(Lift(g, Draw(g.s, e[2])))
  <2>1. Perform(g, e) = AfterEvent(Lift(g, EditOp(g.s, e)))
    <3>1. e[1] \in EditOps
      BY <1>1 DEF EditOps
    <3> QED
      BY <1>1, <3>1 DEF Perform, PlainOps, CursorOps, EditOps, ReportOps
  <2>2. EditOp(g.s, e) = Draw(g.s, e[2])
    BY <1>1 DEF EditOp
  <2> QED
    BY <2>1, <2>2
<1>2. ASSUME NEW e, e[1] = "CarriageReturn" PROVE Perform(g, e) = AfterEvent(Lift(g, CarriageReturn(g.s)))
  <2>1. Perform(g, e) = AfterEvent(Lift(g, CursorOp(g.s, e)))
    <3>1. e[1] \in CursorOps
      BY <1>2 DEF CursorOps
    <3> QED
      BY <1>2, <3>1 DEF Perform, PlainOps, CursorOps, EditOps, ReportOps
  <2>2. CursorOp(g.s, e) = CarriageReturn(g.s)
    BY <1>2 DEF CursorOp
  <2> QED
    BY <2>1, <2>2
<1>3. ASSUME NEW e, e[1] = "LineFeed" PROVE Perform(g, e) = AfterEvent(HLineFeed(g))
  BY <1>3 DEF Perform, PlainOps, CursorOps, EditOps, ReportOps
<1>4. ASSUME NEW e, e[1] = "CursorPosition"
      PROVE  Perform(g, e) = AfterEvent(Lift(g, CursorPosition(g.s, e[2], e[3])))
  <2>1. Perform(g, e) = AfterEvent(Lift(g, CursorOp(g.s, e)))
    <3>1. e[1] \in CursorOps
      BY <1>4 DEF CursorOps
    <3> QED
      BY <1>4, <3>1 DEF Perform, PlainOps, CursorOps, EditOps, ReportOps
  <2>2. CursorOp(g.s, e) = CursorPosition(g.s, e[2], e[3])
    BY <1>4 DEF CursorOp
  <2> QED
    BY <2>1, <2>2
<1>5. ASSUME NEW e, e[1] \in {"SetMode", "ResetMode"}
      PROVE  Perform(g, e) = AfterEvent(Lift(g, StateOp(g.s, e)))
  BY <1>5 DEF Perform, PlainOps, CursorOps, EditOps, ReportOps
<1>6. ASSUME NEW e, e[1] = "SetMode" PROVE StateOp(g.s, e) = SetMode(g.s, e[2])
  BY <1>6 DEF StateOp
<1>7. ASSUME NEW e, e[1] = "ResetMode" PROVE StateOp(g.s, e) = ResetMode(g.s, e[2])
  BY <1>7 DEF StateOp
<1>8. /\ Text(x)[1] = "Draw" /\ Text(x)[2] = <<x>>
      /\ <<"CarriageReturn">>[1] = "CarriageReturn" /\ <<"LineFeed">>[1] = "LineFeed"
      /\ PlaceOp(n)[1] = "CursorPosition" /\ PlaceOp(n)[2] = n /\ PlaceOp(n)[3] = 1
      /\ \A y : SwitchOp(y)[1] = y /\ SwitchOp(y)[2] = <<"AltBufCursor">>
  BY DEF Text, PlaceOp, SwitchOp
<1>9. Perform(g, Text(x)) = AfterEvent(Lift(g, Draw(g.s, <<x>>)))
  BY <1>1, <1>8, Zenon
<1>10. Perform(g, <<"CarriageReturn">>) = AfterEvent(Lift(g, CarriageReturn(g.s)))
  BY <1>2, <1>8, Zenon
<1>11. Perform(g, <<"LineFeed">>) = AfterEvent(HLineFeed(g))
  BY <1>3, <1>8, Zenon
<1>12. Perform(g, PlaceOp(n)) = AfterEvent(Lift(g, CursorPosition(g.s, n, 1)))
  <2>1. Perform(g, PlaceOp(n)) = AfterEvent(Lift(g, CursorPosition(g.s, PlaceOp(n)[2], PlaceOp(n)[3])))
    BY <1>4, <1>8, Zenon
  <2> QED
    BY <1>8, <2>1
<1>13. /\ Perform(g, SwitchOp("SetMode")) = AfterEvent(Lift(g, SetMode(g.s, <<"AltBufCursor">>)))
       /\ Perform(g, SwitchOp("ResetMode")) = AfterEvent(Lift(g, ResetMode(g.s, <<"AltBufCursor">>)))
  <2>1. \A y \in {"SetMode", "ResetMode"} :
            Perform(g, SwitchOp(y)) = AfterEvent(Lift(g, StateOp(g.s, SwitchOp(y))))
    BY <1>5, <1>8
  <2>2. StateOp(g.s, SwitchOp("SetMode")) = SetMode(g.s, <<"AltBufCursor">>)
    <3> DEFINE e == SwitchOp("SetMode")
    <3>1. e[1] = "SetMode" /\ e[2] = <<"AltBufCursor">>
      BY <1>8
    <3> HIDE DEF e
    <3>2. StateOp(g.s, e) = SetMode(g.s, e[2])
      BY <1>6, <3>1
    <3> QED
      BY <3>1, <3>2 DEF e
  <2>3. StateOp(g.s, SwitchOp("ResetMode")) = ResetMode(g.s, <<"AltBufCursor">>)
    <3> DEFINE e == SwitchOp("ResetMode")
    <3>1. e[1] = "ResetMode" /\ e[2] = <<"AltBufCursor">>
      BY <1>8
    <3> HIDE DEF e
    <3>2. StateOp(g.s, e) = ResetMode(g.s, e[2])
      BY <1>7, <3>1
    <3> QED
      BY <3>1, <3>2 DEF e
  <2> QED
    BY <2>1, <2>2, <2>3
<1> QED
  BY <1>9, <1>10, <1>11, <1>12, <1>13

(* A page that scrolls: its first row leaves, a blank one comes. *)
Scrolls(b, d, n) ==
    /\ PlainIn(d, 0, n) /\ MuteIn(d, n - 1, 1) /\ PlainRow(b[0])
    /\ Spell(b, 0, n) = RowText(b[0]) \o Spell(d, 0, n) /\ Spell(d, 0, n) \in Seq(Digits)
LEMMA ScrolledPage ==
    ASSUME NEW n \in Nat \ {0}, NEW b, PlainIn(b, 0, n), NEW d, \A k \in 0 .. n - 2 : d[k] = b[k + 1],
           PlainRow(d[n - 1]), RowText(d[n - 1]) = <<>>
    PROVE  Scrolls(b, d, n)
<1> DEFINE o == 0
           i == 1
           m == n - 1
<1>1. o \in Nat /\ i \in Nat /\ m \in Nat /\ n \in Nat
  OBVIOUS
<1>2. i = o + i /\ n = i + m /\ m = o + m /\ n = m + i
  OBVIOUS
<1>3. PlainIn(b, o, n) /\ PlainRow(b[o])
  <2>1. 0 \in 0 .. 0 + n - 1
    OBVIOUS
  <2> QED
    BY <2>1 DEF PlainIn
<1>4. PlainIn(d, o, n)
  <2>1. ASSUME NEW k \in 0 .. 0 + n - 1 PROVE PlainRow(d[k])
    <3>1. CASE k = n - 1
      BY <3>1
    <3>2. CASE k # n - 1
      <4>1. k \in 0 .. n - 2 /\ k + 1 \in 0 .. 0 + n - 1
        BY <3>2
      <4> QED
        BY <4>1 DEF PlainIn
    <3> QED
      BY <3>1, <3>2
  <2> QED
    BY <2>1 DEF PlainIn
<1>5. MuteIn(d, m, i)
  <2>1. Mute(d[n - 1])
    BY MuteIsText
  <2>2. \A k \in n - 1 .. (n - 1) + 1 - 1 : k = n - 1
    OBVIOUS
  <2> QED
    BY <2>1, <2>2 DEF MuteIn
<1>6. AlikeIn(d, o, b, i, m)
  <2>1. ASSUME NEW k \in 0 .. (n - 1) - 1 PROVE RowText(d[0 + k]) = RowText(b[1 + k])
    <3>1. k \in 0 .. n - 2 /\ 0 + k = k /\ 1 + k = k + 1
      OBVIOUS
    <3>2. d[k] = b[k + 1]
      BY <3>1
    <3> QED
      BY <3>1, <3>2
  <2> QED
    BY <2>1 DEF AlikeIn
<1> HIDE DEF o, i, m
<1>7. Splits(b, o, i, i, m, n)
  BY <1>1, <1>2, <1>3, SpellTwo
<1>8. Spell(b, o, i) = RowText(b[o])
  BY <1>1, <1>3, SpellOne DEF i
<1>9. Spell(d, o, n) = Spell(d, o, m)
  BY <1>1, <1>2, <1>4, <1>5, SpellTrim
<1>10. Spell(d, o, m) = Spell(b, i, m)
  BY <1>1, <1>6, SpellSame
<1>11. Spell(b, o, n) = RowText(b[o]) \o Spell(d, o, n)
  BY <1>7, <1>8, <1>9, <1>10 DEF Splits
<1>12. Spell(d, o, n) \in Seq(Digits)
  BY <1>1, <1>4, SpellType
<1> QED
  BY <1>3, <1>4, <1>5, <1>11, <1>12 DEF Scrolls, o, i, m

LEMMA IndexIs ==
    ASSUME NEW s, Shelled(s)
    PROVE  LET u == Index(s)
           IN  /\ Stays(s, u) /\ u.col = s.col /\ u.wrapNext = FALSE
               /\ s.row # s.lines - 1 => u.buf = s.buf /\ u.row = s.row + 1
               /\ s.row = s.lines - 1 =>
                     /\ u.row = s.row
                     /\ \A k \in 0 .. s.lines - 2 : u.buf[k] = s.buf[k + 1]
                     /\ u.buf[s.lines - 1] = BlankLine(s.columns, DefaultCell(s))
<1> DEFINE n == s.lines
           w == s.columns
           t == [s EXCEPT !.wrapNext = FALSE]
           cell == DefaultCell(t)
           b == [r \in DOMAIN t.buf |->
                    IF r \notin 0 .. n - 1 THEN t.buf[r]
                    ELSE [c \in DOMAIN t.buf[r] |->
                             IF c \in 0 .. w - 1
                             THEN IF r + 1 \in 0 .. n - 1 THEN t.buf[r + 1][c] ELSE cell
                             ELSE t.buf[r][c]]]
           u == [t EXCEPT !.buf = b]
           v == [t EXCEPT !.row = @ + 1]
<1>1. /\ ~Has(s, "DECLRMM") /\ n \in Nat \ {0} /\ w \in Nat \ {0} /\ HasFields(s)
      /\ s.row \in 0 .. n - 1 /\ IsBuffer(s.buf, n, w) /\ ScrollTop(s) = 0 /\ ScrollBottom(s) = n - 1
      /\ "conformanceExplicit" \in DOMAIN s
  BY ModesAre
<1>2. /\ HasFields(t) /\ t.mode = s.mode /\ t.charset = s.charset /\ t.g0 = s.g0 /\ t.panicked = s.panicked
      /\ t.lines = s.lines /\ t.columns = s.columns /\ t.margins = s.margins
      /\ t.col = s.col /\ t.row = s.row /\ t.wrapNext = FALSE /\ t.buf = s.buf
  BY <1>1 DEF HasFields
<1>3. /\ t.altActive = s.altActive /\ t.altBuf = s.altBuf
      /\ t.altSavedCursor = s.altSavedCursor /\ t.altWrapNext = s.altWrapNext
  BY <1>1 DEF HasFields
<1>4. "conformanceExplicit" \in DOMAIN t /\ t.conformanceExplicit = s.conformanceExplicit
  BY <1>1
<1>5. Index(s) = IF s.row = n - 1 THEN ShiftRows(t, 0, n - 1, 1) ELSE v
  BY <1>1 DEF Index, CanScrollHorizontal
<1> HIDE DEF t
<1>6. ShiftRows(t, 0, n - 1, 1) = u
  <2>1. Left(t) = 0 /\ Right(t) = w - 1
    BY <1>1, <1>2 DEF Left, Right, Has
  <2> QED
    BY <2>1 DEF ShiftRows, SetCells
<1>7. cell = DefaultCell(s)
  BY <1>2 DEF DefaultCell, DefaultAttr, Has
<1>8. \A k \in 0 .. n - 2 : b[k] = s.buf[k + 1]
  <2> SUFFICES ASSUME NEW k \in 0 .. n - 2 PROVE b[k] = s.buf[k + 1]
    OBVIOUS
  <2>1. k \in 0 .. n - 1 /\ k + 1 \in 0 .. n - 1
    BY <1>1
  <2>2. s.buf[k] \in [0 .. w - 1 -> Cell] /\ s.buf[k + 1] \in [0 .. w - 1 -> Cell] /\ DOMAIN s.buf = 0 .. n - 1
    BY <1>1, <2>1 DEF IsBuffer
  <2>3. b[k] = [c \in 0 .. w - 1 |-> s.buf[k + 1][c]]
    BY <1>2, <2>1, <2>2
  <2> QED
    BY <2>2, <2>3
<1>9. b[n - 1] = BlankLine(w, DefaultCell(s))
  <2>1. n - 1 \in 0 .. n - 1 /\ (n - 1) + 1 \notin 0 .. n - 1
    BY <1>1
  <2>2. s.buf[n - 1] \in [0 .. w - 1 -> Cell] /\ DOMAIN s.buf = 0 .. n - 1
    BY <1>1, <2>1 DEF IsBuffer
  <2>3. b[n - 1] = [c \in 0 .. w - 1 |-> cell]
    BY <1>2, <2>1, <2>2
  <2> QED
    BY <1>7, <2>3 DEF BlankLine
<1> HIDE DEF b, cell
<1>10. /\ HasFields(u) /\ u.mode = t.mode /\ u.charset = t.charset /\ u.g0 = t.g0 /\ u.panicked = t.panicked
       /\ u.lines = t.lines /\ u.columns = t.columns /\ u.margins = t.margins
       /\ u.col = t.col /\ u.row = t.row /\ u.wrapNext = t.wrapNext /\ u.buf = b
  BY <1>2 DEF HasFields
<1>11. /\ u.altActive = t.altActive /\ u.altBuf = t.altBuf
       /\ u.altSavedCursor = t.altSavedCursor /\ u.altWrapNext = t.altWrapNext
  BY <1>2 DEF HasFields
<1>12. "conformanceExplicit" \in DOMAIN u /\ u.conformanceExplicit = t.conformanceExplicit
  BY <1>4
<1>13. /\ HasFields(v) /\ v.mode = t.mode /\ v.charset = t.charset /\ v.g0 = t.g0 /\ v.panicked = t.panicked
       /\ v.lines = t.lines /\ v.columns = t.columns /\ v.margins = t.margins
       /\ v.col = t.col /\ v.row = t.row + 1 /\ v.wrapNext = t.wrapNext /\ v.buf = t.buf
  BY <1>2 DEF HasFields
<1>14. /\ v.altActive = t.altActive /\ v.altBuf = t.altBuf
       /\ v.altSavedCursor = t.altSavedCursor /\ v.altWrapNext = t.altWrapNext
  BY <1>2 DEF HasFields
<1>15. "conformanceExplicit" \in DOMAIN v /\ v.conformanceExplicit = t.conformanceExplicit
  BY <1>4
<1> HIDE DEF u, v
<1>16. Stays(s, u)
  BY <1>2, <1>3, <1>4, <1>10, <1>11, <1>12 DEF Stays, Hushed
<1>17. Stays(s, v)
  BY <1>2, <1>3, <1>4, <1>13, <1>14, <1>15 DEF Stays, Hushed
<1>18. CASE s.row = n - 1
  <2>1. Index(s) = u
    BY <1>5, <1>6, <1>18
  <2> QED
    BY <1>2, <1>8, <1>9, <1>10, <1>16, <1>18, <2>1 DEF n, w
<1>19. CASE s.row # n - 1
  <2>1. Index(s) = v
    BY <1>5, <1>19
  <2> QED
    BY <1>2, <1>13, <1>17, <1>19, <2>1 DEF n
<1> QED
  BY <1>18, <1>19

(* A line feed leaves the cursor on a row from which nothing is written. *)
Fed(f, n, p) ==
    /\ PlainTop(f) /\ PlainIn(f.s.buf, 0, n) /\ MuteIn(f.s.buf, f.s.row, n - f.s.row)
    /\ f.s.col = 0 /\ f.s.wrapNext = FALSE /\ Heard(f, Spell(f.s.buf, 0, n), p)
LEMMA FeedIs ==
    ASSUME NEW g, TopOK(g), PlainTop(g), Shelled(g.s), ~g.s.altActive, PlainIn(g.s.buf, 0, g.s.lines),
           MuteIn(g.s.buf, g.s.row + 1, g.s.lines - (g.s.row + 1)), g.s.col = 0,
           NEW p, Heard(g, Spell(g.s.buf, 0, g.s.lines), p)
    PROVE  Stays(g.s, HLineFeed(g).s) /\ Fed(HLineFeed(g), g.s.lines, p)
<1> DEFINE s == g.s
           n == s.lines
           u == Index(s)
           e == IF s.row = n - 1 THEN PushRow(g, s.buf[0]) ELSE g
           f == Lift(e, u)
<1>1. /\ ~Has(s, "LNM") /\ n \in Nat \ {0} /\ s.columns \in Nat \ {0} /\ s.row \in 0 .. n - 1
      /\ ScrollTop(s) = 0 /\ ScrollBottom(s) = n - 1 /\ Left(s) = 0 /\ Right(s) = s.columns - 1
  BY ModesAre
<1>2. HIndex(g) = f
  <2>1. ScrollbackEligible(s)
    BY <1>1 DEF ScrollbackEligible
  <2>2. s.buf[ScrollTop(s)] = s.buf[0] /\ ScrollBottom(s) = n - 1
    BY <1>1
  <2> HIDE DEF n
  <2> QED
    BY <2>1, <2>2 DEF HIndex
<1>3. /\ Stays(s, u) /\ u.col = 0 /\ u.wrapNext = FALSE
      /\ s.row # n - 1 => u.buf = s.buf /\ u.row = s.row + 1
      /\ s.row = n - 1 =>
            /\ u.row = s.row
            /\ \A k \in 0 .. n - 2 : u.buf[k] = s.buf[k + 1]
            /\ u.buf[n - 1] = BlankLine(s.columns, DefaultCell(s))
  BY IndexIs
<1> HIDE DEF u
<1>4. TopOK(e) => f.top = e.top /\ f.firstSeq = e.firstSeq /\ f.s = u
  <2> HIDE DEF e
  <2> QED
    BY Lifted
<1>5. ASSUME TopOK(e) PROVE HLineFeed(g) = f
  <2>1. f.s.mode = s.mode
    BY <1>3, <1>4, <1>5 DEF Stays, Hushed
  <2> HIDE DEF f
  <2> QED
    BY <1>1, <1>2, <2>1 DEF HLineFeed, Has
<1>6. CASE s.row = n - 1
  <2> DEFINE b == s.buf
             T == Spell(u.buf, 0, n)
             row == b[0]
  <2>1. PlainRow(u.buf[n - 1]) /\ RowText(u.buf[n - 1]) = <<>>
    BY <1>1, <1>3, <1>6, BlankPlain
  <2>2. Scrolls(b, u.buf, n)
    <3>1. PlainIn(b, 0, n) /\ \A k \in 0 .. n - 2 : u.buf[k] = b[k + 1]
      BY <1>3, <1>6
    <3> HIDE DEF b, n
    <3> QED
      BY <1>1, <2>1, <3>1, ScrolledPage
  <2>3. PlainRow(row) /\ T \in Seq(Digits) /\ Heard(g, RowText(row) \o T, p)
    BY <2>2 DEF Scrolls
  <2> DEFINE k == PushRow(g, row)
  <2>4. PlainTop(k) /\ Heard(k, T, p) /\ TopOK(k)
    <3>1. row \in Row
      BY <2>3 DEF PlainRow
    <3>2. TopOK(PushRow(g, row))
      BY <3>1, PushRowOK DEF Later
    <3> HIDE DEF T, row
    <3> QED
      BY <2>3, <3>2, PushHeard
  <2>5. e = k
    BY <1>6
  <2>6. MuteIn(u.buf, u.row, n - u.row)
    <3>1. u.row = n - 1 /\ n - u.row = 1
      BY <1>1, <1>3, <1>6
    <3> QED
      BY <2>2, <3>1 DEF Scrolls
  <2>7. PlainIn(u.buf, 0, n)
    BY <2>2 DEF Scrolls
  <2> HIDE DEF T, k, e
  <2>8. TopOK(e) /\ PlainTop(e) /\ Heard(e, T, p)
    BY <2>4, <2>5
  <2> HIDE DEF f
  <2>9. PlainTop(f) /\ Heard(f, T, p)
    BY <1>4, <2>8, SameTop
  <2>10. HLineFeed(g) = f /\ f.s = u
    BY <1>4, <1>5, <2>8
  <2> QED
    BY <1>3, <2>6, <2>7, <2>9, <2>10 DEF Fed, T
<1>7. CASE s.row # n - 1
  <2>1. e = g
    BY <1>7
  <2> HIDE DEF e, f
  <2>2. TopOK(e) /\ PlainTop(e) /\ Heard(e, Spell(s.buf, 0, n), p)
    BY <2>1
  <2>3. HLineFeed(g) = f /\ f.s = u /\ u.buf = s.buf /\ u.row = s.row + 1
    BY <1>3, <1>4, <1>5, <1>7, <2>2
  <2>4. PlainTop(f) /\ Heard(f, Spell(s.buf, 0, n), p)
    BY <1>4, <2>2, SameTop
  <2> QED
    BY <1>3, <2>3, <2>4 DEF Fed
<1> QED
  BY <1>6, <1>7

(* What an event does to the screen is what AfterEvent leaves. *)
Results(g, t, f) ==
    /\ TopOK(f) /\ f.top = g.top /\ f.firstSeq = g.firstSeq /\ Stays(t, f.s)
    /\ f.s.buf = t.buf /\ f.s.row = t.row /\ f.s.col = t.col /\ f.s.wrapNext = t.wrapNext
LEMMA ResultsIs ==
    ASSUME NEW g, TopOK(g), NEW s, NEW t, Stays(s, t), ~s.panicked
    PROVE  Results(g, t, AfterEvent(Lift(g, t)))
<1> DEFINE e == Lift(g, t)
<1>1. e.top = g.top /\ e.firstSeq = g.firstSeq /\ e.s = t
  BY Lifted
<1>2. TopOK(e)
  BY LiftOK DEF Later
<1>3. ~t.panicked /\ HasFields(t) /\ "conformanceExplicit" \in DOMAIN t
  BY DEF Stays, Hushed
<1>4. TopOK(AfterEvent(e))
  BY <1>2 DEF AfterEvent, TopOK
<1> HIDE DEF e
<1> DEFINE f == AfterEvent(e)
<1>5. /\ f.top = e.top /\ f.firstSeq = e.firstSeq /\ Stays(e.s, f.s)
      /\ f.s.buf = e.s.buf /\ f.s.row = e.s.row /\ f.s.col = e.s.col /\ f.s.wrapNext = e.s.wrapNext
  BY <1>1, <1>2, <1>3, AfterIs
<1> HIDE DEF f
<1>6. Results(g, t, f)
  BY <1>1, <1>4, <1>5 DEF Results, f
<1> QED
  BY <1>6 DEF f, e

(* The row that a digit or a "#" is drawn on. *)
LEMMA PennedRow ==
    ASSUME NEW n \in Nat \ {0}, NEW row, PlainRow(row), row \in [0 .. n - 1 -> Cell],
           NEW x \in Digits \union {"#"}, x \in Runes, NEW a \in SUBSET Flags
    PROVE  LET line == [row EXCEPT ![0] = [d |-> <<x>>, a |-> a]]
           IN  PlainRow(line) /\ (x \in Digits => RowText(line) = <<x>>) /\ (x \notin Digits => Mute(line))
<1> DEFINE e == <<x>>
           cell == [d |-> e, a |-> a]
           line == [row EXCEPT ![0] = cell]
<1>1. /\ e \in {Blank, <<"#">>} \union Written /\ e \in Seq(Runes)
      /\ x \in Digits => e \in Written
      /\ x \notin Digits => e \notin Written
  <2>1. x \notin Digits => e \notin Written
    <3>1. \A y \in Digits : <<y>> = <<x>> => y = x
      <4>1. \A y : <<y>>[1] = y
        OBVIOUS
      <4> QED
        BY <4>1
    <3> QED
      BY <3>1 DEF Written
  <2>2. x \in Digits => e \in Written
    BY DEF Written
  <2>3. x \notin Digits => e = <<"#">>
    OBVIOUS
  <2> QED
    BY <2>1, <2>2, <2>3
<1> HIDE DEF e
<1>2. cell \in Cell /\ cell.d = e
  BY <1>1 DEF Cell
<1> HIDE DEF cell
<1>3. line \in [0 .. n - 1 -> Cell] /\ line[0] = cell /\ \A c \in 1 .. n - 1 : line[c] = row[c]
  BY <1>2
<1>4. \A c \in 0 .. n - 1 : IF c = 0 THEN row[c].d \in {Blank, <<"#">>} \union Written ELSE row[c].d = Blank
  BY DEF PlainRow
<1> HIDE DEF line
<1>5. \A c \in 0 .. n - 1 : IF c = 0 THEN line[c].d \in {Blank, <<"#">>} \union Written ELSE line[c].d = Blank
  <2> SUFFICES ASSUME NEW c \in 0 .. n - 1
               PROVE  IF c = 0 THEN line[c].d \in {Blank, <<"#">>} \union Written ELSE line[c].d = Blank
    OBVIOUS
  <2>1. CASE c = 0
    BY <1>1, <1>2, <1>3, <2>1
  <2>2. CASE c # 0
    <3>1. c \in 1 .. n - 1
      BY <2>2
    <3> QED
      BY <1>3, <1>4, <2>2, <3>1
  <2> QED
    BY <2>1, <2>2
<1>6. PlainRow(line)
  BY <1>3, <1>5, PlainCells
<1>7. x \in Digits => RowText(line) = e
  <2> SUFFICES ASSUME x \in Digits PROVE RowText(line) = e
    OBVIOUS
  <2>1. 0 \in DOMAIN line /\ line[0].d \in Written
    BY <1>1, <1>2, <1>3
  <2>2. ~Mute(line)
    BY <2>1 DEF Mute
  <2>3. RowText(line) = line[0].d
    BY <1>6, <2>2, RowTextDigit
  <2> QED
    BY <1>2, <1>3, <2>3
<1>8. x \notin Digits => Mute(line)
  BY <1>1, <1>2, <1>3 DEF Mute
<1> QED
  BY <1>6, <1>7, <1>8 DEF e, line, cell

LEMMA PrintShell ==
    ASSUME NEW g, NEW p, ShellOK(g, p), ~g.s.altActive, NEW x \in Digits, OpOK(Text(<<x>>)), x \in Runes
    PROVE  ShellOK(Replay(g, <<Text(<<x>>), <<"CarriageReturn">>, <<"LineFeed">>>>), Append(p, x))
<1> DEFINE s == g.s
           n == s.lines
           r == s.row
           b == s.buf
           d == Draw(s, <<<<x>>>>)
           f1 == AfterEvent(Lift(g, d))
           v == CarriageReturn(f1.s)
           f2 == AfterEvent(Lift(f1, v))
           e == HLineFeed(f2)
           f3 == AfterEvent(e)
           e1 == Text(<<x>>)
           e2 == <<"CarriageReturn">>
           e3 == <<"LineFeed">>
           q == Append(p, x)
<1>1. OpOK(e1) /\ OpOK(e2) /\ OpOK(e3)
  BY ShellOpsOK
<1>2. /\ TopOK(g) /\ PlainTop(g) /\ Shelled(s) /\ ~s.panicked /\ HistoryOK(g)
      /\ PlainIn(b, 0, n) /\ MuteIn(b, r, n - r) /\ s.col = 0 /\ s.wrapNext = FALSE
      /\ Heard(g, Spell(b, 0, n), p)
  BY DEF ShellOK, Tame, Foreground, PageText, Shelled, Quiet, HistoryOK, Fine
<1>3. n \in Nat \ {0} /\ r \in 0 .. n - 1 /\ IsBuffer(b, n, s.columns) /\ s.columns \in Nat \ {0} /\ s.attr \in SUBSET Flags
  BY <1>2, ModesAre DEF Shelled, ScreenOK, Afloat
<1>4. PlainRow(b[r])
  BY <1>2, <1>3 DEF PlainIn
<1>5. /\ Stays(s, d) /\ d.row = r
      /\ d.buf = [b EXCEPT ![r] = [@ EXCEPT ![0] = [d |-> <<x>>, a |-> s.attr]]]
  BY <1>2, <1>4, DrawnIs
<1>6. Perform(g, e1) = f1
  BY PerformIs
<1> HIDE DEF d
<1>7. Results(g, d, f1)
  BY <1>2, <1>5, ResultsIs
<1>8. HistoryOK(f1)
  BY <1>1, <1>2, <1>6, PerformOK
<1> HIDE DEF f1
<1>9. Stays(s, f1.s) /\ TopOK(f1)
  BY <1>5, <1>7, StaysTwice DEF Results
<1>10. Shelled(f1.s) /\ ~f1.s.panicked
  <2>1. Shelled(f1.s)
    BY <1>2, <1>8, <1>9, StaysShelled DEF HistoryOK, Fine
  <2> QED
    BY <2>1, ModesAre
<1>11. Stays(f1.s, v) /\ v.buf = f1.s.buf /\ v.row = f1.s.row /\ v.col = 0 /\ v.wrapNext = FALSE
  BY <1>10, ReturnIs
<1>12. Perform(f1, e2) = f2
  BY PerformIs
<1> HIDE DEF v
<1>13. Results(f1, v, f2)
  BY <1>9, <1>10, <1>11, ResultsIs
<1>14. HistoryOK(f2)
  BY <1>1, <1>8, <1>10, <1>12, PerformOK
<1> HIDE DEF f2
<1>15. Stays(s, f2.s) /\ TopOK(f2)
  BY <1>9, <1>11, <1>13, StaysTwice DEF Results
<1>16. Shelled(f2.s) /\ ~f2.s.panicked /\ ~f2.s.altActive /\ f2.s.lines = n
  <2>1. Shelled(f2.s)
    BY <1>2, <1>14, <1>15, StaysShelled DEF HistoryOK, Fine
  <2> QED
    BY <1>15, <2>1, ModesAre DEF Stays
<1>17. /\ f2.top = g.top /\ f2.firstSeq = g.firstSeq /\ f2.s.col = 0
       /\ f2.s.buf = d.buf /\ f2.s.row = r
  BY <1>5, <1>7, <1>11, <1>13 DEF Results
<1>18. PlainTop(f2)
  BY <1>2, <1>17, SameTop
<1>19. Pens(b, d.buf, n, r, <<x>>)
  <2> DEFINE y == <<x>>
             line == [b[r] EXCEPT ![0] = [d |-> y, a |-> s.attr]]
             D == d.buf
  <2>1. b[r] \in [0 .. s.columns - 1 -> Cell] /\ DOMAIN b = 0 .. n - 1
    BY <1>3 DEF IsBuffer
  <2>2. PlainRow(line) /\ RowText(line) = y
    BY <1>3, <1>4, <2>1, PennedRow
  <2>3. D = [b EXCEPT ![r] = line]
    BY <1>5
  <2> HIDE DEF D, line, y
  <2>4. D[r] = line /\ \A k \in 0 .. n - 1 : k # r => D[k] = b[k]
    BY <1>3, <2>1, <2>3
  <2> HIDE DEF b, r, n
  <2>5. Pens(b, D, n, r, y)
    BY <1>2, <1>3, <2>2, <2>4, PenPage
  <2> QED
    BY <2>5 DEF D, y
<1>20. Heard(f2, Spell(d.buf, 0, n), q)
  <2> DEFINE t == Spell(b, 0, n)
             o == 0
  <2>1. t \in Seq(Digits)
    <3>1. o \in Nat /\ n \in Nat /\ PlainIn(b, o, n)
      BY <1>2, <1>3
    <3> HIDE DEF o
    <3>2. Spell(b, o, n) \in Seq(Digits)
      BY <3>1, SpellType
    <3> QED
      BY <3>2 DEF o
  <2> HIDE DEF t
  <2>2. Heard(g, t \o <<x>>, q)
    BY <1>2, <2>1, HeardMore DEF t
  <2>3. Heard(f2, t \o <<x>>, q)
    BY <1>17, <2>2, SameTop
  <2>4. Spell(d.buf, 0, n) = t \o <<x>>
    BY <1>19 DEF Pens, t
  <2> QED
    BY <2>3, <2>4
<1>21. Stays(f2.s, e.s) /\ Fed(e, n, q)
  <2>1. PlainIn(f2.s.buf, 0, f2.s.lines) /\ MuteIn(f2.s.buf, f2.s.row + 1, f2.s.lines - (f2.s.row + 1))
    BY <1>16, <1>17, <1>19 DEF Pens
  <2>2. Heard(f2, Spell(f2.s.buf, 0, f2.s.lines), q)
    BY <1>16, <1>17, <1>20
  <2> HIDE DEF n, q
  <2> QED
    BY <1>15, <1>16, <1>17, <1>18, <2>1, <2>2, FeedIs
<1>22. TopOK(e)
  BY <1>14, <1>16, HIndexOK DEF HistoryOK
<1>23. Perform(f2, e3) = f3
  BY PerformIs
<1> HIDE DEF e
<1>24. ~e.s.panicked /\ HasFields(e.s) /\ "conformanceExplicit" \in DOMAIN e.s
  BY <1>16, <1>21 DEF Stays, Hushed
<1>25. /\ f3.top = e.top /\ f3.firstSeq = e.firstSeq /\ Stays(e.s, f3.s)
       /\ f3.s.buf = e.s.buf /\ f3.s.row = e.s.row /\ f3.s.col = e.s.col /\ f3.s.wrapNext = e.s.wrapNext
  BY <1>22, <1>24, AfterIs
<1>26. HistoryOK(f3)
  BY <1>1, <1>14, <1>16, <1>23, PerformOK
<1> HIDE DEF f3, q
<1>27. Stays(s, f3.s)
  BY <1>15, <1>21, <1>25, StaysTwice
<1>28. Shelled(f3.s)
  BY <1>2, <1>26, <1>27, StaysShelled DEF HistoryOK, Fine
<1>29. ~f3.s.altActive /\ f3.s.lines = n
  BY <1>27 DEF Stays
<1>30. Foreground(f3.s)
  BY <1>21, <1>25, <1>29 DEF Fed, Foreground
<1>31. PlainTop(f3) /\ Heard(f3, Spell(f3.s.buf, 0, n), q)
  BY <1>21, <1>25, SameTop DEF Fed
<1>32. ShellOK(f3, q)
  BY <1>26, <1>28, <1>29, <1>30, <1>31 DEF ShellOK, Tame, PageText, Shelled, HistoryOK
<1>33. Replay(g, <<e1, e2, e3>>) = f3
  <2> HIDE DEF e1, e2, e3, s
  <2>1. Replay(g, <<e1, e2, e3>>) = Once(Once(Once(g, e1), e2), e3)
    BY ReplayIs
  <2>2. Once(g, e1) = f1
    BY <1>2, <1>6 DEF Once, ReplayStep, s
  <2>3. Once(f1, e2) = f2
    BY <1>10, <1>12 DEF Once, ReplayStep
  <2>4. Once(f2, e3) = f3
    BY <1>16, <1>23 DEF Once, ReplayStep
  <2> QED
    BY <2>1, <2>2, <2>3, <2>4
<1> QED
  BY <1>32, <1>33 DEF q, e1, e2, e3

(* A full-screen program comes and goes: the shell's page is stashed and a  *)
(* blank one shown; the page comes back with its cursor.                    *)
LEMMA BlankPage ==
    ASSUME NEW n \in Nat, NEW w \in Nat
    PROVE  PlainIn(BlankBuffer(n, w), 0, n) /\ MuteIn(BlankBuffer(n, w), 0, n)
<1> DEFINE s == [mode |-> {}]
           line == BlankLine(w, DefaultCell(s))
           b == BlankBuffer(n, w)
<1>1. DefaultCell(s) = [d |-> Blank, a |-> PlainAttr]
  BY DEF DefaultCell, DefaultAttr, Has, PlainAttr
<1>2. b = [r \in 0 .. n - 1 |-> line]
  BY <1>1 DEF BlankBuffer
<1> HIDE DEF s
<1>3. PlainRow(line) /\ RowText(line) = <<>>
  BY BlankPlain
<1> HIDE DEF line, b
<1>4. Mute(line)
  BY <1>3, MuteIsText
<1>5. \A k \in 0 .. 0 + n - 1 : b[k] = line
  BY <1>2
<1>6. PlainIn(b, 0, n) /\ MuteIn(b, 0, n)
  BY <1>3, <1>4, <1>5 DEF PlainIn, MuteIn
<1> QED
  BY <1>6 DEF b

(* What the switch between the pages leaves of s in t. *)
Switches(s, t) ==
    /\ HasFields(t) /\ "conformanceExplicit" \in DOMAIN t /\ t.conformanceExplicit = s.conformanceExplicit
    /\ t.charset = s.charset /\ t.g0 = s.g0 /\ t.panicked = s.panicked
    /\ t.lines = s.lines /\ t.columns = s.columns /\ t.margins = s.margins
LEMMA SwitchesTwice == ASSUME NEW s, NEW t, NEW u, Switches(s, t), Switches(t, u) PROVE Switches(s, u)
  BY DEF Switches
LEMMA StaysSwitches == ASSUME NEW s, NEW t, Stays(s, t) PROVE Switches(s, t)
  BY DEF Switches, Stays, Hushed

LEMMA SwapIs ==
    ASSUME NEW s, HasFields(s), "conformanceExplicit" \in DOMAIN s
    PROVE  LET t == SwapBuffers(s)
           IN  /\ Switches(s, t) /\ t.mode = s.mode /\ t.buf = s.altBuf /\ t.altBuf = s.buf
               /\ t.wrapNext = s.altWrapNext /\ t.altWrapNext = s.wrapNext
               /\ t.altActive = ~s.altActive /\ t.altSavedCursor = s.altSavedCursor
<1> DEFINE t == SwapBuffers(s)
<1>1. HasFields(t) /\ t.charset = s.charset /\ t.g0 = s.g0 /\ t.panicked = s.panicked
  BY DEF HasFields, SwapBuffers
<1>2. t.lines = s.lines /\ t.columns = s.columns /\ t.margins = s.margins /\ t.mode = s.mode
  BY DEF HasFields, SwapBuffers
<1>3. "conformanceExplicit" \in DOMAIN t /\ t.conformanceExplicit = s.conformanceExplicit
  BY Zenon DEF SwapBuffers
<1>4. /\ t.buf = s.altBuf /\ t.altBuf = s.buf /\ t.altSavedCursor = s.altSavedCursor
      /\ t.wrapNext = s.altWrapNext /\ t.altWrapNext = s.wrapNext
  BY DEF HasFields, SwapBuffers
<1>5. t.altActive = ~s.altActive
  BY DEF HasFields, SwapBuffers
<1> HIDE DEF t
<1> QED
  BY <1>1, <1>2, <1>3, <1>4, <1>5 DEF Switches, t

LEMMA EnterIs ==
    ASSUME NEW s, Shelled(s), ~s.altActive
    PROVE  LET t == SetMode(s, <<"AltBufCursor">>)
           IN  /\ Switches(s, t) /\ t.mode = s.mode \union {"AltBufCursor"}
               /\ t.altActive = TRUE /\ t.altBuf = s.buf /\ t.altWrapNext = s.wrapNext
               /\ t.altSavedCursor = Cursor(s) /\ t.buf = BlankBuffer(s.lines, s.columns)
<1> DEFINE m == "AltBufCursor"
           q == <<m>>
           blank == BlankBuffer(s.lines, s.columns)
           s1 == [s EXCEPT !.mode = @ \union {m}]
           cur == Cursor(s1)
           s2 == [s1 EXCEPT !.altSavedCursor = cur]
           s3 == IF s1.altBuf /= NoBuffer THEN s2 ELSE [s2 EXCEPT !.altBuf = blank, !.altLineWrapped = {}]
           s4 == SwapBuffers(s3)
           s5 == [s4 EXCEPT !.buf = blank, !.lineWrapped = {}, !.wrapNext = FALSE]
           t == CursorPosition(s5, 0, 0)
<1>1. HasFields(s) /\ "conformanceExplicit" \in DOMAIN s /\ s.conformanceExplicit = FALSE
      /\ ~Has(s, "DECOM") /\ ~Has(s, "DECLRMM")
  BY ModesAre DEF Shelled, Quiet
<1>2. SetMode(s, q) = ApplySetMode(s, m)
  <2> HIDE DEF m
  <2>1. SetMode(s, q) = SetModeLaws!Fold(0, s, q)
    BY DEF SetMode, FoldLeft, MapThenFoldSet, Max, SetModeLaws!Fold, SetModeLaws!Greatest, SetModeStep
  <2>2. SetModeLaws!Fold(0, s, <<m>>) = SetModeStep(0, s, m)
    BY ModeInduction, SetModeLaws!FoldSingle
  <2> QED
    BY <2>1, <2>2 DEF SetModeStep
<1>3. ApplySetMode(s, m) = EnterAltScreen(s1, TRUE)
  BY <1>1 DEF ApplySetMode
<1>4. Switches(s, s1) /\ s1.mode = s.mode \union {m} /\ s1.buf = s.buf /\ s1.wrapNext = s.wrapNext
      /\ s1.altActive = s.altActive /\ cur = Cursor(s) /\ HasFields(s1)
  <2>1. /\ HasFields(s1) /\ s1.charset = s.charset /\ s1.g0 = s.g0 /\ s1.panicked = s.panicked
        /\ s1.lines = s.lines /\ s1.columns = s.columns /\ s1.margins = s.margins
        /\ s1.mode = s.mode \union {m} /\ s1.buf = s.buf /\ s1.wrapNext = s.wrapNext
        /\ s1.altActive = s.altActive /\ s1.row = s.row /\ s1.col = s.col /\ s1.attr = s.attr /\ s1.hidden = s.hidden
    BY <1>1 DEF HasFields
  <2>2. "conformanceExplicit" \in DOMAIN s1 /\ s1.conformanceExplicit = s.conformanceExplicit
    BY <1>1
  <2> HIDE DEF s1
  <2> QED
    BY <2>1, <2>2 DEF Switches, Cursor
<1>5. EnterAltScreen(s1, TRUE) = t
  <2>1. ~s1.altActive /\ BlankBuffer(s1.lines, s1.columns) = blank
    BY <1>4 DEF Switches
  <2> HIDE DEF blank, s1
  <2> QED
    BY <2>1 DEF EnterAltScreen
<1> HIDE DEF s1, blank, cur, m
<1>6. /\ Switches(s, s2) /\ s2.mode = s1.mode /\ s2.buf = s.buf /\ s2.wrapNext = s.wrapNext
      /\ s2.altActive = s.altActive /\ s2.altSavedCursor = cur /\ HasFields(s2)
  <2>1. /\ HasFields(s2) /\ s2.charset = s1.charset /\ s2.g0 = s1.g0 /\ s2.panicked = s1.panicked
        /\ s2.lines = s1.lines /\ s2.columns = s1.columns /\ s2.margins = s1.margins
        /\ s2.mode = s1.mode /\ s2.buf = s1.buf /\ s2.wrapNext = s1.wrapNext
        /\ s2.altActive = s1.altActive /\ s2.altSavedCursor = cur
    BY <1>4 DEF HasFields
  <2>2. "conformanceExplicit" \in DOMAIN s2 /\ s2.conformanceExplicit = s1.conformanceExplicit
    BY <1>4 DEF Switches
  <2> HIDE DEF s2
  <2> QED
    BY <1>4, <2>1, <2>2 DEF Switches
<1> HIDE DEF s2
<1>7. /\ Switches(s, s3) /\ s3.mode = s1.mode /\ s3.buf = s.buf /\ s3.wrapNext = s.wrapNext
      /\ s3.altActive = s.altActive /\ s3.altSavedCursor = cur
  <2> DEFINE z == [s2 EXCEPT !.altBuf = blank, !.altLineWrapped = {}]
  <2>1. /\ HasFields(z) /\ z.charset = s2.charset /\ z.g0 = s2.g0 /\ z.panicked = s2.panicked
        /\ z.lines = s2.lines /\ z.columns = s2.columns /\ z.margins = s2.margins
        /\ z.mode = s2.mode /\ z.buf = s2.buf /\ z.wrapNext = s2.wrapNext
        /\ z.altActive = s2.altActive /\ z.altSavedCursor = s2.altSavedCursor
    BY <1>6 DEF HasFields
  <2>2. "conformanceExplicit" \in DOMAIN z /\ z.conformanceExplicit = s2.conformanceExplicit
    BY <1>6 DEF Switches
  <2>3. s3 = s2 \/ s3 = z
    OBVIOUS
  <2> HIDE DEF z, s3
  <2>4. Switches(s, z)
    BY <1>6, <2>1, <2>2 DEF Switches
  <2> QED
    BY <1>6, <2>1, <2>3, <2>4
<1> HIDE DEF s3
<1>8. /\ Switches(s, s4) /\ s4.mode = s1.mode /\ s4.altBuf = s.buf /\ s4.altWrapNext = s.wrapNext
      /\ s4.altActive = TRUE /\ s4.altSavedCursor = cur
  <2>1. /\ Switches(s3, s4) /\ s4.mode = s3.mode /\ s4.altBuf = s3.buf /\ s4.altWrapNext = s3.wrapNext
        /\ s4.altActive = ~s3.altActive /\ s4.altSavedCursor = s3.altSavedCursor
    BY <1>7, SwapIs DEF Switches
  <2> HIDE DEF s4
  <2>2. s4.altActive = TRUE
    BY <1>7, <2>1
  <2> QED
    BY <1>7, <2>1, <2>2, SwitchesTwice
<1> HIDE DEF s4
<1>9. /\ Switches(s, s5) /\ s5.mode = s1.mode /\ s5.altBuf = s.buf /\ s5.altWrapNext = s.wrapNext
      /\ s5.altActive = TRUE /\ s5.altSavedCursor = cur /\ s5.buf = blank
  <2>1. /\ HasFields(s5) /\ s5.charset = s4.charset /\ s5.g0 = s4.g0 /\ s5.panicked = s4.panicked
        /\ s5.lines = s4.lines /\ s5.columns = s4.columns /\ s5.margins = s4.margins
        /\ s5.mode = s4.mode /\ s5.altBuf = s4.altBuf /\ s5.altWrapNext = s4.altWrapNext
        /\ s5.altActive = s4.altActive /\ s5.altSavedCursor = s4.altSavedCursor /\ s5.buf = blank
    BY <1>8 DEF HasFields, Switches
  <2>2. "conformanceExplicit" \in DOMAIN s5 /\ s5.conformanceExplicit = s4.conformanceExplicit
    BY <1>8 DEF Switches
  <2> HIDE DEF s5
  <2> QED
    BY <1>8, <2>1, <2>2 DEF Switches
<1> HIDE DEF s5
<1>10. ~Has(s5, "DECOM") /\ ~Has(s5, "DECLRMM")
  BY <1>1, <1>4, <1>9 DEF Has, m
<1>11. Stays(s5, t) /\ t.buf = s5.buf
  <2> DEFINE o == 0
  <2>1. o \in Int
    OBVIOUS
  <2> HIDE DEF o
  <2>2. Stays(s5, CursorPosition(s5, o, o)) /\ CursorPosition(s5, o, o).buf = s5.buf
    BY <1>9, <1>10, <2>1, PositionIs DEF Switches
  <2> QED
    BY <2>2 DEF o
<1> HIDE DEF t
<1>12. Switches(s, t) /\ t.mode = s.mode \union {m}
  BY <1>4, <1>9, <1>11, SwitchesTwice, StaysSwitches DEF Stays, Hushed
<1>13. /\ t.altActive = TRUE /\ t.altBuf = s.buf /\ t.altWrapNext = s.wrapNext
       /\ t.altSavedCursor = Cursor(s) /\ t.buf = blank
  BY <1>4, <1>9, <1>11 DEF Stays
<1>14. SetMode(s, q) = t
  BY <1>2, <1>3, <1>5
<1> QED
  BY <1>12, <1>13, <1>14 DEF m, q, blank

LEMMA ExitIs ==
    ASSUME NEW s, Shelled(s), s.altActive, s.altSavedCursor \in CursorSet, s.altSavedCursor # NoCursor,
           s.altSavedCursor.row < s.lines, s.altSavedCursor.col = 0
    PROVE  LET t == ResetMode(s, <<"AltBufCursor">>)
           IN  /\ Switches(s, t) /\ t.mode = s.mode \ {"AltBufCursor"}
               /\ t.altActive = FALSE /\ t.buf = s.altBuf /\ t.wrapNext = s.altWrapNext
               /\ t.row = s.altSavedCursor.row /\ t.col = 0
<1> DEFINE m == "AltBufCursor"
           q == <<m>>
           blank == BlankBuffer(s.lines, s.columns)
           s1 == [s EXCEPT !.mode = @ \ {m}]
           cur == s1.altSavedCursor
           s2 == SwapBuffers(s1)
           s3 == [s2 EXCEPT !.altBuf = blank, !.altLineWrapped = {}, !.altWrapNext = FALSE, !.altSavepoints = <<>>]
           s4 == WithCursor(s3, cur)
           y == MinOf(s4.row, s1.lines - 1)
           x == MinOf(s4.col, s1.columns - 1)
           s5 == [s4 EXCEPT !.row = y, !.col = x]
           t == [s5 EXCEPT !.altSavedCursor = NoCursor]
<1>1. HasFields(s) /\ "conformanceExplicit" \in DOMAIN s /\ s.lines \in Nat \ {0} /\ s.columns \in Nat \ {0}
  BY ModesAre
<1>2. ResetMode(s, q) = ApplyResetMode(s, m)
  <2> HIDE DEF m
  <2>1. ResetMode(s, q) = ResetModeLaws!Fold(0, s, q)
    BY DEF ResetMode, FoldLeft, MapThenFoldSet, Max, ResetModeLaws!Fold, ResetModeLaws!Greatest, ResetModeStep
  <2>2. ResetModeLaws!Fold(0, s, <<m>>) = ResetModeStep(0, s, m)
    BY ModeInduction, ResetModeLaws!FoldSingle
  <2> QED
    BY <2>1, <2>2 DEF ResetModeStep
<1>3. ApplyResetMode(s, m) = ExitAltScreen(s1, TRUE, TRUE)
  BY DEF ApplyResetMode
<1>4. /\ Switches(s, s1) /\ s1.mode = s.mode \ {m} /\ s1.altBuf = s.altBuf /\ s1.altWrapNext = s.altWrapNext
      /\ s1.altActive = s.altActive /\ cur = s.altSavedCursor
  <2>1. /\ HasFields(s1) /\ s1.charset = s.charset /\ s1.g0 = s.g0 /\ s1.panicked = s.panicked
        /\ s1.lines = s.lines /\ s1.columns = s.columns /\ s1.margins = s.margins
        /\ s1.mode = s.mode \ {m} /\ s1.altBuf = s.altBuf /\ s1.altWrapNext = s.altWrapNext
        /\ s1.altActive = s.altActive /\ s1.altSavedCursor = s.altSavedCursor
    BY <1>1 DEF HasFields
  <2>2. "conformanceExplicit" \in DOMAIN s1 /\ s1.conformanceExplicit = s.conformanceExplicit
    BY <1>1
  <2> HIDE DEF s1
  <2> QED
    BY <2>1, <2>2 DEF Switches
<1>5. ExitAltScreen(s1, TRUE, TRUE) = t
  <2>1. s1.altActive /\ BlankBuffer(s1.lines, s1.columns) = blank /\ cur # NoCursor
    BY <1>4 DEF Switches
  <2>2. t = [s5 EXCEPT !.altSavedCursor = NoCursor] /\ s5 = [WithCursor(s3, cur) EXCEPT
                      !.row = MinOf(@, s1.lines - 1), !.col = MinOf(@, s1.columns - 1)]
    OBVIOUS
  <2> HIDE DEF blank, s1, t, s5, s4
  <2> QED
    BY <2>1, <2>2 DEF ExitAltScreen
<1> HIDE DEF s1, blank, m
<1>6. /\ Switches(s, s2) /\ s2.mode = s1.mode /\ s2.buf = s.altBuf /\ s2.wrapNext = s.altWrapNext
      /\ s2.altActive = FALSE
  <2>1. /\ Switches(s1, s2) /\ s2.mode = s1.mode /\ s2.buf = s1.altBuf /\ s2.wrapNext = s1.altWrapNext
        /\ s2.altActive = ~s1.altActive
    BY <1>4, SwapIs DEF Switches
  <2> HIDE DEF s2
  <2>2. s2.altActive = FALSE
    BY <1>4, <2>1
  <2> QED
    BY <1>4, <2>1, <2>2, SwitchesTwice
<1> HIDE DEF s2
<1>7. /\ Switches(s, s3) /\ s3.mode = s1.mode /\ s3.buf = s.altBuf /\ s3.wrapNext = s.altWrapNext
      /\ s3.altActive = FALSE
  <2> DEFINE e == <<>>
             z == [s2 EXCEPT !.altBuf = blank, !.altLineWrapped = {}, !.altWrapNext = FALSE, !.altSavepoints = e]
  <2> HIDE DEF e
  <2>1. /\ HasFields(z) /\ z.charset = s2.charset /\ z.g0 = s2.g0 /\ z.panicked = s2.panicked
        /\ z.lines = s2.lines /\ z.columns = s2.columns /\ z.margins = s2.margins
        /\ z.mode = s2.mode /\ z.buf = s2.buf /\ z.wrapNext = s2.wrapNext
        /\ z.altActive = s2.altActive
    BY <1>6 DEF HasFields, Switches
  <2>2. "conformanceExplicit" \in DOMAIN z /\ z.conformanceExplicit = s2.conformanceExplicit
    BY <1>6 DEF Switches
  <2>3. s3 = z
    BY DEF e
  <2> HIDE DEF z, s3
  <2> QED
    BY <1>6, <2>1, <2>2, <2>3 DEF Switches
<1> HIDE DEF s3
<1>8. /\ Switches(s, s4) /\ s4.mode = s1.mode /\ s4.buf = s.altBuf /\ s4.wrapNext = s.altWrapNext
      /\ s4.altActive = FALSE /\ s4.row = cur.row /\ s4.col = cur.col
  <2>1. /\ HasFields(s4) /\ s4.charset = s3.charset /\ s4.g0 = s3.g0 /\ s4.panicked = s3.panicked
        /\ s4.lines = s3.lines /\ s4.columns = s3.columns /\ s4.margins = s3.margins
        /\ s4.mode = s3.mode /\ s4.buf = s3.buf /\ s4.wrapNext = s3.wrapNext
        /\ s4.altActive = s3.altActive /\ s4.row = cur.row /\ s4.col = cur.col
    BY <1>7 DEF HasFields, Switches, WithCursor
  <2>2. "conformanceExplicit" \in DOMAIN s4 /\ s4.conformanceExplicit = s3.conformanceExplicit
    BY <1>7 DEF Switches, WithCursor
  <2> HIDE DEF s4
  <2> QED
    BY <1>7, <2>1, <2>2 DEF Switches
<1> HIDE DEF s4
<1>9. y = cur.row /\ x = 0
  <2>1. cur.row \in Nat /\ cur.row < s.lines /\ cur.col = 0 /\ s1.lines = s.lines /\ s1.columns = s.columns
    BY <1>4 DEF CursorSet, Switches
  <2> HIDE DEF cur
  <2> QED
    BY <1>1, <1>8, <2>1 DEF MinOf
<1> HIDE DEF x, y
<1>10. /\ Switches(s, s5) /\ s5.mode = s1.mode /\ s5.buf = s.altBuf /\ s5.wrapNext = s.altWrapNext
       /\ s5.altActive = FALSE /\ s5.row = y /\ s5.col = x
  <2>1. /\ HasFields(s5) /\ s5.charset = s4.charset /\ s5.g0 = s4.g0 /\ s5.panicked = s4.panicked
        /\ s5.lines = s4.lines /\ s5.columns = s4.columns /\ s5.margins = s4.margins
        /\ s5.mode = s4.mode /\ s5.buf = s4.buf /\ s5.wrapNext = s4.wrapNext
        /\ s5.altActive = s4.altActive /\ s5.row = y /\ s5.col = x
    BY <1>8 DEF HasFields, Switches
  <2>2. "conformanceExplicit" \in DOMAIN s5 /\ s5.conformanceExplicit = s4.conformanceExplicit
    BY <1>8 DEF Switches
  <2> HIDE DEF s5
  <2> QED
    BY <1>8, <2>1, <2>2 DEF Switches
<1> HIDE DEF s5
<1>11. /\ Switches(s, t) /\ t.mode = s1.mode /\ t.buf = s.altBuf /\ t.wrapNext = s.altWrapNext
       /\ t.altActive = FALSE /\ t.row = y /\ t.col = x
  <2>1. /\ HasFields(t) /\ t.charset = s5.charset /\ t.g0 = s5.g0 /\ t.panicked = s5.panicked
        /\ t.lines = s5.lines /\ t.columns = s5.columns /\ t.margins = s5.margins
        /\ t.mode = s5.mode /\ t.buf = s5.buf /\ t.wrapNext = s5.wrapNext
        /\ t.altActive = s5.altActive /\ t.row = s5.row /\ t.col = s5.col
    BY <1>10 DEF HasFields, Switches
  <2>2. "conformanceExplicit" \in DOMAIN t /\ t.conformanceExplicit = s5.conformanceExplicit
    BY <1>10 DEF Switches
  <2> HIDE DEF t
  <2> QED
    BY <1>10, <2>1, <2>2 DEF Switches
<1> HIDE DEF t
<1>12. ResetMode(s, q) = t
  BY <1>2, <1>3, <1>5
<1> QED
  BY <1>4, <1>9, <1>11, <1>12 DEF m, q

(* What is left of Tame once the screen is known to be well-formed. *)
LEMMA SwitchedTame ==
    ASSUME NEW s, Shelled(s), NEW t, Switches(s, t), ScreenOK(t),
           t.mode \in {ResetModes, ResetModes \union {"AltBufCursor"}},
           t.altActive => Behind(t), ~t.altActive => Foreground(t)
    PROVE  Tame(t)
  BY DEF Tame, Quiet, Shelled, Switches

LEMMA ModesSwitched ==
    ASSUME NEW m \in {ResetModes, ResetModes \union {"AltBufCursor"}}
    PROVE  /\ m \union {"AltBufCursor"} \in {ResetModes, ResetModes \union {"AltBufCursor"}}
           /\ m \ {"AltBufCursor"} \in {ResetModes, ResetModes \union {"AltBufCursor"}}
<1>1. "AltBufCursor" \notin ResetModes
  BY DEF ResetModes
<1>2. CASE m = ResetModes
  <2>1. m \ {"AltBufCursor"} = ResetModes /\ m \union {"AltBufCursor"} = ResetModes \union {"AltBufCursor"}
    BY <1>1, <1>2
  <2> QED
    BY <2>1
<1>3. CASE m = ResetModes \union {"AltBufCursor"}
  <2>1. m \ {"AltBufCursor"} = ResetModes /\ m \union {"AltBufCursor"} = ResetModes \union {"AltBufCursor"}
    BY <1>1, <1>3
  <2> QED
    BY <2>1
<1> QED
  BY <1>2, <1>3

LEMMA EnterShell ==
    ASSUME NEW g, NEW p, ShellOK(g, p), ~g.s.altActive
    PROVE  ShellOK(Replay(g, <<SwitchOp("SetMode")>>), p)
<1> DEFINE s == g.s
           n == s.lines
           t == SetMode(s, <<"AltBufCursor">>)
           e == SwitchOp("SetMode")
           f == AfterEvent(Lift(g, t))
<1>1. /\ TopOK(g) /\ PlainTop(g) /\ Shelled(s) /\ ~s.panicked /\ HistoryOK(g) /\ Foreground(s)
      /\ Heard(g, Spell(s.buf, 0, n), p)
  BY DEF ShellOK, Tame, PageText, Shelled, Quiet, HistoryOK, Fine
<1>2. n \in Nat \ {0} /\ s.columns \in Nat \ {0} /\ s.row \in 0 .. n - 1
  BY <1>1, ModesAre
<1>3. /\ Switches(s, t) /\ t.mode = s.mode \union {"AltBufCursor"}
      /\ t.altActive = TRUE /\ t.altBuf = s.buf /\ t.altWrapNext = s.wrapNext
      /\ t.altSavedCursor = Cursor(s) /\ t.buf = BlankBuffer(n, s.columns)
  BY <1>1, EnterIs
<1>4. Perform(g, e) = f
  BY PerformIs
<1>5. OpOK(e)
  BY ShellOpsOK DEF SwitchOp
<1>6. HistoryOK(f)
  BY <1>1, <1>4, <1>5, PerformOK
<1>7. Replay(g, <<e>>) = f
  <2>1. Replay(g, <<e>>) = Once(g, e)
    BY ReplayIs
  <2> QED
    BY <1>1, <1>4, <2>1 DEF Once, ReplayStep
<1> HIDE DEF t, e
<1>8. f.top = g.top /\ f.firstSeq = g.firstSeq /\ Stays(t, f.s) /\ f.s.buf = t.buf
  <2> DEFINE k == Lift(g, t)
  <2>1. k.top = g.top /\ k.firstSeq = g.firstSeq /\ k.s = t
    BY <1>1, Lifted
  <2>2. TopOK(k)
    BY <1>1, LiftOK DEF Later
  <2>3. ~t.panicked /\ HasFields(t) /\ "conformanceExplicit" \in DOMAIN t
    BY <1>1, <1>3 DEF Switches
  <2> HIDE DEF k, f
  <2>4. LET a == AfterEvent(k) IN a.top = k.top /\ a.firstSeq = k.firstSeq /\ Stays(k.s, a.s) /\ a.s.buf = k.s.buf
    BY <2>1, <2>2, <2>3, AfterIs
  <2> QED
    BY <2>1, <2>4 DEF f, k
<1> HIDE DEF f
<1>9. ScreenOK(f.s) /\ TopOK(f)
  BY <1>6 DEF HistoryOK, Fine
<1> DEFINE u == f.s
<1>10. Switches(s, u) /\ u.lines = n
  BY <1>3, <1>8, SwitchesTwice, StaysSwitches DEF Switches
<1>11. /\ u.altActive = TRUE /\ u.altBuf = s.buf /\ u.altWrapNext = s.wrapNext
       /\ u.altSavedCursor = Cursor(s) /\ u.buf = BlankBuffer(n, s.columns)
       /\ u.mode = s.mode \union {"AltBufCursor"}
  BY <1>3, <1>8 DEF Stays, Hushed
<1> HIDE DEF u
<1>12. Behind(u)
  <2>1. Cursor(s).row = s.row /\ Cursor(s).col = s.col
    BY DEF Cursor
  <2>2. Cursor(s) # NoCursor
    <3>1. "row" \in DOMAIN Cursor(s)
      BY DEF Cursor
    <3>2. "row" \notin DOMAIN NoCursor
      BY DEF NoCursor
    <3> QED
      BY <3>1, <3>2
  <2>3. PlainIn(u.buf, 0, n) /\ MuteIn(u.buf, 0, n)
    BY <1>2, <1>11, BlankPage
  <2> QED
    BY <1>1, <1>2, <1>10, <1>11, <2>1, <2>2, <2>3 DEF Behind, Foreground
<1>13. Tame(u)
  <2>1. u.mode \in {ResetModes, ResetModes \union {"AltBufCursor"}}
    BY <1>1, <1>11, ModesSwitched DEF Shelled, Quiet
  <2> QED
    BY <1>1, <1>9, <1>10, <1>11, <1>12, <2>1, SwitchedTame DEF u
<1>14. PlainTop(f) /\ Heard(f, PageText(u), p)
  <2>1. PageText(u) = Spell(s.buf, 0, n)
    BY <1>10, <1>11 DEF PageText
  <2> QED
    BY <1>1, <1>8, <2>1, SameTop
<1>15. ShellOK(f, p)
  BY <1>9, <1>13, <1>14 DEF ShellOK, u
<1> QED
  BY <1>7, <1>15 DEF e

LEMMA ExitShell ==
    ASSUME NEW g, NEW p, ShellOK(g, p), g.s.altActive
    PROVE  ShellOK(Replay(g, <<SwitchOp("ResetMode")>>), p)
<1> DEFINE s == g.s
           n == s.lines
           t == ResetMode(s, <<"AltBufCursor">>)
           e == SwitchOp("ResetMode")
           f == AfterEvent(Lift(g, t))
<1>1. /\ TopOK(g) /\ PlainTop(g) /\ Shelled(s) /\ ~s.panicked /\ HistoryOK(g) /\ Behind(s)
      /\ Heard(g, Spell(s.altBuf, 0, n), p)
  BY DEF ShellOK, Tame, PageText, Shelled, Quiet, HistoryOK, Fine
<1>2. s.altSavedCursor \in CursorSet
  BY <1>1 DEF Behind, Shelled, ScreenOK, Afloat
<1>3. /\ Switches(s, t) /\ t.mode = s.mode \ {"AltBufCursor"}
      /\ t.altActive = FALSE /\ t.buf = s.altBuf /\ t.wrapNext = s.altWrapNext
      /\ t.row = s.altSavedCursor.row /\ t.col = 0
  BY <1>1, <1>2, ExitIs DEF Behind
<1>4. Perform(g, e) = f
  BY PerformIs
<1>5. OpOK(e)
  BY ShellOpsOK DEF SwitchOp
<1>6. HistoryOK(f)
  BY <1>1, <1>4, <1>5, PerformOK
<1>7. Replay(g, <<e>>) = f
  <2>1. Replay(g, <<e>>) = Once(g, e)
    BY ReplayIs
  <2> QED
    BY <1>1, <1>4, <2>1 DEF Once, ReplayStep
<1> HIDE DEF t, e
<1>8. /\ f.top = g.top /\ f.firstSeq = g.firstSeq /\ Stays(t, f.s) /\ f.s.buf = t.buf
      /\ f.s.row = t.row /\ f.s.col = t.col /\ f.s.wrapNext = t.wrapNext
  <2> DEFINE k == Lift(g, t)
  <2>1. k.top = g.top /\ k.firstSeq = g.firstSeq /\ k.s = t
    BY <1>1, Lifted
  <2>2. TopOK(k)
    BY <1>1, LiftOK DEF Later
  <2>3. ~t.panicked /\ HasFields(t) /\ "conformanceExplicit" \in DOMAIN t
    BY <1>1, <1>3 DEF Switches
  <2> HIDE DEF k, f
  <2>4. LET a == AfterEvent(k)
        IN  /\ a.top = k.top /\ a.firstSeq = k.firstSeq /\ Stays(k.s, a.s) /\ a.s.buf = k.s.buf
            /\ a.s.row = k.s.row /\ a.s.col = k.s.col /\ a.s.wrapNext = k.s.wrapNext
    BY <2>1, <2>2, <2>3, AfterIs
  <2> QED
    BY <2>1, <2>4 DEF f, k
<1> HIDE DEF f
<1>9. ScreenOK(f.s) /\ TopOK(f)
  BY <1>6 DEF HistoryOK, Fine
<1> DEFINE u == f.s
<1>10. Switches(s, u) /\ u.lines = n
  BY <1>3, <1>8, SwitchesTwice, StaysSwitches DEF Switches
<1>11. /\ u.altActive = FALSE /\ u.buf = s.altBuf /\ u.wrapNext = s.altWrapNext
       /\ u.row = s.altSavedCursor.row /\ u.col = 0 /\ u.mode = s.mode \ {"AltBufCursor"}
  BY <1>3, <1>8 DEF Stays, Hushed
<1> HIDE DEF u
<1>12. Foreground(u)
  BY <1>1, <1>10, <1>11 DEF Behind, Foreground
<1>13. Tame(u)
  <2>1. u.mode \in {ResetModes, ResetModes \union {"AltBufCursor"}}
    BY <1>1, <1>11, ModesSwitched DEF Shelled, Quiet
  <2> QED
    BY <1>1, <1>9, <1>10, <1>11, <1>12, <2>1, SwitchedTame DEF u
<1>14. PlainTop(f) /\ Heard(f, PageText(u), p)
  <2>1. PageText(u) = Spell(s.altBuf, 0, n)
    BY <1>10, <1>11 DEF PageText
  <2> QED
    BY <1>1, <1>8, <2>1, SameTop
<1>15. ShellOK(f, p)
  BY <1>9, <1>13, <1>14 DEF ShellOK, u
<1> QED
  BY <1>7, <1>15 DEF e

LEMMA BottomIs ==
    ASSUME NEW n \in Nat \ {0}, NEW w \in Nat \ {0}
    PROVE  Clamp(AtLeast1(n) - 1, 0, n - 1) = n - 1 /\ Clamp(AtLeast1(1) - 1, 0, w - 1) = 0
<1>1. AtLeast1(n) = n /\ AtLeast1(1) = 1
  BY DEF AtLeast1
<1>2. MinOf(n - 1, n - 1) = n - 1 /\ MaxOf(0, n - 1) = n - 1 /\ MinOf(0, w - 1) = 0 /\ MaxOf(0, 0) = 0
  BY DEF MinOf, MaxOf
<1> QED
  BY <1>1, <1>2 DEF Clamp

LEMMA PaintShell ==
    ASSUME NEW g, NEW p, ShellOK(g, p), g.s.altActive
    PROVE  ShellOK(Replay(g, <<PlaceOp(g.s.lines), Text(<<"#">>)>>), p)
<1> DEFINE s == g.s
           n == s.lines
           r == n - 1
           b == s.buf
           x == "#"
           v == CursorPosition(s, n, 1)
           f1 == AfterEvent(Lift(g, v))
           d == Draw(f1.s, <<<<x>>>>)
           f2 == AfterEvent(Lift(f1, d))
           e1 == PlaceOp(n)
           e2 == Text(<<x>>)
<1>1. /\ TopOK(g) /\ PlainTop(g) /\ Shelled(s) /\ ~s.panicked /\ HistoryOK(g) /\ Behind(s)
      /\ Heard(g, Spell(s.altBuf, 0, n), p)
  BY DEF ShellOK, Tame, PageText, Shelled, Quiet, HistoryOK, Fine
<1>2. /\ n \in Nat \ {0} /\ r \in 0 .. n - 1 /\ IsBuffer(b, n, s.columns) /\ s.columns \in Nat \ {0}
      /\ HasFields(s) /\ "conformanceExplicit" \in DOMAIN s /\ ~Has(s, "DECOM") /\ ~Has(s, "DECLRMM") /\ n \in Int
  BY <1>1, ModesAre
<1>3. OpOK(e1) /\ OpOK(e2)
  BY <1>2, ShellOpsOK DEF PlaceOp
<1>4. Stays(s, v) /\ v.buf = b /\ v.wrapNext = FALSE /\ v.row = r /\ v.col = 0
  <2> DEFINE i == 1
  <2>1. i \in Int
    OBVIOUS
  <2> HIDE DEF i
  <2>2. LET u == CursorPosition(s, n, i)
        IN  /\ Stays(s, u) /\ u.buf = s.buf /\ u.wrapNext = FALSE
            /\ u.row = Clamp(AtLeast1(n) - 1, 0, s.lines - 1)
            /\ u.col = Clamp(AtLeast1(i) - 1, 0, s.columns - 1)
    BY <1>2, <2>1, PositionIs
  <2> HIDE DEF n, s
  <2>3. /\ Stays(s, v) /\ v.buf = s.buf /\ v.wrapNext = FALSE
        /\ v.row = Clamp(AtLeast1(n) - 1, 0, s.lines - 1)
        /\ v.col = Clamp(AtLeast1(1) - 1, 0, s.columns - 1)
    BY <2>2 DEF i
  <2>4. n = s.lines
    BY DEF n
  <2> HIDE DEF v
  <2> QED
    BY <1>2, <2>3, <2>4, BottomIs
<1>5. Perform(g, e1) = f1
  BY PerformIs
<1>6. HistoryOK(f1)
  BY <1>1, <1>3, <1>5, PerformOK
<1> HIDE DEF v, e1
<1>7. Results(g, v, f1)
  BY <1>1, <1>4, ResultsIs
<1> HIDE DEF f1
<1>8. Stays(s, f1.s) /\ TopOK(f1)
  BY <1>4, <1>7, StaysTwice DEF Results
<1>9. Shelled(f1.s) /\ ~f1.s.panicked
  <2>1. Shelled(f1.s)
    BY <1>1, <1>6, <1>8, StaysShelled DEF HistoryOK, Fine
  <2> QED
    BY <2>1, ModesAre
<1>10. f1.s.buf = b /\ f1.s.row = r /\ f1.s.col = 0 /\ f1.s.wrapNext = FALSE
  BY <1>4, <1>7 DEF Results
<1>11. PlainRow(b[r]) /\ PlainIn(b, 0, n) /\ MuteIn(b, 0, n)
  BY <1>1, <1>2 DEF Behind, PlainIn
<1>12. /\ Stays(f1.s, d) /\ d.buf = [b EXCEPT ![r] = [@ EXCEPT ![0] = [d |-> <<x>>, a |-> f1.s.attr]]]
  <2> HIDE DEF b, r
  <2>1. x \in Digits \union {"#"}
    OBVIOUS
  <2> HIDE DEF x
  <2>2. LET u == Draw(f1.s, <<<<x>>>>)
        IN  /\ Stays(f1.s, u) /\ u.row = f1.s.row
            /\ u.buf = [f1.s.buf EXCEPT ![f1.s.row] = [@ EXCEPT ![0] = [d |-> <<x>>, a |-> f1.s.attr]]]
    BY <1>9, <1>10, <1>11, <2>1, DrawnIs
  <2> QED
    BY <1>10, <2>2
<1>13. Perform(f1, e2) = f2
  BY PerformIs
<1>14. HistoryOK(f2)
  BY <1>3, <1>6, <1>9, <1>13, PerformOK
<1> HIDE DEF d, e2
<1>15. Results(f1, d, f2)
  BY <1>8, <1>9, <1>12, ResultsIs
<1> HIDE DEF f2
<1> DEFINE u == f2.s
<1>16. Stays(s, u) /\ TopOK(f2) /\ ScreenOK(u)
  BY <1>8, <1>12, <1>14, <1>15, StaysTwice DEF Results, HistoryOK, Fine
<1>17. Shelled(u)
  BY <1>1, <1>16, StaysShelled
<1>18. PlainIn(u.buf, 0, n) /\ MuteIn(u.buf, 0, n)
  <2> DEFINE a == f1.s.attr
             line == [b[r] EXCEPT ![0] = [d |-> <<x>>, a |-> a]]
             D == u.buf
  <2>1. b[r] \in [0 .. s.columns - 1 -> Cell] /\ DOMAIN b = 0 .. n - 1
    BY <1>2 DEF IsBuffer
  <2>2. x \in Digits \union {"#"} /\ x \in Runes /\ x \notin Digits /\ a \in SUBSET Flags
    BY <1>9, Zenon DEF Shelled, ScreenOK, Afloat, Runes, Digits
  <2>3. D = [b EXCEPT ![r] = line]
    BY <1>12, <1>15 DEF Results
  <2> HIDE DEF x, a
  <2>4. PlainRow(line) /\ Mute(line)
    <3> DEFINE k == b[r]
               l == [k EXCEPT ![0] = [d |-> <<x>>, a |-> a]]
    <3>1. PlainRow(k) /\ k \in [0 .. s.columns - 1 -> Cell]
      BY <1>11, <2>1
    <3> HIDE DEF k
    <3>2. PlainRow(l) /\ Mute(l)
      BY <1>2, <2>2, <3>1, PennedRow
    <3> QED
      BY <3>2 DEF k
  <2> HIDE DEF line, D
  <2>5. \A k \in 0 .. 0 + n - 1 : D[k] = line \/ D[k] = b[k]
    BY <1>2, <2>1, <2>3
  <2> HIDE DEF b
  <2>6. PlainIn(D, 0, n) /\ MuteIn(D, 0, n)
    BY <1>11, <2>4, <2>5 DEF PlainIn, MuteIn
  <2> QED
    BY <2>6 DEF D
<1> HIDE DEF u
<1>19. /\ u.lines = n /\ u.altActive = s.altActive /\ u.altBuf = s.altBuf
       /\ u.altSavedCursor = s.altSavedCursor /\ u.altWrapNext = s.altWrapNext
  BY <1>16 DEF Stays
<1>20. Behind(u)
  BY <1>1, <1>18, <1>19 DEF Behind
<1>21. Tame(u)
  BY <1>17, <1>19, <1>20 DEF Tame, Shelled
<1>22. PlainTop(f2) /\ Heard(f2, PageText(u), p)
  <2>1. PageText(u) = Spell(s.altBuf, 0, n)
    BY <1>19 DEF PageText
  <2>2. f2.top = g.top /\ f2.firstSeq = g.firstSeq
    BY <1>7, <1>15 DEF Results
  <2> QED
    BY <1>1, <2>1, <2>2, SameTop
<1>23. ShellOK(f2, p)
  BY <1>16, <1>21, <1>22 DEF ShellOK, u
<1>24. Replay(g, <<e1, e2>>) = f2
  <2> HIDE DEF s
  <2>1. Replay(g, <<e1, e2>>) = Once(Once(g, e1), e2)
    BY ReplayIs
  <2>2. Once(g, e1) = f1
    BY <1>1, <1>5 DEF Once, ReplayStep, s
  <2>3. Once(f1, e2) = f2
    BY <1>9, <1>13 DEF Once, ReplayStep
  <2> QED
    BY <2>1, <2>2, <2>3
<1> QED
  BY <1>23, <1>24 DEF e1, e2

-----------------------------------------------------------------------------
(* What is found in history and on the page is what was heard.              *)

LEMMA FoundIs ==
    ASSUME NEW t \in Seq(Row), PlainIn(t, 1, Len(t)), NEW n \in Nat, NEW b, PlainIn(b, 0, n),
           NEW q, q = [i \in 1 .. n |-> b[i - 1]]
    PROVE  SpellLaws!Fold(0, <<>>, t \o q) = Spell(t, 1, Len(t)) \o Spell(b, 0, n)
<1> DEFINE Z == t \o q
           m == Len(t)
           N == m + n
           i == 1
           j == i + m
           o == 0
<1>1. m \in Nat /\ N \in Nat /\ i \in Nat /\ j \in Nat /\ o \in Nat /\ N = m + n /\ j = i + m
  OBVIOUS
<1>2. q \in Seq(Row) /\ Len(q) = n /\ \A k \in 0 .. n - 1 : q[k + 1] = b[k]
  <2>1. \A k \in 1 .. n : b[k - 1] \in Row
    BY DEF PlainIn, PlainRow
  <2>2. q \in [1 .. n -> Row]
    BY <2>1
  <2>3. \A k \in 0 .. n - 1 : k + 1 \in 1 .. n /\ (k + 1) - 1 = k
    OBVIOUS
  <2>4. q \in Seq(Row) /\ Len(q) = n
    BY <2>2
  <2> QED
    BY <2>3, <2>4
<1>3. Z \in Seq(Row) /\ Len(Z) = N
  BY <1>2, ConcatProperties
<1>4. (\A k \in 1 .. m : Z[k] = t[k]) /\ (\A k \in 1 .. n : Z[m + k] = q[k])
  <2>1. \A k \in 1 .. Len(t) + Len(q) : (t \o q)[k] = IF k <= Len(t) THEN t[k] ELSE q[k - Len(t)]
    BY <1>2, ConcatProperties
  <2>2. ASSUME NEW k \in 1 .. m PROVE Z[k] = t[k]
    BY <1>2, <2>1, <2>2
  <2>3. ASSUME NEW k \in 1 .. n PROVE Z[m + k] = q[k]
    <3>1. m + k \in 1 .. Len(t) + Len(q) /\ ~(m + k <= Len(t)) /\ (m + k) - Len(t) = k
      BY <1>2
    <3> QED
      BY <2>1, <3>1
  <2> QED
    BY <2>2, <2>3
<1> HIDE DEF Z
<1>5. RowsIn(Z, 1, N) = Z
  <2>1. \A k \in 1 .. N : 1 + k - 1 = k
    OBVIOUS
  <2>2. Z = [k \in 1 .. N |-> Z[k]]
    BY <1>3
  <2> QED
    BY <2>1, <2>2 DEF RowsIn
<1>6. SpellLaws!Fold(0, <<>>, Z) = Spell(Z, i, N)
  BY <1>5 DEF Spell
<1>7. PlainIn(Z, i, N)
  <2>1. ASSUME NEW k \in 1 .. 1 + N - 1 PROVE PlainRow(Z[k])
    <3>1. CASE k <= m
      <4>1. k \in 1 .. m /\ k \in 1 .. 1 + Len(t) - 1
        BY <3>1
      <4> QED
        BY <1>4, <4>1 DEF PlainIn
    <3>2. CASE ~(k <= m)
      <4>1. k - m \in 1 .. n /\ k = m + (k - m) /\ (k - m) - 1 \in 0 .. n - 1
        BY <3>2
      <4>2. Z[k] = q[k - m]
        BY <1>4, <4>1
      <4>3. ((k - m) - 1) + 1 = k - m /\ (k - m) - 1 \in 0 .. 0 + n - 1
        BY <4>1
      <4>4. q[k - m] = b[(k - m) - 1]
        BY <1>2, <4>1, <4>3
      <4> QED
        BY <4>2, <4>3, <4>4 DEF PlainIn
    <3> QED
      BY <3>1, <3>2
  <2> QED
    BY <2>1 DEF PlainIn
<1>8. AlikeIn(Z, i, t, i, m)
  <2>1. ASSUME NEW k \in 0 .. m - 1 PROVE RowText(Z[1 + k]) = RowText(t[1 + k])
    <3>1. 1 + k \in 1 .. m
      OBVIOUS
    <3> QED
      BY <1>4, <3>1
  <2> QED
    BY <2>1 DEF AlikeIn
<1>9. AlikeIn(Z, j, b, o, n)
  <2>1. ASSUME NEW k \in 0 .. n - 1 PROVE RowText(Z[(1 + m) + k]) = RowText(b[0 + k])
    <3>1. k + 1 \in 1 .. n /\ (1 + m) + k = m + (k + 1) /\ 0 + k = k
      OBVIOUS
    <3>2. Z[m + (k + 1)] = q[k + 1] /\ q[k + 1] = b[k]
      BY <1>2, <1>4, <3>1
    <3> QED
      BY <3>1, <3>2
  <2> QED
    BY <2>1 DEF AlikeIn
<1> HIDE DEF m, N, i, j, o
<1>10. Splits(Z, i, m, j, n, N)
  BY <1>1, <1>7, SpellTwo
<1>11. Spell(Z, i, m) = Spell(t, i, m) /\ Spell(Z, j, n) = Spell(b, o, n)
  BY <1>1, <1>8, <1>9, SpellSame
<1>12. SpellLaws!Fold(0, <<>>, Z) = Spell(t, i, m) \o Spell(b, o, n)
  BY <1>6, <1>10, <1>11 DEF Splits
<1> QED
  BY <1>12 DEF Z, i, m, o

(* What ends in a text has it as a suffix. *)
LEMMA EndsIn ==
    ASSUME NEW u \in Seq(Digits), NEW f \in Seq(Digits), NEW p, p = u \o f
    PROVE  IsSuffix(f, p)
<1> DEFINE m == Len(u)
           n == Len(f)
           x == Reverse(f)
           y == Reverse(p)
<1>1. m \in Nat /\ n \in Nat
  OBVIOUS
<1>2. p \in Seq(Digits) /\ Len(p) = m + n /\ \A k \in 1 .. n : p[m + k] = f[k]
  <2>1. p \in Seq(Digits) /\ Len(p) = m + n
    BY ConcatProperties
  <2>2. \A k \in 1 .. Len(u) + Len(f) : p[k] = IF k <= Len(u) THEN u[k] ELSE f[k - Len(u)]
    BY ConcatProperties
  <2>3. ASSUME NEW k \in 1 .. n PROVE p[m + k] = f[k]
    <3>1. m + k \in 1 .. Len(u) + Len(f) /\ ~(m + k <= Len(u)) /\ (m + k) - Len(u) = k
      OBVIOUS
    <3> QED
      BY <2>2, <3>1
  <2> QED
    BY <2>1, <2>3
<1> HIDE DEF m
<1>3. x \in Seq(Digits) /\ Len(x) = n /\ \A k \in 1 .. n : x[k] = f[(n - k) + 1]
  <2>1. \A k \in 1 .. n : f[(n - k) + 1] \in Digits
    OBVIOUS
  <2>2. x = [k \in 1 .. n |-> f[(n - k) + 1]]
    BY DEF Reverse
  <2> HIDE DEF n, x
  <2>3. x \in [1 .. n -> Digits]
    BY <2>1, <2>2
  <2> QED
    BY <1>1, <2>2, <2>3
<1>4. /\ y \in Seq(Digits) /\ Len(y) = m + n
      /\ \A k \in 1 .. m + n : y[k] = p[((m + n) - k) + 1]
  <2> DEFINE N == m + n
  <2>1. N \in Nat /\ Len(p) = N
    BY <1>1, <1>2
  <2> HIDE DEF n, N
  <2>2. \A k \in 1 .. N : p[(N - k) + 1] \in Digits
    BY <1>2, <2>1
  <2>3. y = [k \in 1 .. N |-> p[(N - k) + 1]]
    BY <2>1 DEF Reverse
  <2> HIDE DEF y
  <2>4. y \in [1 .. N -> Digits]
    BY <2>2, <2>3
  <2>5. y \in Seq(Digits) /\ Len(y) = N /\ \A k \in 1 .. N : y[k] = p[(N - k) + 1]
    BY <2>1, <2>3, <2>4
  <2> QED
    BY <2>5 DEF N
<1> HIDE DEF x, y, n
<1>5. ASSUME NEW k \in 1 .. n PROVE x[k] = y[k]
  <2>1. ((m + n) - k) + 1 = m + ((n - k) + 1) /\ (n - k) + 1 \in 1 .. n /\ k \in 1 .. m + n
    BY <1>1
  <2>2. y[k] = p[m + ((n - k) + 1)]
    BY <1>4, <2>1
  <2>3. p[m + ((n - k) + 1)] = f[(n - k) + 1]
    BY <1>2, <2>1
  <2> QED
    BY <1>3, <2>2, <2>3
<1>6. SubSeq(x, 1, n) = SubSeq(y, 1, n)
  <2>1. (\A k \in 1 .. n : x[k] \in Digits) /\ (\A k \in 1 .. n : y[k] \in Digits)
    BY <1>1, <1>3, <1>4
  <2> DEFINE i == 1
             X == SubSeq(x, i, n)
             Y == SubSeq(y, i, n)
  <2>2. i \in Int /\ n \in Int /\ (\A k \in i .. n : x[k] \in Digits) /\ (\A k \in i .. n : y[k] \in Digits)
    BY <1>1, <2>1
  <2>3. (i <= n <=> n # 0) /\ n - i + 1 = n /\ \A k \in 1 .. n : i + k - 1 = k
    BY <1>1
  <2> HIDE DEF i
  <2>4. X \in Seq(Digits) /\ Len(X) = n /\ \A k \in 1 .. n : X[k] = x[k]
    BY <1>1, <2>2, <2>3, SubSeqProperties
  <2>5. Y \in Seq(Digits) /\ Len(Y) = n /\ \A k \in 1 .. n : Y[k] = y[k]
    BY <1>1, <2>2, <2>3, SubSeqProperties
  <2> HIDE DEF X, Y
  <2>6. X = Y
    <3>1. X = [k \in 1 .. n |-> X[k]] /\ Y = [k \in 1 .. n |-> Y[k]]
      BY <2>4, <2>5
    <3>2. \A k \in 1 .. n : X[k] = Y[k]
      BY <1>5, <2>4, <2>5
    <3> QED
      BY <3>1, <3>2
  <2> QED
    BY <2>6 DEF X, Y, i
<1>7. Len(x) <= Len(y)
  BY <1>1, <1>3, <1>4
<1>8. IsPrefix(x, y)
  BY <1>3, <1>6, <1>7 DEF IsPrefix
<1> QED
  BY <1>8 DEF IsSuffix, x, y

(* The page's rows, as Found lists them. *)
LEMMA PageRows ==
    ASSUME NEW s, Tame(s)
    PROVE  LET b == IF s.altActive THEN s.altBuf ELSE s.buf
           IN  RowsOf(b) = s.lines /\ s.lines \in Nat /\ PlainIn(b, 0, s.lines)
<1> DEFINE b == IF s.altActive THEN s.altBuf ELSE s.buf
           n == s.lines
<1>1. Shelled(s) /\ (s.altActive => Behind(s)) /\ (~s.altActive => Foreground(s))
  BY DEF Tame, Shelled
<1>2. n \in Nat \ {0} /\ s.columns \in Nat \ {0}
  BY <1>1, ModesAre
<1>3. IsBuffer(b, n, s.columns)
  BY <1>1 DEF Shelled, ScreenOK, Afloat
<1>4. PlainIn(b, 0, n)
  BY <1>1 DEF Behind, Foreground
<1> HIDE DEF b, n
<1>5. DOMAIN b = 0 .. n - 1
  BY <1>3 DEF IsBuffer
<1>6. Cardinality(0 .. n - 1) = n
  <2> DEFINE m == n - 1
             o == 0
  <2>1. m \in Int /\ o \in Int /\ o <= m /\ m - o + 1 = n
    BY <1>2
  <2> HIDE DEF m, o
  <2>2. Cardinality(o .. m) = n
    BY <2>1, FS_Interval
  <2> QED
    BY <2>2 DEF m, o
<1>7. b # NoBuffer
  <2>1. 0 \in DOMAIN b
    BY <1>2, <1>5
  <2>2. 0 \notin DOMAIN NoBuffer
    BY DEF NoBuffer
  <2> QED
    BY <2>1, <2>2
<1>8. RowsOf(b) = n
  BY <1>5, <1>6, <1>7 DEF RowsOf
<1> QED
  BY <1>2, <1>4, <1>8 DEF b, n

(* Found is the text of history, then that of the page. *)
LEMMA FoundText ==
    ASSUME ShellOK(h, printed)
    PROVE  /\ Found = Spell(h.top, 1, Len(h.top)) \o PageText(h.s)
           /\ Spell(h.top, 1, Len(h.top)) \in Seq(Digits) /\ PageText(h.s) \in Seq(Digits)
<1> DEFINE b == IF h.s.altActive THEN h.s.altBuf ELSE h.s.buf
           n == h.s.lines
           q == [i \in 1 .. n |-> b[i - 1]]
           t == h.top
<1>1. Tame(h.s) /\ PlainTop(h) /\ TopOK(h)
  BY DEF ShellOK
<1>2. RowsOf(b) = n /\ n \in Nat /\ PlainIn(b, 0, n)
  BY <1>1, PageRows
<1>3. t \in Seq(Row) /\ PlainIn(t, 1, Len(t))
  BY <1>1 DEF TopOK, PlainTop
<1>4. PrimaryRows = q
  BY <1>2 DEF PrimaryRows
<1>5. Found = SpellLaws!Fold(0, <<>>, t \o q)
  BY <1>4 DEF Found, FoldLeft, MapThenFoldSet, Max, SpellLaws!Fold, SpellLaws!Greatest, SpellStep
<1>6. PageText(h.s) = Spell(b, 0, n)
  BY DEF PageText
<1> HIDE DEF b, n, t
<1>7. SpellLaws!Fold(0, <<>>, t \o q) = Spell(t, 1, Len(t)) \o Spell(b, 0, n)
  <2> HIDE DEF q
  <2>1. q = [i \in 1 .. n |-> b[i - 1]]
    BY DEF q
  <2> QED
    BY <1>2, <1>3, <2>1, FoundIs
<1>8. Spell(t, 1, Len(t)) \in Seq(Digits) /\ Spell(b, 0, n) \in Seq(Digits)
  <2> DEFINE o == 0
             i == 1
             m == Len(t)
  <2>1. o \in Nat /\ i \in Nat /\ m \in Nat
    BY <1>3
  <2> HIDE DEF o, i, m
  <2>2. PlainIn(t, i, m) /\ PlainIn(b, o, n)
    BY <1>2, <1>3 DEF o, i, m
  <2>3. Spell(t, i, m) \in Seq(Digits) /\ Spell(b, o, n) \in Seq(Digits)
    BY <1>2, <2>1, <2>2, SpellType
  <2> QED
    BY <2>3 DEF o, i, m
<1> HIDE DEF q
<1> QED
  BY <1>5, <1>6, <1>7, <1>8 DEF t

LEMMA HeardKept ==
    ASSUME ShellOK(h, printed)
    PROVE  /\ IsSuffix(Found, printed)
           /\ h.firstSeq = 0 => Found = printed
           /\ printed \in Seq(Digits)
<1> DEFINE a == Spell(h.top, 1, Len(h.top))
           t == PageText(h.s)
<1>1. Found = a \o t /\ a \in Seq(Digits) /\ t \in Seq(Digits)
  BY FoundText
<1>2. PICK u \in Seq(Digits) : printed = u \o (a \o t) /\ (h.firstSeq = 0 => u = <<>>)
  BY DEF ShellOK, Heard
<1> HIDE DEF a, t
<1> DEFINE f == Found
<1> HIDE DEF f
<1>3. f \in Seq(Digits) /\ printed = u \o f
  BY <1>1, <1>2, Join DEF f
<1>4. IsSuffix(f, printed) /\ printed \in Seq(Digits)
  BY <1>3, EndsIn, Join
<1>5. <<>> \o f = f
  BY <1>3, ConcatEmptySeq
<1> QED
  BY <1>2, <1>3, <1>4, <1>5 DEF f

-----------------------------------------------------------------------------
(* The shell's lines, in every behaviour.                                   *)

\* A letter in the last column records a wrap (Draw), and an upgrade leaves an
\* empty lineWrapped nil: with a single column the first letter after it panics.
TwoColumns == Columns > 1 /\ \A z \in Sizes : z[2] > 1
ShellInvariant == family = "shell" => ShellOK(h, printed)

LEMMA ShellInit ==
    ASSUME TerminalAssumption, TwoColumns, Init
    PROVE  ShellOK(h, printed)
<1> DEFINE s == NewScreen(Columns, Lines)
           b == BlankBuffer(Lines, Columns)
<1>1. Columns \in Nat \ {0} /\ Lines \in Nat \ {0} /\ HistoryMax \in Nat \ {0} /\ Columns > 1
  BY DEF TerminalAssumption, TwoColumns
<1>2. ScreenOK(s) /\ ~s.panicked
  BY <1>1, NewScreenOK
<1>3. PlainIn(b, 0, Lines) /\ MuteIn(b, 0, Lines)
  BY <1>1, BlankPage
<1>4. /\ s.lines = Lines /\ s.columns = Columns /\ s.buf = b /\ s.row = 0 /\ s.col = 0
      /\ s.mode = ResetModes /\ s.margins = NoMargins /\ s.charset = 0 /\ s.g0 = "lat1"
      /\ s.wrapNext = FALSE /\ "conformanceExplicit" \in DOMAIN s /\ s.conformanceExplicit = FALSE
      /\ s.altActive = FALSE
  BY DEF NewScreen
<1>5. h = [s |-> s, top |-> <<>>, max |-> HistoryMax, firstSeq |-> 0, totalAdded |-> 0] /\ printed = <<>>
  BY DEF Init, NewHistoryScreen
<1> HIDE DEF s, b
<1>6. TopOK(h) /\ h.s = s /\ h.top = <<>> /\ h.firstSeq = 0
  BY <1>1, <1>5 DEF TopOK
<1>7. Tame(s)
  <2>1. Lines - 0 = Lines
    BY <1>1
  <2> QED
    BY <1>1, <1>2, <1>3, <1>4, <2>1 DEF Tame, Quiet, Foreground
<1>8. Spell(h.top, 1, Len(h.top)) = <<>> /\ PlainTop(h)
  <2>1. Len(h.top) = 0
    BY <1>6
  <2>2. \A i \in Nat : Spell(h.top, i, 0) = <<>>
    BY SpellNext
  <2> QED
    BY <2>1, <2>2 DEF PlainTop, PlainIn
<1>9. PageText(s) = <<>>
  <2> DEFINE o == 0
  <2>1. o \in Nat /\ Lines \in Nat /\ PlainIn(b, o, Lines) /\ MuteIn(b, o, Lines)
    BY <1>1, <1>3
  <2> HIDE DEF o
  <2>2. Spell(b, o, Lines) = <<>>
    BY <2>1, SpellMute
  <2> QED
    BY <1>4, <2>2 DEF PageText, o
<1>10. Heard(h, PageText(s), printed)
  <2> DEFINE e == <<>>
  <2>1. e \in Seq(Digits) /\ e \o (e \o e) = e
    OBVIOUS
  <2> QED
    BY <1>5, <1>8, <1>9, <2>1 DEF Heard
<1> QED
  BY <1>6, <1>7, <1>8, <1>10 DEF ShellOK

LEMMA LettersAre == \A k \in 1 .. 9 : Letter(k) \in Digits /\ Letter(k) \in Runes
  <1>1. \A k \in 1 .. 9 : Letter(k) \in Digits
    BY DEF Letter, Digits
  <1>2. Digits \subseteq Runes
    BY DEF Digits, Runes
  <1> QED
    BY <1>1, <1>2

LEMMA ShellStep ==
    ASSUME TerminalAssumption, TwoColumns, family = "shell", ShellOK(h, printed), [Next]_vars
    PROVE  ShellOK(h', printed')
<1>0. ~h.s.panicked
  BY DEF ShellOK, Tame, Quiet
<1>1. ASSUME NEW e \in OpsOf[family], Output(e) PROVE FALSE
  BY <1>1 DEF OpsOf
<1>2. ASSUME NEW z \in Sizes, WindowResize(z[1], z[2]) PROVE ShellOK(h', printed')
  <2>1. z[1] \in Nat \ {0} /\ z[2] \in Nat /\ z[2] > 1
    BY DEF TerminalAssumption, TwoColumns
  <2>2. h' = HResize(h, z[1], z[2]) /\ printed' = printed
    BY <1>2 DEF WindowResize
  <2> QED
    BY <2>1, <2>2, ResizeShell
<1>3. ASSUME LiveUpgrade PROVE ShellOK(h', printed')
  BY <1>3, UpgradeShell DEF LiveUpgrade
<1>4. ~Recovered
  BY <1>0 DEF Recovered
<1>5. ASSUME PrintLine PROVE ShellOK(h', printed')
  <2> DEFINE k == Len(printed) + 1
             c == Letter(k)
  <2>1. ~h.s.altActive /\ printed' = Append(printed, c)
        /\ h' = Replay(h, <<Text(<<c>>), <<"CarriageReturn">>, <<"LineFeed">>>>)
    BY <1>5 DEF PrintLine
  <2>2. k \in 1 .. 9
    <3>1. printed \in Seq(Digits)
      BY HeardKept
    <3>2. Len(printed) \in Nat
      BY <3>1
    <3> QED
      BY <1>5, <3>2 DEF PrintLine, TerminalAssumption
  <2> HIDE DEF k
  <2>3. c \in Digits /\ c \in Runes /\ OpOK(Text(<<c>>))
    BY <2>2, LettersAre, ShellOpsOK
  <2> HIDE DEF c
  <2> QED
    BY <2>1, <2>3, PrintShell
<1>6. ASSUME FullScreen PROVE ShellOK(h', printed')
  <2>1. printed' = printed
    BY <1>6 DEF FullScreen
  <2>2. CASE h.s.altActive
    <3>1. h' = Replay(h, <<SwitchOp("ResetMode")>>)
      BY <1>6, <2>2 DEF FullScreen, SwitchOp
    <3> QED
      BY <2>1, <2>2, <3>1, ExitShell
  <2>3. CASE ~h.s.altActive
    <3>1. h' = Replay(h, <<SwitchOp("SetMode")>>)
      BY <1>6, <2>3 DEF FullScreen, SwitchOp
    <3> QED
      BY <2>1, <2>3, <3>1, EnterShell
  <2> QED
    BY <2>2, <2>3
<1>7. ASSUME Paint PROVE ShellOK(h', printed')
  <2>1. printed' = printed /\ h.s.altActive /\ h' = Replay(h, <<PlaceOp(h.s.lines), Text(<<"#">>)>>)
    BY <1>7 DEF Paint, PlaceOp
  <2> QED
    BY <2>1, PaintShell
<1>8. ASSUME UNCHANGED vars PROVE ShellOK(h', printed')
  BY <1>8 DEF vars
<1> QED
  BY <1>1, <1>2, <1>3, <1>4, <1>5, <1>6, <1>7, <1>8 DEF Next, Done

(* What a shell prints is found, once and in order, in history and on the    *)
(* primary screen, through every resize, full-screen program and upgrade;    *)
(* what is missing is the oldest, and only once history has evicted rows     *)
(* (PushRow, HistoryScreen.Resize, enterAltScreen, exitAltScreen,            *)
(* MarshalState, UnmarshalState).                                            *)
THEOREM ShellKept == TwoColumns => (Spec => []ShellLinesKept)
<1> SUFFICES ASSUME TwoColumns PROVE Spec => []ShellLinesKept
  OBVIOUS
<1>1. Init => ShellInvariant
  BY ShellInit, TerminalAssumption DEF ShellInvariant
<1>2. ShellInvariant /\ [Next]_vars => ShellInvariant'
  <2> SUFFICES ASSUME ShellInvariant, [Next]_vars PROVE ShellInvariant'
    OBVIOUS
  <2>1. family' = family
    BY DEF Next, Output, WindowResize, LiveUpgrade, Recovered, PrintLine, FullScreen, Paint, Done, Took, vars
  <2> QED
    BY <2>1, ShellStep, TerminalAssumption DEF ShellInvariant
<1>3. ShellInvariant => ShellLinesKept
  BY HeardKept DEF ShellInvariant, ShellLinesKept
<1> QED
  BY <1>1, <1>2, <1>3, PTL DEF Spec
=============================================================================
