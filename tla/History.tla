------------------------------ MODULE History ------------------------------
(***************************************************************************)
(* HistoryScreen (pkg/te/history_screen.go): a Screen with the rows that   *)
(* left its top.  Each such row has a sequence number: top[1] has firstSeq *)
(* and totalAdded is the number the next one will get.                     *)
(*                                                                         *)
(* HistoryScreen embeds Screen, so a Screen method that calls another one  *)
(* reaches Screen's, not the override here: the autowrap of Draw and NEL   *)
(* scroll without accruing history.                                        *)
(*                                                                         *)
(* Perform is the dispatch of one decoded operation <<name, arguments>>,   *)
(* the table that the parser (stream.go) and the viewer's replay of server *)
(* events (tui/terminal.go) share.  Paging through history has no caller   *)
(* in the program (Position = Size always) and is left out with Bottom.    *)
(***************************************************************************)
EXTENDS Screen

NewHistoryScreen(columns, lines, max) ==
    [s |-> NewScreen(columns, lines), top |-> <<>>, max |-> max,
     firstSeq |-> 0, totalAdded |-> 0]

Lift(h, s) == [h EXCEPT !.s = s]
\* Every overridden method ends by setting the cursor's visibility.
AfterEvent(h) ==
    IF h.s.panicked THEN h
    ELSE [h EXCEPT !.s.hidden = ~Has(h.s, "DECTCEM")]

-----------------------------------------------------------------------------
(* Rows entering history                                                   *)

\* Mutant: a full deque evicts without advancing firstSeq.
PushRowSilently(h, row) ==
    [h EXCEPT !.top = IF h.max = 0 THEN @
                      ELSE Append(IF Len(@) = h.max THEN Tail(@) ELSE @, row),
              !.totalAdded = @ + 1]
PushRow(h, row) ==           \* historyDeque.append and the two counters
    LET evicted == h.max > 0 /\ Len(h.top) = h.max
    IN  [h EXCEPT !.top = IF h.max = 0 THEN @
                          ELSE Append(IF evicted THEN Tail(@) ELSE @, row),
                  !.firstSeq = IF evicted THEN @ + 1 ELSE @,
                  !.totalAdded = @ + 1]
PushRows(h, buf, n) ==
    FoldLeft(LAMBDA g, i : PushRow(g, buf[i - 1]), h, [i \in 1 .. n |-> i])
ScrollbackEligible(s) ==
    /\ ScrollTop(s) = 0 /\ ScrollBottom(s) = s.lines - 1
    /\ Left(s) = 0 /\ Right(s) = s.columns - 1
    /\ ~s.altActive
HIndex(h) ==
    LET g == IF h.s.row = ScrollBottom(h.s) /\ ScrollbackEligible(h.s)
             THEN PushRow(h, h.s.buf[ScrollTop(h.s)]) ELSE h
    IN  Lift(g, Index(h.s))
HLineFeed(h) ==
    LET g == HIndex(h)
    IN  IF Has(g.s, "LNM") THEN Lift(g, CarriageReturn(g.s)) ELSE g

ResetHistory(h) == [h EXCEPT !.top = <<>>, !.firstSeq = h.totalAdded]
SetFirstSeq(h, n) == [h EXCEPT !.firstSeq = n]
SetTotalAdded(h, n) ==
    [h EXCEPT !.totalAdded = n, !.firstSeq = IF h.top = <<>> THEN n ELSE @]
\* Older rows before the retained ones; what does not fit is the oldest.
PrependHistory(h, rows) ==
    LET kept == MinOf(Len(rows), MaxOf(0, h.max - Len(h.top)))
    IN  [h EXCEPT !.top = SubSeq(rows, Len(rows) - kept + 1, Len(rows)) \o @,
                  !.firstSeq = @ - kept]
HReset(h) == ResetHistory(Lift(h, Reset(h.s)))
HEraseInDisplay(h, how, private) ==
    LET g == Lift(h, EraseInDisplay(h.s, how, private))
    IN  IF how = 3 THEN ResetHistory(g) ELSE g

-----------------------------------------------------------------------------
(* Resize: the rows that no longer fit enter history                       *)

RowBlank(s, row) == \A c \in DOMAIN row : row[c] = DefaultCell(s)
\* How many rows the shrink takes from the top of buf, after trimming blank
\* rows below `keep` from its bottom.
DropCount(s, buf, lines, keep) ==
    LET n == RowsOf(buf)
        trimmable(k) == \A r \in n - k .. n - 1 : r > keep /\ RowBlank(s, buf[r])
        trims == {k \in 0 .. n - lines : trimmable(k)}
        trim  == CHOOSE k \in trims : \A j \in trims : j <= k
    IN  IF lines >= n THEN 0 ELSE n - lines - trim
ShiftedUp(row, drop) == MaxOf(row - drop, 0)
CursorShiftedUp(cur, drop) ==
    IF cur = NoCursor THEN cur ELSE [cur EXCEPT !.row = ShiftedUp(@, drop)]

\* The live buffer: push, fit the width, pad with blank rows.
ResizeLive(h, lines, columns) ==
    LET drop == DropCount(h.s, h.s.buf, lines, h.s.row)
        g    == PushRows(h, h.s.buf, drop)
        fit  == FitRowsWidth(h.s.buf, columns, DefaultCell(h.s))
    IN  [g EXCEPT !.s.buf = RowsFrom(fit, drop, lines,
                                     BlankLine(columns, DefaultCell(h.s))),
                  !.s.row = IF lines < h.s.lines THEN ShiftedUp(@, drop) ELSE @]
\* The stashed buffer: blank if it is the alternate one; if it is the primary
\* one its overflow enters history and the saved cursor moves with it.
ResizeInactiveBuffer(h, lines, columns) ==
    LET s     == h.s
        saved == IF s.altSavedCursor = NoCursor THEN 0 ELSE s.altSavedCursor.row
        drop  == DropCount(s, s.altBuf, lines, saved)
        g     == PushRows(h, s.altBuf, drop)
        fit   == FitRowsWidth(s.altBuf, columns, DefaultCell(s))
    IN  IF ~s.altActive
        THEN IF s.altBuf = NoBuffer THEN h
             ELSE [h EXCEPT !.s.altBuf = BlankBuffer(lines, columns),
                            !.s.altLineWrapped = {}, !.s.altWrapNext = FALSE]
        ELSE [g EXCEPT !.s.altBuf = RowsFrom(fit, drop, lines,
                                             BlankLine(columns, DefaultCell(s))),
                       !.s.altSavedCursor = CursorShiftedUp(@, drop),
                       !.s.altLineWrapped = {}, !.s.altWrapNext = FALSE]
HResize(h, askedLines, askedColumns) ==
    LET lines   == AtLeast1(askedLines)
        columns == AtLeast1(askedColumns)
        g == ResizeInactiveBuffer(ResizeLive(h, lines, columns), lines, columns)
    IN  IF lines = h.s.lines /\ columns = h.s.columns THEN h
        ELSE Lift(g, [g.s EXCEPT !.lines = lines, !.columns = columns,
                                 !.margins = NoMargins, !.leftMargin = 0,
                                 !.col = MinOf(@, columns - 1),
                                 !.lineWrapped = {}, !.wrapNext = FALSE])

-----------------------------------------------------------------------------
(* Saving and restoring across a live upgrade (state.go, history_state.go) *)

\* What JSON with omitempty does to an empty map: it comes back nil.
ThroughJSON(map) == IF map = {} THEN NilMap ELSE map
TrimmableAnyAttr(cell) == cell.d \in {Cont, Blank}      \* mutant
Trimmable(cell) == cell.d \in {Cont, Blank} /\ cell.a = PlainAttr
\* trimBuffer drops the trailing trimmable cells of a row and
\* padRowsToColumns brings them back as default cells.
Repadded(s, row) ==
    LET last == {c \in DOMAIN row : ~Trimmable(row[c])}
        kept == IF last = {} THEN 0
                ELSE (CHOOSE c \in last : \A d \in last : d <= c) + 1
    IN  [c \in 0 .. MaxOf(kept, s.columns) - 1 |->
            IF c < kept THEN row[c] ELSE DefaultCell(s)]
RepaddedBuffer(s, buf) == [r \in DOMAIN buf |-> Repadded(s, buf[r])]
UpgradedScreen(s) ==
    [s EXCEPT !.buf = RepaddedBuffer(s, @), !.altBuf = RepaddedBuffer(s, @),
              !.lineWrapped = ThroughJSON(@), !.altLineWrapped = ThroughJSON(@),
              !.tabStops = ThroughJSON(@), !.reply = <<>>]
Upgraded(h) ==
    [h EXCEPT !.s = UpgradedScreen(@),
              !.top = [i \in DOMAIN @ |-> Repadded(h.s, @[i])],
              !.firstSeq = IF @ = 0 /\ h.totalAdded > Len(h.top)
                           THEN h.totalAdded - Len(h.top) ELSE @]

-----------------------------------------------------------------------------
(* The dispatch of one operation.  e[1] is the method, the rest its        *)
(* arguments; modes and rendition codes come as lists.                     *)

CursorOp(s, e) ==
    CASE e[1] = "CursorUp"      -> CursorUp(s, e[2])
      [] e[1] = "CursorDown"    -> CursorDown(s, e[2])
      [] e[1] = "CursorForward" -> CursorForward(s, e[2])
      [] e[1] = "CursorBack"    -> CursorBack(s, e[2])
      [] e[1] = "CursorUp1"     -> CursorUp1(s, e[2])
      [] e[1] = "CursorDown1"   -> CursorDown1(s, e[2])
      [] e[1] = "CursorToColumn"         -> CursorToColumn(s, e[2])
      [] e[1] = "CursorToColumnAbsolute" -> CursorToColumnAbsolute(s, e[2])
      [] e[1] = "CursorToLine"           -> CursorToLine(s, e[2])
      [] e[1] = "CursorPosition"         -> CursorPosition(s, e[2], e[3])
      [] e[1] = "CursorBackTab"          -> CursorBackTab(s, e[2])
      [] e[1] = "CursorForwardTab"       -> CursorForwardTab(s, e[2])
      [] e[1] = "Backspace"      -> Backspace(s)
      [] e[1] = "Tab"            -> Tab(s)
      [] e[1] = "CarriageReturn" -> CarriageReturn(s)
      [] e[1] = "SetTabStop"     -> SetTabStop(s)
      [] e[1] = "ClearTabStop"   -> ClearTabStop(s, e[2])
EditOp(s, e) ==
    CASE e[1] = "Draw"             -> Draw(s, e[2])
      [] e[1] = "RepeatLast"       -> RepeatLast(s, e[2])
      [] e[1] = "ReverseIndex"     -> ReverseIndex(s)
      [] e[1] = "ScrollUp"         -> ScrollUp(s, e[2])
      [] e[1] = "ScrollDown"       -> ScrollDown(s, e[2])
      [] e[1] = "InsertLines"      -> InsertLines(s, e[2])
      [] e[1] = "DeleteLines"      -> DeleteLines(s, e[2])
      [] e[1] = "InsertCharacters" -> InsertCharacters(s, e[2])
      [] e[1] = "DeleteCharacters" -> DeleteCharacters(s, e[2])
      [] e[1] = "EraseCharacters"  -> EraseCharacters(s, e[2])
      [] e[1] = "EraseInLine"      -> EraseInLine(s, e[2], e[3])
      [] e[1] = "InsertColumns"    -> InsertColumns(s, e[2])
      [] e[1] = "DeleteColumns"    -> DeleteColumns(s, e[2])
      [] e[1] = "ForwardIndex"     -> ForwardIndex(s)
      [] e[1] = "BackIndex"        -> BackIndex(s)
      [] e[1] = "EraseRectangle"   -> EraseRectangle(s, e[2], e[3], e[4], e[5])
      [] e[1] = "FillRectangle"    -> FillRectangle(s, <<"b">>, e[2], e[3], e[4], e[5])
      [] e[1] = "CopyRectangle"    -> CopyRectangle(s, e[2], e[3], e[4], e[5], e[6], e[7])
      [] e[1] = "AlignmentDisplay" -> AlignmentDisplay(s)
StateOp(s, e) ==
    CASE e[1] = "SetMode"      -> SetMode(s, e[2])
      [] e[1] = "ResetMode"    -> ResetMode(s, e[2])
      [] e[1] = "SaveModes"    -> SaveModes(s, e[2])
      [] e[1] = "RestoreModes" -> RestoreModes(s, e[2])
      [] e[1] = "SetMargins"   -> SetMargins(s, e[2], e[3])
      [] e[1] = "SetLeftRightMargins" -> SetLeftRightMargins(s, e[2], e[3])
      [] e[1] = "SelectGraphicRendition" -> SelectGraphicRendition(s, e[2], FALSE)
      [] e[1] = "DefineCharset" -> DefineCharset(s, e[2], e[3])
      [] e[1] = "ShiftIn"       -> ShiftIn(s)
      [] e[1] = "ShiftOut"      -> ShiftOut(s)
      [] e[1] = "StartProtectedArea" -> StartProtectedArea(s)
      [] e[1] = "EndProtectedArea"   -> EndProtectedArea(s)
      [] e[1] = "SetCharacterProtection" -> SetCharacterProtection(s, e[2])
      [] e[1] = "SoftReset"      -> SoftReset(s)
      [] e[1] = "SetConformance" -> SetConformance(s, e[2])
      [] e[1] = "SetTitle"     -> SetTitle(s, e[2])
      [] e[1] = "SetIconName"  -> SetIconName(s, e[2])
      [] e[1] = "SetTitleMode" -> SetTitleMode(s, e[2], e[3])
      [] e[1] = "WindowOp"     -> WindowOp(s, e[2])
      [] e[1] = "SetColor"     -> SetColor(s, e[2], e[3], e[4])
      [] e[1] = "ResetColor"   -> ResetColor(s, e[2], e[3], e[4])
      [] e[1] = "SetSelectionData" -> SetSelectionData(s, e[2])
ReportOp(s, e) ==
    CASE e[1] = "ReportDeviceStatus"     -> ReportDeviceStatus(s, e[2])
      [] e[1] = "ReportDeviceAttributes" -> ReportDeviceAttributes(s, e[2])
      [] e[1] = "ReportMode"             -> ReportMode(s, e[2])
      [] e[1] = "RequestStatusString"    -> RequestStatusString(s, e[2])
      [] e[1] = "QueryColor"             -> QueryColor(s, e[2], e[3])
      [] e[1] = "QuerySelectionData"     -> QuerySelectionData(s)
\* The methods HistoryScreen does not override.
PlainOp(s, e) ==
    CASE e[1] = "SaveCursorDEC"    -> SaveCursorDEC(s)
      [] e[1] = "RestoreCursorDEC" -> RestoreCursorDEC(s)
      [] e[1] = "SetCursorStyle"   -> SetCursorStyle(s, e[2])
      [] e[1] = "SetActiveStatusDisplay" -> SetActiveStatusDisplay(s, e[2])
      [] e[1] = "EraseInDisplaySelective" -> EraseInDisplaySelective(s, e[2])
      [] e[1] = "SelectiveEraseRectangle" ->
             SelectiveEraseRectangle(s, e[2], e[3], e[4], e[5])

CursorOps == {"CursorUp", "CursorDown", "CursorForward", "CursorBack", "CursorUp1",
    "CursorDown1", "CursorToColumn", "CursorToColumnAbsolute", "CursorToLine",
    "CursorPosition", "CursorBackTab", "CursorForwardTab", "Backspace", "Tab",
    "CarriageReturn", "SetTabStop", "ClearTabStop"}
EditOps == {"Draw", "RepeatLast", "ReverseIndex", "ScrollUp", "ScrollDown",
    "InsertLines", "DeleteLines", "InsertCharacters", "DeleteCharacters",
    "EraseCharacters", "EraseInLine", "InsertColumns", "DeleteColumns",
    "ForwardIndex", "BackIndex", "EraseRectangle", "FillRectangle",
    "CopyRectangle", "AlignmentDisplay"}
PlainOps == {"SaveCursorDEC", "RestoreCursorDEC", "SetCursorStyle",
    "SetActiveStatusDisplay", "EraseInDisplaySelective", "SelectiveEraseRectangle"}
ReportOps == {"ReportDeviceStatus", "ReportDeviceAttributes", "ReportMode",
    "RequestStatusString", "QueryColor", "QuerySelectionData"}

Perform(h, e) ==
    CASE e[1] = "Bell"           -> AfterEvent(h)
      [] e[1] = "Index"          -> AfterEvent(HIndex(h))
      [] e[1] = "LineFeed"       -> AfterEvent(HLineFeed(h))
      [] e[1] = "Reset"          -> AfterEvent(HReset(h))
      [] e[1] = "EraseInDisplay" -> AfterEvent(HEraseInDisplay(h, e[2], e[3]))
      [] e[1] \in PlainOps  -> Lift(h, PlainOp(h.s, e))
      [] e[1] \in CursorOps -> AfterEvent(Lift(h, CursorOp(h.s, e)))
      [] e[1] \in EditOps   -> AfterEvent(Lift(h, EditOp(h.s, e)))
      [] e[1] \in ReportOps -> AfterEvent(Lift(h, ReportOp(h.s, e)))
      [] OTHER              -> AfterEvent(Lift(h, StateOp(h.s, e)))

\* A run of operations, in order; what follows a panic is lost with the chunk.
Replay(h, events) ==
    FoldLeft(LAMBDA g, e : IF g.s.panicked THEN g ELSE Perform(g, e), h, events)
=============================================================================
