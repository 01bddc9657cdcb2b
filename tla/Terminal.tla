------------------------------ MODULE Terminal ------------------------------
(***************************************************************************)
(* A region's emulator over its life: the program in the region writes     *)
(* operations, the window is resized, the server is upgraded under it.     *)
(*                                                                         *)
(* One behaviour draws its operations from one family of Families (chosen  *)
(* in Init), so that sequences of related operations are explored deeply   *)
(* instead of all pairs of unrelated ones.  A panic in an operation is     *)
(* recovered by FeedBytes: the rest of the chunk is lost, the screen stays *)
(* as the panic left it.                                                   *)
(***************************************************************************)
EXTENDS History

CONSTANTS
    Columns, Lines,      \* the initial size
    HistoryMax,          \* rows of scrollback
    Sizes,               \* the sizes <<lines, columns>> a resize may ask for
    Families,            \* the families of operations explored
    Steps,               \* how many steps a behaviour of each family takes
    PrintMax             \* lines the shell prints
ASSUME TerminalAssumption ==
    /\ Columns \in Nat \ {0} /\ Lines \in Nat \ {0} /\ HistoryMax \in Nat \ {0}
    /\ Sizes \subseteq (Nat \ {0}) \X (Nat \ {0})
    /\ Families \subseteq {"text", "tab", "margin", "scroll", "alt", "erase", "mode", "report", "shell"}
    /\ \A f \in Families : Steps[f] \in Nat
    /\ PrintMax \in 0 .. 9

VARIABLES
    h,          \* the region's HistoryScreen
    family,     \* where this behaviour's operations come from
    left,       \* steps it may still take
    printed     \* the lines the shell has printed, in order
vars == <<h, family, left, printed>>

-----------------------------------------------------------------------------
(* The families                                                            *)

Text(runes) == <<"Draw", <<runes>>>>
TextOps == {Text(<<"a">>), Text(<<"W">>), Text(<<"a", "+">>), Text(<<"+">>),
    <<"Draw", <<<<"z">>, <<"a">>>>>>, <<"LineFeed">>, <<"CarriageReturn">>, <<"Backspace">>,
    <<"RepeatLast", 2>>, <<"CursorPosition", 2, 2>>, <<"SetMode", <<"IRM">>>>,
    <<"ResetMode", <<"DECAWM">>>>, <<"SetMode", <<"RevInline">>>>}
TabOps == {Text(<<"a">>), <<"Tab">>, <<"SetTabStop">>, <<"ClearTabStop", 0>>,
    <<"ClearTabStop", 3>>, <<"CursorBackTab", 1>>, <<"CursorForwardTab", 2>>,
    <<"SetMode", <<"MoreFix">>>>, <<"CursorForward", 1>>, <<"CursorBack", 2>>,
    <<"SetMode", <<"RevExtend">>>>, <<"SetMode", <<"LNM">>>>, <<"LineFeed">>}
MarginOps == {Text(<<"a">>), Text(<<"W">>), <<"SetMode", <<"DECLRMM">>>>,
    <<"SetLeftRightMargins", 1, 2>>, <<"SetLeftRightMargins", 2, 3>>,
    <<"SetMargins", 1, 2>>, <<"SetMode", <<"DECOM">>>>, <<"InsertCharacters", 1>>,
    <<"DeleteCharacters", 1>>, <<"InsertColumns", 1>>, <<"DeleteColumns", 1>>,
    <<"ForwardIndex">>, <<"BackIndex">>, <<"Index">>, <<"CursorToColumn", 3>>,
    Text(<<"+">>), <<"ResetMode", <<"DECLRMM">>>>}
ScrollOps == {Text(<<"a">>), <<"SetMargins", 2, 3>>, <<"SetMargins", 1, 2>>, <<"Index">>,
    <<"ReverseIndex">>, <<"ScrollUp", 1>>, <<"ScrollDown", 2>>, <<"InsertLines", 1>>,
    <<"DeleteLines", 2>>, <<"CursorUp", 1>>, <<"CursorDown", 1>>, <<"CursorUp1", 1>>,
    <<"CursorDown1", 2>>, <<"CursorToLine", 3>>, <<"SetMode", <<"DECOM">>>>}
AltOps == {Text(<<"a">>), <<"LineFeed">>, <<"CursorPosition", 2, 2>>,
    <<"SetMode", <<"AltBuf">>>>, <<"ResetMode", <<"AltBuf">>>>,
    <<"SetMode", <<"AltBufOpt">>>>, <<"ResetMode", <<"AltBufOpt">>>>,
    <<"SetMode", <<"AltBufCursor">>>>, <<"ResetMode", <<"AltBufCursor">>>>,
    <<"SaveCursorDEC">>, <<"RestoreCursorDEC">>, <<"SetMode", <<"DECSaveCursor">>>>,
    <<"ResetMode", <<"DECSaveCursor">>>>}
EraseOps == {Text(<<"a">>), <<"SelectGraphicRendition", <<"44">>>>,
    <<"SelectGraphicRendition", <<"1", "7", "27", "22">>>>, <<"SelectGraphicRendition", <<>>>>,
    <<"StartProtectedArea">>, <<"EndProtectedArea">>, <<"SetCharacterProtection", 1>>,
    <<"EraseInDisplay", 0, FALSE>>, <<"EraseInDisplay", 3, TRUE>>,
    <<"EraseInDisplaySelective", 1>>, <<"EraseInLine", 1, TRUE>>, <<"EraseInLine", 2, FALSE>>,
    <<"EraseCharacters", 2>>, <<"EraseRectangle", 1, 1, 2, 2>>,
    <<"SelectiveEraseRectangle", 1, 2, 0, 0>>, <<"FillRectangle", 2, 1, 0, 0>>,
    <<"CopyRectangle", 1, 1, 1, 2, 2, 2>>, <<"AlignmentDisplay">>}
ModeOps == {Text(<<"a">>), <<"SetMode", <<"DECCOLM">>>>, <<"ResetMode", <<"DECCOLM">>>>,
    <<"SetMode", <<"DECNCSM">>>>, <<"ResetMode", <<"80To132">>>>, <<"SetMode", <<"DECSCNM">>>>,
    <<"ResetMode", <<"DECSCNM">>>>, <<"SaveModes", <<"DECSCNM", "DECCOLM">>>>,
    <<"RestoreModes", <<"DECSCNM", "DECCOLM">>>>, <<"SetConformance", 64>>,
    <<"SetConformance", 62>>, <<"SetMode", <<"DECLRMM">>>>, <<"SoftReset">>, <<"Reset">>,
    <<"WindowOp", <<8, 2, 3>>>>, <<"SetMode", <<"AltBufCursor">>>>, <<"ResetMode", <<"DECTCEM">>>>}
\* Operations whose effect is on data of their own, and the reports on them.
ReportFamily == {Text(<<"a">>), <<"SetTitle", <<"T">>>>, <<"SetIconName", <<"hex", "I">>>>,
    <<"SetTitleMode", <<0, 1>>, FALSE>>, <<"SetTitleMode", <<2, 3>>, FALSE>>,
    <<"WindowOp", <<22, 0>>>>, <<"WindowOp", <<23, 1>>>>, <<"WindowOp", <<23, 2>>>>,
    <<"WindowOp", <<21>>>>, <<"WindowOp", <<18>>>>, <<"SetColor", "palette", 17, "red">>,
    <<"QueryColor", "palette", 17>>, <<"ResetColor", "palette", 1, TRUE>>,
    <<"SetSelectionData", <<"clip">>>>, <<"QuerySelectionData">>,
    <<"ReportDeviceStatus", 6>>, <<"ReportDeviceAttributes", 0>>, <<"ReportMode", "DECAWM">>,
    <<"RequestStatusString", "r">>, <<"RequestStatusString", "m">>, <<"SetCursorStyle", 2>>,
    <<"SetActiveStatusDisplay", 1>>, <<"DefineCharset", "vt100", "(">>, <<"ShiftOut">>,
    <<"ShiftIn">>, <<"Bell">>}
OpsOf == [text |-> TextOps, tab |-> TabOps, margin |-> MarginOps, scroll |-> ScrollOps,
          alt |-> AltOps, erase |-> EraseOps, mode |-> ModeOps, report |-> ReportFamily,
          shell |-> {}]

-----------------------------------------------------------------------------
(* Behaviour                                                               *)

Init ==
    /\ h = NewHistoryScreen(Columns, Lines, HistoryMax)
    /\ family \in Families
    /\ left = Steps[family]
    /\ printed = <<>>

MayStep == left > 0 /\ ~h.s.panicked
Took == left' = left - 1 /\ UNCHANGED family

\* The program in the region writes one operation (ptyDataMsg, FeedBytes).
Output(e) ==
    /\ MayStep
    /\ h' = Replay([h EXCEPT !.s.reply = <<>>], <<e>>)
    /\ Took /\ UNCHANGED printed

\* The window changes size (resizeMsg).
WindowResize(lines, columns) ==
    /\ MayStep /\ <<lines, columns>> /= <<h.s.lines, h.s.columns>>
    /\ h' = HResize(h, lines, columns)
    /\ Took /\ UNCHANGED printed

\* A live upgrade: the state is marshalled to JSON and restored (RestoreRegion).
LiveUpgrade ==
    /\ MayStep
    /\ h' = Upgraded(h)
    /\ Took /\ UNCHANGED printed

\* FeedBytes recovers a panic of the screen.
Recovered ==
    /\ h.s.panicked
    /\ h' = [h EXCEPT !.s.panicked = FALSE]
    /\ UNCHANGED <<family, left, printed>>

\* A shell prints a line: one rune, then CR LF.
Letter(k) == <<"1", "2", "3", "4", "5", "6", "7", "8", "9">>[k]
PrintLine ==
    /\ MayStep /\ family = "shell" /\ ~h.s.altActive /\ Len(printed) < PrintMax
    /\ LET c == Letter(Len(printed) + 1)
       IN  /\ h' = Replay(h, <<Text(<<c>>), <<"CarriageReturn">>, <<"LineFeed">>>>)
           /\ printed' = Append(printed, c)
    /\ Took
\* A full-screen program comes and goes.
FullScreen ==
    /\ MayStep /\ family = "shell"
    /\ h' = Replay(h, <<<<IF h.s.altActive THEN "ResetMode" ELSE "SetMode", <<"AltBufCursor">>>>>>)
    /\ Took /\ UNCHANGED printed
\* It paints the bottom row.
Paint ==
    /\ MayStep /\ family = "shell" /\ h.s.altActive
    /\ h' = Replay(h, <<<<"CursorPosition", h.s.lines, 1>>, Text(<<"#">>)>>)
    /\ Took /\ UNCHANGED printed

\* The behaviour ends when its steps are used up.
Done == left = 0 /\ ~h.s.panicked /\ UNCHANGED vars

Next ==
    \/ \E e \in OpsOf[family] : Output(e)
    \/ \E z \in Sizes : WindowResize(z[1], z[2])
    \/ LiveUpgrade
    \/ Recovered
    \/ PrintLine
    \/ FullScreen
    \/ Paint
    \/ Done
Spec == Init /\ [][Next]_vars

-----------------------------------------------------------------------------
(* Properties                                                              *)

\* No sequence of operations panics, with three exceptions: a right margin left
\* beyond the row by HistoryScreen.Resize, a cursor that such a margin let go
\* beyond it and that ResetMode leaves there, and a map that came back nil from
\* a live upgrade (Draw, InsertCharacters, SetTabStop index what they find).
PanicCauses ==
    h.s.panicked => \/ Has(h.s, "DECLRMM") /\ StaleRightMargin(h.s)
                    \/ h.s.col > h.s.columns
                    \/ NilMap \in {h.s.lineWrapped, h.s.tabStops}

\* A wide character is a head and its continuation, never one of them alone.
PairsIntact(buf) ==
    \A r \in DOMAIN buf : \A c \in DOMAIN buf[r] :
        /\ Width(buf[r][c].d) = 2 /\ c + 1 \in DOMAIN buf[r] => buf[r][c + 1].d = Cont
        /\ buf[r][c].d = Cont => c > 0 /\ Width(buf[r][c - 1].d) = 2
DrawsAlone(c) ==          \* neither IRM nor margins, and no combining rune alone
    /\ ~Combining(c) /\ ~Has(h.s, "IRM") /\ ~Has(h.s, "DECLRMM")
\* The wrap of a wide character that blanks the last cell and not its pair (screen.go:303-306).
WrappedHalf(c) == Width(c) = 2 /\ h.s.buf[h.s.row][h.s.columns - 1].d = Cont

\* Drawing over one half of a wide character blanks the other half
\* (clearWidePairAt in Draw), wherever the cursor is, but for WrappedHalf.
DrawKeepsPairs ==
    [][\A c \in {<<"a">>, <<"W">>, <<"a", "+">>} :
           Output(Text(c)) /\ DrawsAlone(c) /\ ~WrappedHalf(c) /\ PairsIntact(h.s.buf)
               => PairsIntact(h'.s.buf)]_vars

\* The printed lines found in history and on the primary screen, in order.
RowText(row) == FoldLeft(LAMBDA text, ch : IF ch \in {" ", "#"} THEN text ELSE Append(text, ch),
                         <<>>, VisibleFrom(row))
PrimaryRows == LET buf == IF h.s.altActive THEN h.s.altBuf ELSE h.s.buf
               IN  [i \in 1 .. RowsOf(buf) |-> buf[i - 1]]
Found == FoldLeft(LAMBDA text, row : text \o RowText(row), <<>>, h.top \o PrimaryRows)

\* What a shell prints stays, once and in order, in history and on the screen,
\* through resizes, full-screen programs and upgrades; what is missing is the
\* oldest, when history has evicted it (PushRow, HistoryScreen.Resize).
ShellLinesKept ==
    family = "shell" =>
        /\ IsSuffix(Found, printed)
        /\ h.firstSeq = 0 => Found = printed

\* The row of history with number n.
RowNumbered(g, n) == g.top[n - g.firstSeq + 1]

\* A row of history keeps its text as long as it keeps its number: nothing
\* renumbers rows that viewers have fetched (FirstSeq, TotalAdded, Resize,
\* ResetHistory, the restore of an upgrade).
RowsKeepTheirNumber ==
    [][/\ h'.totalAdded >= h.totalAdded
       /\ \A n \in MaxOf(h.firstSeq, h'.firstSeq) .. h.totalAdded - 1 :
              n < h'.totalAdded =>
                  RowText(RowNumbered(h', n)) = RowText(RowNumbered(h, n))]_vars

\* What a live upgrade transfers whole.
PairsFollowed(buf) ==
    \A r \in DOMAIN buf : \A c \in DOMAIN buf[r] :
        buf[r][c].d = Cont => \E d \in DOMAIN buf[r] : d >= c /\ ~Trimmable(buf[r][d])
Restorable ==
    /\ PairsFollowed(h.s.buf) /\ PairsFollowed(h.s.altBuf)
    /\ ~Has(h.s, "DECSCNM")
    /\ {} \notin {h.s.lineWrapped, h.s.tabStops, h.s.altLineWrapped}

\* A live upgrade changes nothing a program or viewer could notice, if on every
\* row something other than plain blanks follows each wide character, the screen
\* is not reversed and no map is empty (MarshalState, trimBuffer, UnmarshalState).
UpgradeKeepsScreen ==
    [][LiveUpgrade /\ Restorable => h'.s = [h.s EXCEPT !.reply = <<>>]]_vars
=============================================================================
