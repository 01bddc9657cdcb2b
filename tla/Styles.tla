------------------------------- MODULE Styles -------------------------------
(***************************************************************************)
(* The way of a colour or an attribute from a program to the user's        *)
(* terminal.  The region's screen reads the program's SGR parameters       *)
(* (te.Screen); the viewer has the cell by the same events or by a         *)
(* snapshot, and writes it as text (renderCellLine); lipgloss draws the    *)
(* text into cells (printString), lays them under the status bar and       *)
(* writes them as text again (renderLine); bubbletea draws that into cells *)
(* and its renderer sends what changes its pen (updatePen).  Every one of  *)
(* them sends differences to a pen of its own.                             *)
(*                                                                         *)
(* A style is [on, under, fg, bg, uc]: the attributes that are set, the    *)
(* kind of underline (0 none, 1 single .. 5 dashed) and the colours.  A    *)
(* text is a sequence of SGR parameters, those of one colour with colons.  *)
(* nxterm asks for the true-colour profile (tui/main.go:245), in which     *)
(* ConvertStyle changes nothing.  Hyperlinks are left out.                 *)
(***************************************************************************)
EXTENDS Integers, SequencesExt

CONSTANT Families       \* sets of the parameters a program uses

VARIABLES
    codes,      \* those of this behaviour
    attr,       \* Cursor.Attr of the region's screen
    want,       \* the pen of a terminal that reads the program itself
    pens        \* what each writer and each reader of the line is at; goal: what the
                \* character printed last should look like

styleVars == <<codes, attr, want, pens>>

\* nil of color.Color and te.Color{}; te's colour that is the default by name.
NoColor == "none"
Default == "default"
NoStyle == [on |-> {}, under |-> 0, fg |-> NoColor, bg |-> NoColor, uc |-> NoColor]
DefaultStyle == [NoStyle EXCEPT !.fg = Default, !.bg = Default]

-----------------------------------------------------------------------------
(* Readers *)

\* The function of a set of pairs, and one with another pair.
Table(pairs) == [code \in {p[1] : p \in pairs} |-> (CHOOSE p \in pairs : p[1] = code)[2]]
With(table, code, value) == [c \in DOMAIN table \union {code} |-> IF c = code THEN value ELSE table[c]]

Attribute == Table({<<"1", "bold">>, <<"2", "faint">>, <<"3", "italic">>, <<"5", "blink">>, <<"7", "reverse">>,
                    <<"8", "conceal">>, <<"9", "strike">>})
\* ultraviolet and the user's terminal know rapid blink.
All == With(Attribute, "6", "rapid")
Ends == Table({<<"22", {"bold", "faint"}>>, <<"23", {"italic"}>>, <<"25", {"blink", "rapid"}>>,
               <<"27", {"reverse"}>>, <<"28", {"conceal"}>>, <<"29", {"strike"}>>})
Underline == Table({<<"4", 1>>, <<"24", 0>>, <<"4:0", 0>>, <<"4:1", 1>>, <<"4:2", 2>>, <<"4:3", 3>>,
                    <<"4:4", 4>>, <<"4:5", 5>>})
Foreground == Table({<<"31", "red">>, <<"34", "blue">>, <<"38:5:1", "indexed">>, <<"38:2:128:0:0", "direct">>})
Background == Table({<<"41", "red">>, <<"44", "blue">>, <<"48:5:1", "indexed">>, <<"48:2:128:0:0", "direct">>})
UnderlineColor == Table({<<"58:5:1", "indexed">>, <<"58:2:128:0:0", "direct">>})
CodeOf(table, colour) == CHOOSE code \in DOMAIN table : table[code] = colour

\* One parameter, where plain is what "0" leaves and none the colour that "39" and "49" set.
Read(s, code, known, ends, under, plain, none) ==
    CASE code = "0" -> plain
      [] code \in DOMAIN known -> [s EXCEPT !.on = @ \union {known[code]}]
      [] code \in DOMAIN ends -> [s EXCEPT !.on = @ \ ends[code]]
      [] code \in DOMAIN under -> [s EXCEPT !.under = under[code]]
      [] code \in DOMAIN Foreground -> [s EXCEPT !.fg = Foreground[code]]
      [] code \in DOMAIN Background -> [s EXCEPT !.bg = Background[code]]
      [] code \in DOMAIN UnderlineColor -> [s EXCEPT !.uc = UnderlineColor[code]]
      [] code = "39" -> [s EXCEPT !.fg = none]
      [] code = "49" -> [s EXCEPT !.bg = none]
      [] code = "59" -> [s EXCEPT !.uc = NoColor]
      [] OTHER -> s

\* te's Screen.SelectGraphicRendition.
TeRead(s, code) ==
    Read(s, code, With(Attribute, "53", "overline"), With(Ends, "55", {"overline"}), With(Underline, "21", 2),
         DefaultStyle, Default)
\* ultraviolet's ReadStyle, which knows no overline.
ReadStyle(s, code) == Read(s, code, All, Ends, Underline, NoStyle, NoColor)
\* The user's terminal.
TerminalRead(s, code) ==
    Read(s, code, With(All, "53", "overline"), With(Ends, "55", {"overline"}),
         With(Underline, "21", 2), NoStyle, NoColor)

-----------------------------------------------------------------------------
(* Writers *)

\* The cell as a snapshot brings it: cellToProtocol, initScreenFromCells.
Spec16(c) == IF c = NoColor THEN Default ELSE c
Snapshot(s) == [s EXCEPT !.fg = Spec16(@), !.bg = Spec16(@), !.uc = Spec16(@)]

\* The codes of S, in the order of the list.
Codes(list, S) ==
    FoldLeft(LAMBDA text, code : IF code \in S THEN Append(text, code) ELSE text, <<>>, list)
ResetStyle == <<"0">>
Setting(attrs) == {code \in DOMAIN All : All[code] \in attrs}
UnderlineKinds == {"4:1", "4:2", "4:3", "4:4", "4:5"}

\* From one cell's attributes to the next one's.  What renderCellLine does not
\* end by a code of its own takes a reset.
Undone == Table({<<"italic", "23">>, <<"reverse", "27">>, <<"strike", "29">>})
SgrColour(old, new, table, none) ==
    IF old = new THEN <<>> ELSE IF new \in {NoColor, Default} THEN <<none>> ELSE <<CodeOf(table, new)>>
SgrTransition(was, to) ==
    LET reset == (was.on \ to.on) \intersect {"bold", "faint", "blink", "conceal"} # {}
        from  == IF reset THEN NoStyle ELSE was
        under == IF to.under = from.under THEN <<>>
                 ELSE IF to.under = 0 THEN <<"24">>
                 ELSE <<CHOOSE code \in UnderlineKinds : Underline[code] = to.under>>
        over  == CASE "overline" \in to.on \ from.on -> <<"53">>
                   [] "overline" \in from.on \ to.on -> <<"55">>
                   [] OTHER -> <<>>
    IN  IF to = NoStyle THEN ResetStyle
        ELSE (IF reset THEN ResetStyle ELSE <<>>)
             \o Codes(<<"1", "2", "3", "5", "7", "8", "9">>, Setting(to.on \ from.on))
             \o Codes(<<"23", "27", "29">>, {Undone[a] : a \in (from.on \ to.on) \intersect DOMAIN Undone})
             \o SgrColour(from.fg, to.fg, Foreground, "39") \o SgrColour(from.bg, to.bg, Background, "49")
             \o SgrColour(from.uc, to.uc, UnderlineColor, "59") \o under \o over

\* ansi.Red, ansi.IndexedColor(1) and the same colour by its parts have equal RGBA values.
ColorEqual(a, b) == a = b \/ {a, b} \subseteq {"red", "indexed", "direct"}
StyleEqual(a, b) ==
    /\ a.on = b.on /\ a.under = b.under
    /\ ColorEqual(a.fg, b.fg) /\ ColorEqual(a.bg, b.bg) /\ ColorEqual(a.uc, b.uc)

\* Ends first.  Of two attributes that end together the one that stays is set again.
DiffColour(old, new, table, none) ==
    IF ColorEqual(old, new) THEN <<>> ELSE IF new = NoColor THEN <<none>> ELSE <<CodeOf(table, new)>>
StyleDiffWith(from, to, endTogether) ==
    LET ends  == {code \in DOMAIN Ends : Ends[code] \intersect (from.on \ to.on) # {}}
        again == (UNION {Ends[code] : code \in ends \intersect endTogether}) \intersect to.on
        under == IF from.under = to.under THEN {}
                 ELSE CASE to.under = 0 -> {"24"} [] to.under = 1 -> {"4"}
                        [] OTHER -> {code \in UnderlineKinds : Underline[code] = to.under}
    IN  IF StyleEqual(from, to) THEN <<>>
        ELSE IF to = NoStyle THEN ResetStyle
        ELSE DiffColour(from.fg, to.fg, Foreground, "39") \o DiffColour(from.bg, to.bg, Background, "49")
             \o DiffColour(from.uc, to.uc, UnderlineColor, "59")
             \o Codes(<<"22", "23", "24", "25", "27", "28", "29">>, ends \union under)
             \o Codes(<<"1", "2", "3", "4", "5", "6", "7", "8", "9", "4:2", "4:3", "4:4", "4:5">>,
                      Setting((to.on \ from.on) \union again) \union under)
(* A defect: what the end of faint took with it is not set again. *)
StyleDiffForgets(from, to) == StyleDiffWith(from, to, {"25"})
StyleDiff(from, to) == StyleDiffWith(from, to, {"22", "25"})

-----------------------------------------------------------------------------
(* A line *)

ReadAll(Reader(_, _), s, text) == FoldLeft(Reader, s, text)

\* renderLine's text for a cell of style s, and for the end of the line.
LaidOut(pen, s) == IF s = NoStyle /\ pen # NoStyle THEN ResetStyle ELSE StyleDiff(pen, s)
\* The pen after a cell: a style that is equal to it is not sent.
PenAfter(pen, s) == IF StyleEqual(pen, s) /\ s # NoStyle THEN pen ELSE s

NewPens == [line |-> NoStyle, text |-> NoStyle, laid |-> NoStyle, view |-> NoStyle, sent |-> NoStyle,
            shown |-> NoStyle, goal |-> NoStyle]
StyleInit == /\ codes \in Families
             /\ attr = DefaultStyle /\ want = NoStyle /\ pens = NewPens

Program(code) ==
    /\ code \in codes
    /\ attr' = TeRead(attr, code) /\ want' = TerminalRead(want, code)
    /\ UNCHANGED <<codes, pens>>

\* The character under nxterm's own cursor is reversed, or a "?" after the prefix key.
Reversed(s) == [s EXCEPT !.on = (@ \ {"reverse"}) \union ({"reverse"} \ @)]
Asking == [NoStyle EXCEPT !.on = {"bold", "reverse"}, !.fg = "blue"]
UnderCursor(s, cursor) == CASE cursor = "none" -> s [] cursor = "reversed" -> Reversed(s) [] cursor = "asking" -> Asking

\* renderCellLine, printString, renderLine, printString, updatePen: one character on its way.
PrintCell(fetched, cursor) ==
    /\ codes # {}
    /\ LET target == UnderCursor(IF fetched THEN Snapshot(attr) ELSE attr, cursor)
           text == ReadAll(ReadStyle, pens.text, IF target = pens.line THEN <<>> ELSE SgrTransition(pens.line, target))
           view == ReadAll(ReadStyle, pens.view, LaidOut(pens.laid, text))
       IN  pens' = [line |-> target, text |-> text, laid |-> PenAfter(pens.laid, text), view |-> view,
                    sent |-> IF StyleEqual(pens.sent, view) THEN pens.sent ELSE view,
                    shown |-> ReadAll(TerminalRead, pens.shown, StyleDiff(pens.sent, view)),
                    goal |-> UnderCursor(want, cursor)]
    /\ UNCHANGED <<codes, attr, want>>

EndLine ==
    /\ pens.line # NoStyle
    /\ pens' = [pens EXCEPT !.line = NoStyle, !.text = ReadAll(ReadStyle, @, ResetStyle), !.laid = NoStyle,
                            !.view = IF pens.laid = NoStyle THEN @ ELSE ReadAll(ReadStyle, @, ResetStyle)]
    /\ UNCHANGED <<codes, attr, want>>

StyleNext ==
    \/ \E code \in codes : Program(code)
    \/ \E fetched \in BOOLEAN, cursor \in {"none", "reversed", "asking"} : PrintCell(fetched, cursor)
    \/ EndLine
StyleSpec == StyleInit /\ [][StyleNext]_styleVars

-----------------------------------------------------------------------------

\* What one of the pens does not know.
Lost == {"overline", "rapid"}

\* Each character has the colours and attributes on the user's terminal that the program's own
\* sequences give it on such a terminal, through five pens that send differences (sgrTransition,
\* ReadStyle, StyleDiff).  ultraviolet has no overline and te no rapid blink.
StylesArrive == StyleEqual([pens.shown EXCEPT !.on = @ \ Lost], [pens.goal EXCEPT !.on = @ \ Lost])
=============================================================================
