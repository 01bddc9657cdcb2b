-------------------------- MODULE MCCursedRenderer --------------------------
(* Lines of every pattern of blanks, colours and text on short rows, a list that scrolls on a tall screen, and the styles by themselves. *)
EXTENDS CursedRenderer, Styles

MCSizes == {<<3, 1>>, <<2, 5>>, <<3, 2>>}
MCChanges == {<<<<2, 5>>, <<3, 2>>>>, <<<<3, 2>>, <<2, 5>>>>}
C(c) == Cell(c, "n")
Alphabet == {C(" "), C("a"), Cell(" ", "g"), Cell(" ", "r")}
Row3 == {<<a, b, c>> : a, b, c \in Alphabet}
WideRows == {<<C("W"), C("a")>>, <<C("a"), C("W")>>, <<C("W")>>}
Lines == [i \in 1 .. 7 |-> <<Cell(<<"p", "q", "s", "t", "u", "v", "w">>[i], "n")>>]
List(k, n) == SubSeq(Lines, k + 1, k + n)
Bar == <<Cell("b", "r"), Cell(" ", "r")>>
Lists == {List(k, 5) : k \in 0 .. 2} \cup {<<Bar>> \o List(k, 4) : k \in 0 .. 2} \cup {List(k, 4) \o <<Bar>> : k \in 0 .. 2}
Short == {List(0, 3), <<Bar>> \o List(0, 2) \o <<<<>>>> \o <<Bar>>}
Plain(rows) == [content |-> rows, mouse |-> "none", title |-> ""]
MCViews ==
    [s \in MCSizes |->
        CASE s = <<3, 1>> -> {Plain(<<row>>) : row \in Row3 \cup WideRows}
          [] s = <<2, 5>> -> {[content |-> l, mouse |-> "cell", title |-> "t"] : l \in Lists}
                                \cup {[content |-> l, mouse |-> "all", title |-> "t"] : l \in Short}
          [] OTHER -> {Plain(<<row, row>>) : row \in {<<C("a"), C(" "), C("a")>>, <<Cell(" ", "r"), C("a")>>}}]

\* Attributes that end together or only by a reset, underlines, equal colours of different kinds.
MCFamilies == {
    {"0", "1", "2", "22", "5", "25"}, {"1", "22", "7", "27", "29", "9"}, {"3", "23", "8", "28", "53", "55"},
    {"4", "4:3", "21", "24", "58:5:1", "59"},
    {"31", "38:5:1", "39", "48:2:128:0:0", "49", "2", "22"}, {"0", "34", "38:5:1", "41", "44"}}

\* The renderer, or the styles.
MCInit ==
    \/ /\ Init
       /\ codes = {} /\ attr = DefaultStyle /\ want = NoStyle /\ pens = NewPens
    \/ /\ StyleInit
       /\ size = <<3, 1>> /\ cellbuf = size /\ term = NewTerminal(3, 1) /\ r = NewRenderer /\ view = None /\ lastView = None
       /\ starting = FALSE /\ titlePushed = FALSE /\ running = FALSE /\ resizes = 0 /\ signalled = FALSE /\ unsynced = FALSE
MCNext == (Next /\ UNCHANGED styleVars) \/ (StyleNext /\ UNCHANGED vars)
MCSpec == MCInit /\ [][MCNext]_<<vars, styleVars>>
=============================================================================
