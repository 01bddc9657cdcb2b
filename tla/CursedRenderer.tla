--------------------------- MODULE CursedRenderer ---------------------------
(***************************************************************************)
(* The part of bubbletea that puts a view on the terminal: the program     *)
(* leaves its view with render, a ticker calls flush, and a window-size    *)
(* message, which comes some time after the window changed, calls resize.  *)
(* NxtermModel's views are always on the alternate screen and never show a *)
(* cursor.  Suspending and Println, which nxterm does not use, are left    *)
(* out.                                                                    *)
(***************************************************************************)
EXTENDS Renderer

CONSTANTS
    Sizes,          \* the sizes of the window, <<columns, rows>>
    Views,          \* what the program may want shown in each: content, mouse mode and title
    Changes,        \* <<from, to>>: the ways the window may change its size
    Resizes,        \* how often it does
    Synced          \* whether the terminal has synchronized updates (mode 2026)
ASSUME CursedAssumption ==
    /\ \A s \in Sizes : \A v \in Views[s] : DOMAIN v = {"content", "mouse", "title"} /\ v.mouse \in {"none", "cell", "all"}
    /\ Sizes \subseteq (Nat \ {0}) \X (Nat \ {0}) /\ Changes \subseteq Sizes \X Sizes /\ Resizes \in Nat /\ Synced \in BOOLEAN

VARIABLES
    term,           \* the terminal
    r,              \* scr, the TerminalRenderer
    view,           \* the view to show
    lastView,       \* the view of the last flush, None before the first one
    size,           \* width and height, as the last window-size message said
    cellbuf,        \* the size of the buffer the last frame was drawn on
    starting, titlePushed,
    running,
    resizes,        \* how often the window has changed
    signalled,      \* a SIGWINCH is pending
    unsynced        \* the last change of size left the renderer wrong about a cell (see SyncSize)
vars == <<term, r, view, lastView, size, cellbuf, starting, titlePushed, running, resizes, signalled, unsynced>>

None == [content |-> <<>>, mouse |-> "none", title |-> ""]

Init ==
    /\ size \in Sizes /\ cellbuf = size
    /\ term = NewTerminal(size[1], size[2])
    /\ r = Erase(NewRenderer)             \* Program.Start calls resize
    /\ view \in Views[size] /\ lastView = None
    /\ starting = TRUE /\ titlePushed = FALSE /\ running = TRUE
    /\ resizes = 0 /\ signalled = FALSE /\ unsynced = FALSE

-----------------------------------------------------------------------------
(* flush *)

MouseCmds(v) ==
    CASE v.mouse = lastView.mouse -> <<>>
      [] v.mouse = "none" \/ lastView.mouse = "none" -> <<<<"mouse", v.mouse>>>>
      [] OTHER -> <<<<"mouse", "none">>, <<"mouse", v.mouse>>>>
SetsTitle(v) == v.title # lastView.title
\* Mutant: a title is pushed for every change.
TitleCmdsPush(v) == IF SetsTitle(v) THEN <<<<"pushTitle">>, <<"title", v.title>>>> ELSE <<>>
TitleCmds(v) == IF ~SetsTitle(v) THEN <<>>
                ELSE IF titlePushed THEN <<<<"title", v.title>>>>
                ELSE <<<<"pushTitle">>, <<"title", v.title>>>>
ModeCmds(v) ==
    (IF lastView = None THEN <<<<"paste", TRUE>>>> ELSE <<>>) \o MouseCmds(v) \o TitleCmds(v)
    \o (IF lastView = None THEN <<<<"keys", 1>>>> ELSE <<>>)

\* The frame goes out as one write: first the switch of screens, then the updates.
Frame(updates) ==
    LET first == lastView = None
        sync(on) == IF Synced /\ updates # <<>> THEN <<<<"sync", on>>>> ELSE <<>>
    IN (IF first THEN <<<<"keys", 0>>, <<"alt", TRUE>>>> ELSE <<>>)
       \o sync(TRUE) \o (IF first THEN <<<<"cursor", FALSE>>>> ELSE <<>>)
       \o updates \o sync(FALSE)

\* What SyncSize leaves out: a wider row above the old last one.
Missed(new) ==
    \E y \in DOMAIN new : y < Height(r.buf) - 1
        /\ \E x \in DOMAIN new[y] : x >= Width(r.buf) /\ new[y][x] # EmptyCell

Unchanged(closing) == ~starting /\ ~closing /\ lastView = view /\ cellbuf = size
Sent(drawn) ==
    /\ r' = [drawn EXCEPT !.out = <<>>]
    /\ term' = ExecAll(term, Frame(drawn.out))
DrawFrame ==
    LET new == Drawn(view.content, size[1], size[2])
        r1 == IF cellbuf # size THEN Erase(r) ELSE r
        r2 == IF lastView = None THEN EnterAlt(r1) ELSE r1
    IN /\ Sent(Render(Emit(r2, ModeCmds(view)), new))
       /\ cellbuf' = size /\ starting' = FALSE /\ lastView' = view
       /\ titlePushed' = (titlePushed \/ SetsTitle(view))
       /\ unsynced' = (Missed(new) \/ (unsynced /\ ~r2.clear))

Flush ==
    /\ running /\ ~Unchanged(FALSE)
    /\ DrawFrame
    /\ UNCHANGED <<view, size, running, resizes, signalled>>

-----------------------------------------------------------------------------

\* Views that no flush sees do not matter: one update between two flushes.
Update(v) ==
    /\ running /\ lastView = view /\ v # view /\ v \in Views[size]
    /\ view' = v
    /\ UNCHANGED <<term, r, lastView, size, cellbuf, starting, titlePushed, running, resizes, signalled, unsynced>>

\* The window changes; the message about it is on its way as long as size is the old one.
WindowChange(s) ==
    /\ running /\ resizes < Resizes /\ <<<<W(term), H(term)>>, s>> \in Changes
    /\ term' = Resized(term, s[1], s[2]) /\ resizes' = resizes + 1 /\ signalled' = TRUE
    /\ UNCHANGED <<r, view, lastView, size, cellbuf, starting, titlePushed, running, unsynced>>
\* The handler reads the size the window has by then.  Signals that come together
\* make one message, and a window that is back to its old size makes one too.
WindowSize ==
    /\ running /\ signalled /\ signalled' = FALSE
    /\ size' = <<W(term), H(term)>> /\ r' = Erase(r)
    /\ UNCHANGED <<term, view, lastView, cellbuf, starting, titlePushed, running, resizes, unsynced>>

\* clearScreen: what a tea.ClearScreen command does
Clear ==
    /\ running
    /\ r' = Erase(MoveTo(r, 0, 0))
    /\ UNCHANGED <<term, view, lastView, size, cellbuf, starting, titlePushed, running, resizes, signalled, unsynced>>

\* Program.Stop: the last view, then close.
CloseCmds(out) ==
    <<<<"keys", 0>>>> \o out \o
    <<<<"alt", FALSE>>, <<"cursor", TRUE>>, <<"paste", FALSE>>>>
    \o (IF lastView'.mouse # "none" THEN <<<<"mouse", "none">>>> ELSE <<>>)
    \o (IF titlePushed THEN <<<<"popTitle">>>> ELSE <<>>)
Close ==
    /\ running /\ lastView # None
    /\ r' = ExitAlt([MoveTo(r, 0, cellbuf[2] - 1) EXCEPT !.out = <<>>])
    /\ lastView' = lastView
    /\ term' = ExecAll(term, CloseCmds(MoveTo(r, 0, cellbuf[2] - 1).out))
    /\ titlePushed' = FALSE /\ running' = FALSE
    /\ UNCHANGED <<view, size, cellbuf, starting, resizes, signalled, unsynced>>

Next ==
    \/ Flush \/ \E v \in UNION {Views[s] : s \in Sizes} : Update(v)
    \/ \E s \in Sizes : WindowChange(s)
    \/ WindowSize \/ Clear \/ Close
Spec == Init /\ [][Next]_vars

-----------------------------------------------------------------------------

\* The renderer owes the terminal nothing: the last view is flushed, and no message about the size is on its way.
AtRest ==
    /\ running /\ lastView = view /\ lastView # None /\ ~r.clear
    /\ size = cellbuf /\ size = <<W(term), H(term)>> /\ ~signalled
Target == Drawn(view.content, size[1], size[2])

\* What the terminal shows is the view, whatever was erased, shifted, repeated, overwritten or
\* scrolled on the way (terminal_renderer.go:135, Render; cursed_renderer.go, flush).
Shown == AtRest /\ ~unsynced => term.rows = Target

\* The terminal's modes are the view's, and after Close what they were before.
ModesGivenBack ==
    /\ AtRest => term.mouse = view.mouse /\ term.title = (IF view.title = "" /\ ~titlePushed THEN "shell" ELSE view.title)
                 /\ term.alt /\ ~term.cursor /\ ~term.sync /\ Len(term.titles) = (IF titlePushed THEN 1 ELSE 0)
    /\ ~running => /\ ~term.alt /\ term.cursor /\ term.mouse = "none" /\ ~term.paste
                   /\ term.title = "shell" /\ term.titles = <<>> /\ term.keys = [main |-> 0, alt |-> 0]

=============================================================================
