------------------------------- MODULE Mirror -------------------------------
(***************************************************************************)
(* A viewer's copy of a region's screen and scrollback.                    *)
(*                                                                         *)
(* The region's actor feeds the program's output to its HistoryScreen h    *)
(* through an EventProxy, which records every operation in batch; after a  *)
(* run of output it broadcasts the batch, or a snapshot when the program   *)
(* used synchronized output (mode 2026).  The viewer replays the events on *)
(* a HistoryScreen c of its own, replaces it when a snapshot comes, and    *)
(* merges the server's scrollback into it when the user scrolls back.      *)
(*                                                                         *)
(* One region, one viewer.  link.down is writeCh and the socket behind it: *)
(* what does not fit is dropped and the viewer marked behind (SlowClient   *)
(* has the circuit breaker and several viewers; ServerCore the overlays).  *)
(* Sync markers, which only the test harness emits, are left out.  Printed *)
(* lines are numbered and never printed twice, so a row says what it is.   *)
(***************************************************************************)
EXTENDS History

CONSTANTS
    Columns, Lines,      \* the first size of the window
    Heights,             \* the heights the window may be given
    Programs,            \* what the program may write, names of Events
    Outputs,             \* how often it writes
    UserSteps,           \* scrolls, resizes and tab switches of the user
    ServerMax, ClientMax,\* rows of scrollback kept by each side
    DownCap,             \* capacity of writeCh
    ChunkSize,           \* rows in a scrollback response (scrollbackChunkSize)
    SyncMax              \* maxSyncBatchEvents
ASSUME MirrorAssumption ==
    /\ Columns \in Nat \ {0, 1} /\ Lines \in Nat \ {0} /\ Heights \subseteq Nat \ {0}
    /\ Outputs \in 0 .. 9 /\ UserSteps \in Nat
    /\ ServerMax \in Nat \ {0} /\ ClientMax \in Nat \ {0}
    /\ DownCap \in Nat \ {0} /\ ChunkSize \in Nat \ {0} /\ SyncMax \in Nat

VARIABLES
    h,           \* the actor's HistoryScreen
    batch,       \* EventProxy.batch
    syncMode,    \* EventProxy.syncMode
    syncEnd,     \* EventProxy.syncEndIndex: 0 when no synchronized update completed
    dirty,       \* output fed and not broadcast yet
    printed,     \* lines printed
    left,        \* outputs still to come
    link,        \* [on, last, behind, down]: the subscription and its queue
    serving,     \* scrollback chunks not yet replied
    up,          \* the viewer's requests, in order
    c,           \* the viewer's HistoryScreen, or NoScreen
    height,      \* the viewer's contentHeight
    requested,   \* TerminalLayer.scrollbackRequested
    layer,       \* the ScrollbackLayer, or NoLayer
    shown,       \* the region's tab is the active one
    moves,       \* steps the user may still take
    complete,    \* history: a scrollback fetch was merged and nothing lost since
    raced        \* history: the window changed, or scrollback was fetched, while
                 \* rows of output were on their way

programVars == <<h, batch, syncMode, syncEnd, dirty, printed, left>>
viewerVars  == <<c, height, requested, layer, shown, moves, complete>>
vars == <<programVars, link, serving, up, viewerVars, raced>>

NoScreen == <<>>
NoLayer  == <<>>

-----------------------------------------------------------------------------
(* What the program writes                                                 *)

Digit(k) == <<"1", "2", "3", "4", "5", "6", "7", "8", "9">>[k]
Events(name) ==
    CASE name = "print" -> <<<<"CarriageReturn">>, <<"LineFeed">>,
                             <<"Draw", <<<<Digit(printed + 1)>>>>>>>>
      [] name = "home"    -> <<<<"CursorPosition", 1, 1>>>>
      [] name = "clear"   -> <<<<"EraseInDisplay", 3, FALSE>>>>
      [] name = "bell"    -> <<<<"Bell">>>>
      [] name = "syncOn"  -> <<<<"SetMode", <<"Sync">>>>>>
      [] name = "syncOff" -> <<<<"ResetMode", <<"Sync">>>>>>
      [] name = "altOn"   -> <<<<"SetMode", <<"AltBufCursor">>>>>>
      [] name = "altOff"  -> <<<<"ResetMode", <<"AltBufCursor">>>>>>
IsMode(e, op) == e[1] = op /\ e[2] = <<"Sync">>

\* One operation through the EventProxy: performed, then recorded.
Recorded(p, e) ==
    LET b == Append(p.batch, e)
    IN  [h |-> Perform(p.h, e), batch |-> b,
         sync |-> (p.sync \/ IsMode(e, "SetMode")) /\ ~IsMode(e, "ResetMode"),
         end |-> IF p.sync /\ IsMode(e, "ResetMode") THEN Len(b) ELSE p.end]

-----------------------------------------------------------------------------
(* Broadcasting                                                            *)

Snapshot(delta, desync) ==
    [kind |-> "screen", buf |-> h.s.buf, row |-> h.s.row, col |-> h.s.col,
     mode |-> h.s.mode, len |-> Len(h.top), total |-> h.totalAdded,
     delta |-> delta, desync |-> desync]
TerminalEvents(events) == [kind |-> "events", events |-> events]

IsTransient(e) == e[1] = "Bell"
\* Flush: nothing while a synchronized update is open, unless it grew too
\* long; a snapshot and the bells after it when one has ended; else the batch.
FlushAt(end) ==
    [snapshot |-> TRUE, events |-> SelectSeq(SubSeq(batch, end + 1, Len(batch)), IsTransient)]
Flush ==
    IF syncMode THEN FlushAt(Len(batch))
    ELSE IF syncEnd > 0 THEN FlushAt(syncEnd)
    ELSE [snapshot |-> FALSE, events |-> batch]
Held == syncMode /\ Len(batch) <= SyncMax

\* History rows since the last message the viewer got.
ScrollbackSince(since) ==
    LET from == MaxOf(since, h.firstSeq) - h.firstSeq
    IN  SubSeq(h.top, from + 1, Len(h.top))

Room(l) == Len(l.down) < DownCap
Catchup == Snapshot(<<>>, TRUE)
\* Mutant: what does not fit is dropped and forgotten.
DeliverOrForget(l, msg) ==
    IF Room(l) THEN [l EXCEPT !.down = Append(@, msg), !.last = h.totalAdded] ELSE l
\* deliverFrames: a dropped frame marks the viewer behind; one that lands may
\* be followed by the catchup snapshot that clears the mark.
Deliver(l, msg) ==
    IF ~Room(l) THEN [l EXCEPT !.behind = TRUE]
    ELSE LET sent == [l EXCEPT !.down = Append(@, msg), !.last = h.totalAdded]
         IN  IF l.behind /\ Room(sent)
             THEN [sent EXCEPT !.down = Append(@, Catchup), !.behind = FALSE]
             ELSE sent
DeliverEvents(l, events) ==
    IF events = <<>> THEN l ELSE Deliver(l, TerminalEvents(events))
BroadcastTo(l) ==
    LET f == Flush
    IN  IF ~l.on THEN l
        ELSE DeliverEvents(IF f.snapshot
                           THEN Deliver(l, Snapshot(ScrollbackSince(l.last), FALSE)) ELSE l,
                           f.events)

-----------------------------------------------------------------------------
(* The server                                                              *)

Resizing == link.on /\ \E i \in DOMAIN up : up[i].kind = "resize"
\* Whatever the server says while a resize is on its way is for the old size.
Raced == raced' = (raced \/ Resizing)

Init ==
    /\ h = NewHistoryScreen(Columns, Lines, ServerMax)
    /\ batch = <<>> /\ syncMode = FALSE /\ syncEnd = 0 /\ dirty = FALSE
    /\ printed = 0 /\ left = Outputs
    /\ link = [on |-> FALSE, last |-> 0, behind |-> FALSE, down |-> <<>>]
    /\ serving = <<>> /\ up = <<[kind |-> "subscribe"]>>
    /\ c = NoScreen /\ height = Lines /\ requested = FALSE /\ layer = NoLayer
    /\ shown = TRUE /\ moves = UserSteps
    /\ complete = FALSE /\ raced = FALSE

\* ptyDataMsg feeds what is there; more may follow before the broadcast.
Feed(name) ==
    /\ left > 0
    /\ LET p == FoldLeft(Recorded, [h |-> h, batch |-> batch, sync |-> syncMode, end |-> syncEnd],
                         Events(name))
       IN  h' = p.h /\ batch' = p.batch /\ syncMode' = p.sync /\ syncEnd' = p.end
    /\ dirty' = TRUE /\ left' = left - 1
    /\ printed' = IF name = "print" THEN printed + 1 ELSE printed
    /\ Raced
    /\ UNCHANGED <<link, serving, up, viewerVars>>

Broadcast ==
    /\ dirty /\ dirty' = FALSE
    /\ IF Held THEN UNCHANGED <<batch, syncMode, syncEnd, link>>
       ELSE /\ link' = BroadcastTo(link)
            /\ batch' = <<>> /\ syncMode' = FALSE /\ syncEnd' = 0
    /\ Raced
    /\ UNCHANGED <<h, printed, left, serving, up, viewerVars>>

\* catchupBehindSubscribers: the program is silent, the timer repairs.
CatchupTimer ==
    /\ ~dirty /\ link.on /\ link.behind /\ Room(link)
    /\ link' = [link EXCEPT !.down = Append(@, Catchup), !.behind = FALSE,
                            !.last = h.totalAdded]
    /\ Raced
    /\ UNCHANGED <<programVars, serving, up, viewerVars>>

\* The connection's ReadLoop hands the next request to the actor once the
\* one before it is answered.
Request(kind) ==
    /\ ~dirty /\ serving = <<>> /\ up /= <<>> /\ up[1].kind = kind
    /\ up' = Tail(up)
HandleSubscribe ==
    /\ Request("subscribe")
    /\ link' = [on |-> TRUE, last |-> h.totalAdded, behind |-> link.behind \/ ~Room(link),
                down |-> IF Room(link) THEN Append(link.down, Snapshot(<<>>, FALSE))
                         ELSE link.down]
    /\ Raced
    /\ UNCHANGED <<programVars, serving, viewerVars>>
\* unsubscribeReq and removeSubscriberMsg.
HandleUnsubscribe ==
    /\ Request("unsubscribe")
    /\ link' = [link EXCEPT !.on = FALSE]
    /\ Raced
    /\ UNCHANGED <<programVars, serving, viewerVars>>
\* Meanwhile another region writes to the same client: its frames, which the
\* viewer gives to another tab, take room in writeCh, set the client's mark
\* when they do not fit, and clear it with a catchup of their own.
OtherRegion ==
    /\ ~link.on
    /\ IF Room(link)
       THEN \E mark \in {FALSE, link.behind} :
               link' = [link EXCEPT !.down = Append(@, [kind |-> "other"]), !.behind = mark]
       ELSE link' = [link EXCEPT !.behind = TRUE]
    /\ UNCHANGED <<programVars, serving, up, viewerVars, raced>>
HandleResize ==
    /\ Request("resize")
    /\ h' = HResize(h, up[1].height, Columns)
    /\ UNCHANGED <<batch, syncMode, syncEnd, dirty, printed, left, link, serving, viewerVars, raced>>

\* getScrollback trims each row; handleGetScrollback cuts the history into
\* chunks, the newest first.
Trimmed(row) ==
    LET text == {k \in DOMAIN row : ~Trimmable(row[k])}
    IN  [k \in {j \in DOMAIN row : \E i \in text : j <= i} |-> row[k]]
Chunks(rows) ==
    [i \in 1 .. MaxOf(1, (Len(rows) + ChunkSize - 1) \div ChunkSize) |->
        SubSeq(rows, MaxOf(0, Len(rows) - i * ChunkSize) + 1, Len(rows) - (i - 1) * ChunkSize)]
HandleGetScrollback ==
    /\ Request("scrollback")
    /\ LET rows == [i \in DOMAIN h.top |-> Trimmed(h.top[i])]
           cut  == Chunks(rows)
       IN  serving' = [i \in DOMAIN cut |->
               [kind |-> "chunk", rows |-> cut[i], len |-> Len(rows), total |-> h.totalAdded,
                done |-> i = Len(cut)]]
    /\ raced' = (raced \/ link.last < h.totalAdded)
    /\ UNCHANGED <<programVars, link, viewerVars>>
\* Each reply goes through SendMessage, which drops it when writeCh is full.
SendReply ==
    /\ serving /= <<>> /\ serving' = Tail(serving)
    /\ link' = IF Room(link) THEN [link EXCEPT !.down = Append(@, serving[1])] ELSE link
    /\ UNCHANGED <<programVars, up, viewerVars, raced>>

-----------------------------------------------------------------------------
(* The viewer: messages                                                    *)

\* A continuation, and a cell never written, come back as blanks.
FromCell(cell) == IF cell.d = Cont THEN [cell EXCEPT !.d = Blank] ELSE cell
InitScreenFromCells(s, buf) ==
    [s EXCEPT !.buf = [r \in DOMAIN @ |->
        IF r \in DOMAIN buf
        THEN [k \in DOMAIN @[r] |-> IF k \in DOMAIN buf[r] THEN FromCell(buf[r][k]) ELSE @[r][k]]
        ELSE @[r]]]
\* Rows that events pushed into the old history and the snapshot shows again
\* are cut off; the delta's counter is adopted if it bridges the gap exactly.
KeptHistory(msg) ==
    IF c = NoScreen THEN <<>>
    ELSE IF msg.len > 0 /\ Len(c.top) > msg.len THEN SubSeq(c.top, 1, msg.len) ELSE c.top
KnownTotal == IF c = NoScreen THEN 0 ELSE c.totalAdded
Bridges(msg) ==
    ~msg.desync /\ msg.total > KnownTotal /\ Len(msg.delta) = msg.total - KnownTotal
ScreenFrom(msg) ==
    LET base  == IF Bridges(msg) THEN msg.total ELSE KnownTotal
        fresh == SetTotalAdded(NewHistoryScreen(Columns, height, ClientMax), base)
        kept  == KeptHistory(msg)
        with  == PrependHistory(fresh, kept \o msg.delta)
        named == IF kept /= <<>> THEN SetFirstSeq(with, c.firstSeq) ELSE with
        drawn == Lift(named, InitScreenFromCells(named.s, msg.buf))
        placed == Perform(drawn, <<"CursorPosition", msg.row + 1, msg.col + 1>>)
    IN  [placed EXCEPT !.s.mode = msg.mode]
HandleScreenUpdate(msg) ==
    /\ c' = ScreenFrom(msg)
    /\ requested' = (requested /\ ~msg.desync)
    /\ complete' = (complete /\ ~msg.desync)
    /\ UNCHANGED layer
HandleTerminalEvents(msg) ==
    /\ c' = IF c = NoScreen THEN c ELSE Replay(c, msg.events)
    /\ UNCHANGED <<requested, layer, complete>>

\* Mutant: the response goes on top of the viewer's rows, whatever they are.
MergedOnTop(l, msg) == PrependHistory(c, l.syncBuf)
\* handleSyncChunk, once every chunk is there: a viewer that is behind starts
\* over from the response, any other takes what is older than its own rows.
Merged(l, msg) ==
    LET first == msg.total - Len(l.syncBuf)
        based == IF c.totalAdded < msg.total THEN SetTotalAdded(ResetHistory(c), msg.total) ELSE c
        take  == Clamp(based.firstSeq - first, 0, Len(l.syncBuf))
    IN  IF take > 0 THEN PrependHistory(based, SubSeq(l.syncBuf, 1, take)) ELSE based
JoinedBelow(rows, newer) == newer \o rows      \* mutant
Joined(rows, newer) == rows \o newer           \* chunks come newest first
HandleSyncChunk(msg) ==
    LET l == [layer EXCEPT !.serverTotal = msg.len, !.syncBuf = Joined(msg.rows, @)]
    IN  IF ~msg.done THEN layer' = l /\ UNCHANGED <<c, complete>>
        ELSE IF c = NoScreen THEN layer' = [l EXCEPT !.synced = TRUE] /\ UNCHANGED <<c, complete>>
        ELSE /\ c' = Merged(l, msg)
             /\ layer' = [l EXCEPT !.synced = TRUE, !.syncBuf = <<>>,
                                   !.anchor = c'.totalAdded]
             /\ complete' = (requested /\ Len(l.syncBuf) = msg.len)
Receive ==
    /\ link.down /= <<>> /\ link' = [link EXCEPT !.down = Tail(@)]
    /\ LET msg == link.down[1]
       IN  \/ msg.kind = "screen" /\ HandleScreenUpdate(msg)
           \/ msg.kind = "events" /\ HandleTerminalEvents(msg)
           \/ /\ msg.kind = "chunk"
              /\ IF layer = NoLayer \/ layer.synced THEN UNCHANGED <<c, layer, complete>>
                 ELSE HandleSyncChunk(msg)
              /\ UNCHANGED requested
           \/ msg.kind = "other" /\ UNCHANGED <<c, requested, layer, complete>>
    /\ UNCHANGED <<programVars, serving, up, height, shown, moves, raced>>

-----------------------------------------------------------------------------
(* The viewer: the user                                                    *)

NoAnchor == -1
ScrollbackLines == IF c = NoScreen THEN <<>> ELSE c.top
ScreenRows == IF c = NoScreen THEN <<>> ELSE [r \in 1 .. c.s.lines |-> c.s.buf[r - 1]]
HalfPage == MaxOf(1, height \div 2)

\* scrollbackTotal: until the chunks are here the server's count is believed.
ScrollbackTotal(l) ==
    LET own == Len(ScrollbackLines)
    IN  IF ~l.synced /\ l.serverTotal > own THEN l.serverTotal ELSE own
NotAdvanced(l) == l          \* mutant: the offset is counted from a moving bottom
\* advanceAnchor: output that arrived since pushes the viewport back with it.
Advanced(l) ==
    IF c = NoScreen THEN l
    ELSE IF l.anchor = NoAnchor THEN [l EXCEPT !.anchor = c.totalAdded]
    ELSE [l EXCEPT !.anchor = c.totalAdded,
                   !.offset = IF c.totalAdded > l.anchor /\ @ > 0
                              THEN MinOf(@ + c.totalAdded - l.anchor, ScrollbackTotal(l)) ELSE @]

\* View: gap (rows not loaded yet) | syncBuf | history | screen, a window of
\* the viewport's height that ends offset rows above the bottom.
GapRow == [k \in {0} |-> [d |-> <<"x">>, a |-> PlainAttr]]
AllRows(l) ==
    LET own == Len(l.syncBuf) + Len(ScrollbackLines)
        gap == IF l.synced THEN 0 ELSE MaxOf(0, l.serverTotal - own)
    IN  [i \in 1 .. gap |-> GapRow] \o l.syncBuf \o ScrollbackLines \o ScreenRows
View(asked) ==
    LET l     == Advanced(asked)
        rows  == AllRows(l)
        start == MaxOf(0, Len(rows) - height - MinOf(l.offset, ScrollbackTotal(l)))
    IN  SubSeq(rows, start + 1, start + height)

UserStep == moves > 0 /\ moves' = moves - 1
Ask(request) == up' = Append(up, request)

\* The scroll-up command starts half a page back, the wheel at the bottom.
EnterScrollback(offset) ==
    /\ UserStep /\ layer = NoLayer /\ shown
    /\ offset \in {0, HalfPage} /\ (offset = 0 => c /= NoScreen /\ ~c.s.altActive)
    /\ layer' = [offset |-> offset, serverTotal |-> 0, synced |-> requested, syncBuf |-> <<>>,
                 anchor |-> IF c = NoScreen THEN NoAnchor ELSE c.totalAdded]
    /\ requested' = TRUE
    /\ IF requested THEN UNCHANGED up ELSE Ask([kind |-> "scrollback"])
    /\ UNCHANGED <<programVars, link, serving, c, height, shown, complete, raced>>
Leave ==
    /\ layer /= NoLayer /\ layer' = NoLayer
    /\ UNCHANGED <<programVars, link, serving, up, c, height, requested, shown, complete, raced>>
\* A key or the wheel; scrolling down past the bottom leaves.
Key(name) ==
    LET l   == Advanced(layer)
        max == ScrollbackTotal(layer)
        by  == CASE name = "up" -> MinOf(l.offset + 1, MaxOf(max, l.offset))
                 [] name = "down" -> MaxOf(0, l.offset - 1)
                 [] name = "pgup" -> MinOf(l.offset + HalfPage, max)
                 [] name = "pgdown" -> l.offset - HalfPage
                 [] name = "home" -> max
                 [] name = "end" -> 0
                 [] name = "wheelUp" -> MinOf(l.offset + 3, max)
                 [] name = "wheelDown" -> l.offset - 3
    IN  /\ UserStep /\ layer /= NoLayer
        /\ IF name \in {"pgdown", "wheelDown"} /\ by <= 0 THEN Leave
           ELSE /\ layer' = [l EXCEPT !.offset = by]
                /\ UNCHANGED <<programVars, link, serving, up, c, height, requested, shown, complete, raced>>
Quit == UserStep /\ Leave
Render ==
    /\ layer /= NoLayer /\ layer' = Advanced(layer) /\ layer' /= layer
    /\ UNCHANGED <<programVars, link, serving, up, c, height, requested, shown, moves, complete, raced>>

\* Nothing of this region is on its way; the viewer is subscribed as well.
Still == /\ link.down = <<>> /\ ~link.behind /\ serving = <<>> /\ up = <<>>
         /\ ~dirty /\ batch = <<>> /\ c /= NoScreen
Quiet == Still /\ link.on

\* The window changes size: the copy is resized at once, the server asked.
WindowResize(n) ==
    /\ UserStep /\ n /= height /\ height' = n
    /\ c' = IF c = NoScreen THEN c ELSE HResize(c, n, Columns)
    /\ Ask([kind |-> "resize", height |-> n])
    /\ raced' = (raced \/ ~Still)
    /\ UNCHANGED <<programVars, link, serving, requested, layer, shown, complete>>
\* switchToTab to another tab: Deactivate.
Deactivate ==
    /\ UserStep /\ layer = NoLayer /\ shown
    /\ shown' = FALSE
    /\ Ask([kind |-> "unsubscribe"])
    /\ UNCHANGED <<programVars, link, serving, c, height, requested, layer, complete, raced>>
\* switchToTab back to this one: Activate.
Activate ==
    /\ ~shown /\ shown' = TRUE
    /\ requested' = FALSE /\ complete' = FALSE
    /\ up' = up \o <<[kind |-> "subscribe"], [kind |-> "resize", height |-> height]>>
    /\ UNCHANGED <<programVars, link, serving, c, height, layer, moves, raced>>

Done == left = 0 /\ moves = 0 /\ Quiet /\ layer = NoLayer /\ UNCHANGED vars

Next ==
    \/ \E name \in Programs : Feed(name)
    \/ Broadcast \/ CatchupTimer \/ SendReply
    \/ HandleSubscribe \/ HandleUnsubscribe \/ OtherRegion \/ HandleResize \/ HandleGetScrollback
    \/ Receive \/ Render
    \/ \E offset \in {0, HalfPage} : EnterScrollback(offset)
    \/ \E name \in {"up", "down", "pgup", "pgdown", "home", "end", "wheelUp", "wheelDown"} : Key(name)
    \/ Quit
    \/ \E n \in Heights : WindowResize(n)
    \/ Deactivate \/ Activate \/ Done
Spec == Init /\ [][Next]_vars

-----------------------------------------------------------------------------
(* Properties                                                              *)

Mark(row) == IF row = <<>> \/ DOMAIN row = {} THEN " " ELSE row[0].d[1]
Marks(rows) == [i \in DOMAIN rows |-> Mark(rows[i])]
Numbers(rows) == SelectSeq(Marks(rows), LAMBDA m : m /= " ")
Number(m) == CHOOSE k \in 1 .. 9 : Digit(k) = m

\* When nothing is under way the viewer shows the region's screen, whatever was
\* dropped, replaced by a snapshot or repaired on the way (handleScreenUpdate,
\* replayEvents, deliverFrames).
ScreenMirrored ==
    Quiet /\ ~raced =>
        /\ Display(c.s) = Display(h.s) /\ c.s.mode = h.s.mode
        /\ c.s.row = h.s.row /\ c.s.col = MinOf(h.s.col, Columns - 1)

\* Scrolling back shows the printed lines in order and none twice, although
\* events, snapshots, deltas and fetched chunks all bring rows (handleScreenUpdate
\* trims "to avoid duplicates at the history/screen boundary").
NoDoubledRows ==
    Quiet /\ ~raced =>
        LET lines == Numbers(ScrollbackLines \o ScreenRows)
        IN  \A i \in 1 .. Len(lines) - 1 : Number(lines[i]) < Number(lines[i + 1])

\* The viewer's rows are numbered without a gap below them.
Contiguous == c.totalAdded - c.firstSeq = Len(c.top)

\* After a fetch was merged and nothing was lost since, the viewer has every
\* row of scrollback the server has, as far as its own limit allows, however
\* many scrolled off while another tab was shown.  Two exceptions: its count
\* of rows never met the server's (handleSyncChunk compares the two although a
\* viewer that joined late counts from its own start), and a snapshot came
\* while it kept more rows than the server, and cut its newest
\* (handleScreenUpdate takes the surplus for rows of the screen).
HistoryComplete ==
    Quiet /\ ~raced /\ complete /\ c /= NoScreen /\ c.totalAdded = h.totalAdded /\ Contiguous =>
        LET n == MinOf(Len(h.top), ClientMax)
        IN  /\ Len(c.top) >= n
            /\ Marks(SubSeq(c.top, Len(c.top) - n + 1, Len(c.top)))
                   = Marks(SubSeq(h.top, Len(h.top) - n + 1, Len(h.top)))

\* The rows of history at the top of what layer l shows.
HistoryInView(l) ==
    LET rows == AllRows(Advanced(l))
        start == MaxOf(0, Len(rows) - height - MinOf(Advanced(l).offset, ScrollbackTotal(l)))
    IN  SubSeq(Marks(View(l)), 1, MinOf(height, Len(ScrollbackLines) - start))

\* While the user is scrolled back, output that arrives does not move what is
\* on the screen: the rows of history in view stay where they are, unless the
\* program clears them or the viewer's full history drops them (advanceAnchor,
\* from the first time the screen is drawn).
ViewPinned ==
    [][(Receive /\ layer /= NoLayer /\ layer.synced /\ layer.offset > 0 /\ c /= NoScreen
          /\ layer.anchor /= NoAnchor
          /\ ~raced /\ Len(c'.top) >= Len(c.top) /\ Len(c.top) + c'.totalAdded - c.totalAdded <= ClientMax)
          => IsPrefix(HistoryInView(layer), Marks(View(layer)'))]_vars
=============================================================================
