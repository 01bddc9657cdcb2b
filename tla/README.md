# nxterm in TLA+

A verification development of nxterm: the server `nxtermd`, the terminal client
`nxterm`, and the three libraries the two are built on (the terminal emulator
`pkg/te`, the renderer and reader `pkg/ultraviolet`, the event loop
`pkg/bubbletea`). TLC checks the modules on small instances; TLAPS proves the
safety of the server's core, of the tree's replication, of delivery to slow clients, of
the live upgrade, of the terminal emulator, of the client's event loop and of its program
for every value of their constants.

Paths are relative to the repository's `src/` (`internal/server/...`).

## 1. The system

`nxtermd` runs programs in *regions* (a PTY with a terminal emulator, or a
*native* region drawn by a client) and lets any number of clients watch them,
type into them and draw *overlays* over them. Regions are grouped in *sessions*;
the TUI shows a session as a row of tabs. A byte passes through this system
twice, and most of it is modelled:

```
 program -> PTY -> readLoop -> emulator -> event proxy -> writeCh ~> viewer's screen -> renderer -> user's terminal
            PtyStream   Stream, Screen,    Mirror     SlowClient,  Mirror            Renderer,     OuterTerminal
                        History, Terminal             TreeSync                       CursedRenderer
 user's terminal -> rawio, key bindings -> layer: TeaReader, TeaDecoder
                    Input, Keys         -> region: input message
```

### Components

| Component | State | Operations | Hard part | Correct when |
|---|---|---|---|---|
| Server tree (`server/tree.go`) | regions, sessions, clients, programs, upgrade, version | mutators in a transaction, `CommitTx`, `Snapshot` | the operations sent must reproduce every mutation | a copy that applies them is a tree the server committed |
| Event loop (`server_requests.go`, `server.go`) | tree, `subscriptions`, `clientOverlays`, `regionOverlays` | one request at a time from a FIFO channel | handlers block on actors | maps agree with tree and actors; it always returns |
| Region actors (`actor.go`, `region.go`, `native_region.go`) | screen, subscribers, overlay, timers | messages from a bounded mailbox | an actor's end races all that is sent to it | output goes to exactly the subscribers the loop means |
| Backends (`pty_backend.go`, `native_backend.go`) | PTY, child, carry | `readLoop`, `waitLoop`, `Feed`, `Kill` | reads cut sequences anywhere; the end is reported once | cuts make no difference; an ended region is reclaimed |
| Client connection (`client.go`) | `writeCh`, `behind` | `SendFrame`, `sendReply`, `writeLoop` | drops, deadline, disconnect | in sync, or marked and repaired, or closed |
| Live upgrade (`upgrade.go`, `upgrade_recv.go`) | phase, parked loop, stopped actors, new process | `HandleUpgrade`, `RecvUpgrade`, rollback | two processes, one PTY; failure anywhere | hands over everything, or leaves the old server as it was |
| Event proxy (`event_proxy.go`) | batch, mode 2026, held snapshot | recording, `Flush` | what a snapshot replaces | nothing lost or doubled across a synchronized update |
| Emulator (`pkg/te`) | screen, alternate screen, history, parser | some seventy operations | margins, wide characters, resizes, two buffers | never panics; keeps what a shell printed |
| Tree store (`tui/tree.go`) | the viewer's copy, its version | `HandleSnapshot`, `HandleEvents` | gaps, reconnects, new servers | moves forward through committed trees |
| TUI terminal (`tui/terminal.go`, `scrollback.go`) | copy of the screen, history, view | updates, events, fetches, scrolling | four sources of the same rows | each row once, in order, in place |
| Sessions and tabs (`tui/session.go`) | tabs, active tab, pending spawn | tree events, keys, replies | the tree may change anything meanwhile | what is shown is served, and is what was chosen |
| Tasks (`pkg/layer/task.go`, `tui/task.go`, `upgrade.go`) | tasks, filters, pending replies | calls, deliveries, cancellation | replies late, never, or after a reconnect | each request ends |
| Main loop (`tui/mainlayer.go`, `server.go`) | connection, loop, reconnect | select among its channels | a connection lost at any step | it gets on |
| Input (`tui/rawio.go`, `mainlayer.go`) | parser tail, chord, paste, timers | reads of up to 4 KiB, ESC time-out | cuts, chords, pastes, reports | nothing lost, in order, a paste literally |
| Reader (`ultraviolet/terminal_reader.go`, `decoder.go`) | buffer, paste, table | scan, time-out | cuts | cuts make no difference |
| Renderer (`ultraviolet/terminal_renderer.go`, `bubbletea/cursed_renderer.go`) | what it thinks is shown, pen, modes | `Render`, `Resize`, `flush`, `close` | it never sees the terminal it draws on | the terminal shows the view |
| Program (`bubbletea/tea.go`) | goroutines, context, channels without buffer | commands, batches, sequences, panics, signals | who waits for whom on the way down | order, an end, nothing drawn afterwards |

Protocol encoding, transports, configuration, discovery, command line tools, GUI
clients and the `nx2` broker are in section 7.

### How they interact

* Clients' `ReadLoop` goroutines turn messages into requests on one FIFO channel;
  the event loop handles one at a time, commits the tree transaction and sends
  its operations to every client.
* The event loop talks to an actor only through its mailbox. Removals are fire and
  forget; adding a subscriber and registering an overlay wait for the answer.
  Every such send also selects on `actorDone`.
* An actor sends frames straight into each subscriber's `writeCh` and never
  waits; `writeLoop` takes them out. Replies and tree events share that queue.
* When a program ends its actor stops and a goroutine of its own asks the event
  loop to destroy the region. An upgrade parks the event loop inside a request.
* In the client one goroutine runs everything: `NxtermModel.Run` selects among raw
  input, the server's messages, the connection's life and bubbletea's messages, which
  also bring the tasks' calls. Tasks, commands, signals and dials are goroutines that
  meet it on channels without buffers.

## 2. Modules

| Module | Models | Composes |
|---|---|---|
| `ServerTree` | tree mutators, handlers as transactions, the client's interpreter of operations | |
| `TreeReplica` | the promise of tree replication (abstract specification) | |
| `TreeSync` | commit and broadcast, `writeCh`, the viewer's store, reconnects, a replaced server | `ServerTree`; implements `TreeReplica` |
| `ServerCore` | event loop and actors: clients, regions, subscriptions, overlays | |
| `SlowClient` | one client's `writeCh`, `behind`, catchup, circuit breaker | |
| `Upgrade` | old and new process through a live upgrade and its rollback | |
| `Screen` | the screen's operations, one operator per method, on a record | |
| `History` | `HistoryScreen` over `Screen`; dispatch of operations and of replayed events | `Screen` |
| `Stream` | the parser: bytes to operations | |
| `Terminal` | an emulator through its life: operations, resizes, live upgrades | `History` |
| `PtyStream` | reads, carry, parser | `Stream` |
| `Mirror` | a region's emulator, event proxy and frames, and the viewer's screen and scrollback | `History` |
| `Keys`, `Input` | what the TUI finds in its input, and where each byte goes | `TeaReader` |
| `TeaDecoder`, `TeaReader`, `TeaStream` | the grammar, the reader's buffer, the reader by itself | |
| `Tabs`, `Tasks` | a session's tabs; the task runner (records and operators) | |
| `ClientLoop` | the client's event loop, its connection, the server's side of it, another client | `Tabs`, `Tasks` |
| `OuterTerminal` | the user's terminal as the renderer takes it to be (external) | |
| `Renderer` | `TerminalRenderer`: the transformation of a screen into another | `OuterTerminal` |
| `CursedRenderer` | views, frames, modes, resizes, close | `Renderer` |
| `Styles` | colours and attributes through five pens | |
| `Program` | bubbletea's goroutines and `NxtermModel.Run` | |
| `ServerCoreProofs`, `UpgradeProofs`, `TreeSyncProofs`, `ClientLoopProofs` | inductive invariants and theorems | the module of the same name |
| `OutputProofs` | inductive invariants and theorems | `PtyStream`, `SlowClient` |
| `TuiProofs` | inductive invariants and theorems | `Program`, `Styles` |
| `EmulatorProofs` | the emulator's invariant, a lemma per operation, theorems | `Terminal` |
| `FoldLaws` | what the community modules' fold over a sequence computes | used by `OutputProofs`, `TreeSyncProofs`, `ClientLoopProofs`, `EmulatorProofs`, `TuiProofs` |
| `MC*` | instances for TLC | |

### Correspondence

**ServerTree.** Go maps are functions whose domain is the key set. A transaction is a
record of the tree and the operations so far; each mutator returns the next, so a
handler reads as the composition of the mutators it calls. Display fields travel
in the same node and are left out.
`ApplyOp` is the viewer's interpreter: it splits a path at its slashes, so an operation on a session or
program with a slash in its name (`Slashed`) changes nothing (`Recognised`). `Plain` is what a tree says
of all the others.

**TreeSync.** `Commit` is `commitAndBroadcast`: no operation, no version. `Connect`
queues identify, the snapshot, and the commit of `AddClient`; whether `writeLoop`
has taken identify by then decides whether a small queue drops the snapshot.
`SendMessage` drops when `writeCh` is full. `LoseConnection` keeps the store, as
the TUI does; `ReplaceServer` is a new tree at version 0. `history` and `epoch`
are history variables, `setup` chooses the kind of run.

**ServerCore.** A handler without a send to an actor is one action; one with sends is
split at each, and `loop` says where it is: subscribing, registering an overlay, removing a
client, and asking for the length of a region's scrollback, which `SetRegion` does for each spawn and
resize and `getRegionInfosReq` for each region it lists. Goroutines that wait for the event
loop have no state beyond what they owe it (`closing`, `starting`, `destroying`,
`reporting`). `ActorExit` is `childExitedMsg`: mailbox, subscribers and overlay are
never read again.

**SlowClient.** A screen is the number of batches it was fed, a frame leads from one
screen to another, and one applied to any other screen tears it. `Deliver` is
`deliverFrames`, `Repair` `catchupBehindSubscribers`, `Arm` the end of every turn
of the actor. The flag `behind` is the client's, the timers are the actors';
`catchupArmed` and the timer are two variables because `run` stops the timer for an
upgrade and nothing resets the flag. `expired` abstracts time.

**Upgrade.** `pc` is `HandleUpgrade`'s position, `child` that of `RecvUpgrade`. A
chunk goes from `kernel[r]` through `readLoop` (`hand`, or `carry` while a
sequence is incomplete) and the mailbox to the screen. `Stop` waits two seconds for `readLoop`; a `Slow`
region's may go on after that (`outlived`), after a rollback beside the one `ResumeReader` starts (`stray`). A send
fails when the new process is gone; the wait for "ready" can end at any moment, also after it was
sent.

**Emulator.** A screen is a record of cells, cursor, margins, modes and maps, with
Go's nil maps and missing keys kept apart from empty ones, since that is where it
panics. `History` overrides what `HistoryScreen` overrides; what reaches the
embedded `Screen` directly (Draw's wrap) stays there. `Perform` is the dispatch
of parsed operations, `Replay` that of `replayEvents`. `Stream` has one state per state of the
parser's coroutine. Characters are a small set with the widths that matter: narrow,
wide, combining.

**Mirror.** The actor's emulator, `EventProxy` (`batch`, synchronized mode, held
snapshot), one client's `writeCh` and the viewer's own `HistoryScreen`, fed by
`replayEvents`. Lines carry numbers, so that a lost, doubled or displaced row is
seen. `Flush`, `handleScreenUpdate`, the chunks of a scrollback answer,
`mergeScrollback` and the anchor of a scrolled view are actions or operators under their own names.
`Deactivate` unsubscribes when another tab is shown and `Activate` subscribes again; in between the
region prints on and another region's frames share the queue and the mark (`OtherRegion`).

**Input.** A text is a sequence of units that stand for a key, ESC, a byte of a
sequence, a marker; reads cut it anywhere; each unit is logged where it ends
(`log`). The prefix key, chords, the queued remainder, pastes, the palette and the
escape time of bubbletea's reader are the code's. `p` marks what is inside a paste.

**Reader.** `TeaDecoder` splits a buffer by the grammar of `DecodeSequence`;
`TeaReader` is `scanEvents` with its table of keys, time-out and bracketed paste.

**Client.** `Tabs` and `Tasks` are records with one operator per method. `ClientLoop`
has the loop (`loop`, `ui`, `tk`), what the runner's commands bring back to it (`tk.commands`),
the connection (`net`), the server as far as it answers this client (`srv`) and another client that spawns, kills and connects.

**Renderer.** `OuterTerminal` is an xterm: cells, cursor with its phantom column,
scroll region, the erase and edit commands. `Renderer` is ultraviolet's: the
choice among the costs of moves, erasing, repeating and shifting, `transformLine`,
the scroll optimization by hashes, `clearUpdate`; it is given the same lengths as
the escape sequences. `CursedRenderer` adds frames, modes, titles, resizes and the way out.

**Styles.** One cell's colours and attributes along the whole path: the program's SGR,
the server's emulator, the events or the cell of a snapshot, the viewer's
emulator, the line it prints, `ReadStyle`, the renderer's `StyleDiff`, the user's
terminal.

**Program.** `loop` is the event loop's position, `g` the other goroutines, `jobs`
the running commands as trees of messages with what must come before, `down` the
way of `shutdown`, `term` what is drawn and whether the terminal is the program's.

## 3. Properties and runs

Eleven runs pass; one is expected to find a counterexample. `CHECK_DEADLOCK FALSE`
is set everywhere: IDs are used once, and versions, output, attempts, keys and
faults are bounded, so each instance comes to an end of its work. States are
distinct states.

| Run | Checks | Bounds | States |
|---|---|---|---|
| `MCTreeSync` | `CopyMovesForward` (implements `TreeReplica`), `Converges` | three setups: queue of 2, 2 connections, 1 region, 3 versions, a replaced server, 1 resync; queue of 7, 1 connection, 2 regions, 4 versions, 1 frame; queue of 3, 2 connections, 2 regions, 3 versions, a session and a program with a slash in their names beside ones without | 1,117,509 |
| `MCServerCore` | `SubscriptionsLive`, `SubscribersAgree`, `OverlaysAgree` | 2 clients (symmetric), a PTY and a native region, mailboxes of 2, two messages in them at most (`FewMessages`) | 2,903,539 |
| `MCServerLive` | `LoopReturns`, `RegionReclaimed` | 2 clients, 1 region of either kind that prints, mailbox of 1 | 25,641 |
| `MCSlowClient` | `InSyncOrBehind`, `Repaired` | 1 region, queue of 3, 5 batches, 3 moves, 1 rollback | 243,789 |
| `MCUpgrade` | `SnapshotConsistent`, `SingleReader`, `RequestsKept`, `UpgradeEnds` | 2 regions, one `Slow`, 2 attempts, 1 chunk per region, 1 request, mailbox of 1 | 795,357 |
| `MCEmulator` | `PanicCauses`, `ShellLinesKept`, `DrawKeepsPairs`, `RowsKeepTheirNumber`, `UpgradeKeepsScreen`, `ChunksDoNotMatter` | 3x3 screen, 3 rows of history, sizes 2x3, 3x3, 3x2, 1x4; nine families of operations, 5 to 9 steps; for the parser alphabets of 4 and 5 raw bytes, words of up to 9, reads of 8, carry of 5 | 1,543,201 |
| `MCMirror` | `ScreenMirrored`, `NoDoubledRows`, `HistoryComplete`, `ViewPinned` | 2x1 window, heights 1 and 2, 3 outputs, 2 steps of the user, history of 2 (server) and 3 (client), queue of 2, chunks of 1 row, another region's frame at the head of the queue only (`OtherFirst`) | 2,219,025 |
| `MCCursedRenderer` | `Shown`, `ModesGivenBack`, `StylesArrive` | windows of 3x1, 2x5, 3x2, one change; all rows of 3 cells over 4 letters, wide rows, lists that scroll; six families of SGR codes | 75,436 |
| `MCInput` | `NothingLost`, `InOrder`, `PasteLiteral`, `AckAfterInput`, `CutsDoNotMatter` | 15 gestures in pairs, 1 time-out, queues of 1; for the reader about 70 sequences in pairs and inside pastes | 1,387,868 |
| `MCClient` | `VisibleServed`, `VisibleIsChosen`, `SessionCreatedOnce`, `RequestsEnd` | six starts, each with budgets for keys, tabs, exits, breaks, restarts, dials, checks, upgrades; 4 regions | 623,291 |
| `MCProgram` | `SequenceInOrder`, `NothingAfterRestore`, `StopReturns`, `HandleReturns`, `ChangesShown` | six loads: nested batches and sequences, panics in a command, in View and in the loop, signals, a dial, the log | 326,334 |
| `MCProgramDial` | `DialEnds` is violated | the load with a dial | |

What they show, and why the bounds are enough:

* **Tree.** Whatever `writeCh` drops and wherever connections break, the viewer's copy
  is a tree the server committed, never a mixture, and moves only forward; a session or program
  with a slash in its name it knows from snapshots alone (section 6). Two
  connections and one replacement are what a stale store needs to meet a new
  server's numbering; three versions let an old one meet the same new one.
* **Core.** The hard invariant is `SubscribersAgree`: what an actor *will* have as
  subscribers, once it has taken what is in its mailbox, is exactly what the event
  loop has recorded. Two clients and two regions let a move between regions race
  another client's; two messages under way fill a mailbox or race between two; the
  theorems lift both bounds. A mailbox of one place makes every wait happen, those for the
  length of a scrollback too (`LoopReturns`).
* **Slow clients.** A drop is always noticed and leads to a repair or a disconnect, as
  long as one region is watched, writes succeed and no upgrade was rolled back.
* **Upgrade.** An upgrade ends, in a handover or a complete rollback. Two attempts, so
  that a rolled back server is upgraded again. No two processes read one PTY, but through a
  `readLoop` that outlived the two seconds its actor waited for it.
* **Emulator.** On three by three cells every margin, tab stop, wide character and wrap
  meets an edge within a few steps; nine families keep operations that interact
  together (margins with scrolling, alternate screen with resizes). The operations panic
  for three reasons only, all named in `PanicCauses`; what a shell prints stays, in order
  and once, on screen or in history, through resizes and upgrades; a row of history
  keeps its number, on which the viewer's merges rest; how reads cut the bytes makes no
  difference.
* **Mirror.** Three outputs on a screen of one or two rows fill the history, overflow a
  queue of two and cross a fetch; two steps of the user are a scroll and a resize or
  another tab and back, with whatever scrolled off meanwhile. At rest the screens are equal, and
  scrolling back shows each row once.
* **Renderer.** A transformation looks at one row, or at hashes of rows, so all pairs of
  rows of three cells and of short lists meet every choice: erase to either end, shift,
  repeat, wide characters at the edge, scroll up and down. The families of `Styles` hold
  the attributes that share a reset code (bold and faint, the underlines) and the three
  kinds of colours.
* **Input.** A pair of gestures brings each (key, chord, paste, report, kitty key) before
  and after each, and reads cut both in every way, with the escape time running out in
  the middle. Nothing is lost or reordered outside the cases section 6 lists.
* **Client.** At rest the client receives the output of the region it shows and of no
  other, at the size of its window, and shows what the user chose, through broken
  connections, restarted and replaced servers and another client's tabs. Every request
  of a dialog ends, but for the two cases section 6 lists (`Orphan`): a sixth start has a dialog's request under
  way when the connect overlay's new connection takes over.
* **Program.** Messages keep their order through nested batches and sequences; a
  shutdown begun anywhere ends and nothing is drawn after it; a changed view is shown. A
  successful dial changes the view and renders nothing (`mainlayer.go:963`); the change is shown because the
  task of `CheckForUpgrades` (345), or the second dial (`connectFn`), sends the loop a message.

### A statement the code does not keep

`MCProgramDial`: `connectOverlay` dials on the goroutine of the event loop. When the
dial fails, its `program.Send(ConnectErrorMsg{...})` (`internal/tui/mainlayer.go:942`)
offers the message on a channel without a buffer that only this goroutine receives
from, and waits for ever; a password prompt does the same. `ui_prompter.go:11-16`
says of the prompter that it is "used for any dial that happens after bubbletea has taken
over the terminal", the connect overlay's among them.

## 4. Fairness

* *Server*: event loop, actors, `writeLoop`, the viewer, `HandleUpgrade`,
  `RecvUpgrade` are goroutines that take a step when they can (WF). Go channels serve
  blocked senders in FIFO order, so a request that was sent is handled and a send to a
  live actor succeeds although each is disabled again and again (SF on `HandleSpawn`,
  `HandleDestroy`, `RemoveClient`, `LoopSteps`, `ReportKill`, `HandleUpgrade`).
* *A write* ends, well or badly, within its deadline of five seconds (WF on
  `WriteLoop \/ WriteLoopFailed`); *pending timers* fire.
* *Client* (`ClientLoop`): WF on `System`, the disjunction of the server, the connection,
  the event loop and the tasks. `Program`: WF on the disjunction of all goroutines' steps.
  Both are weaker than fairness of each, and finite work makes them enough.
* Nothing makes a client connect, ask, read or leave, a program print or end, a user
  type, a signal arrive, an upgrade start, fail or time out.

## 5. Proofs

`ServerCoreProofs`: for any sets of clients and regions and any mailbox capacity of at
least one (`ServerCoreAssumption`).

| Theorem | Statement |
|---|---|
| `Invariance` | `Spec => []IndInv` |
| `TypeCorrect` | `Spec => []TypeOK` |
| `SubscriptionsAreLive` | `Spec => []SubscriptionsLive` |
| `SubscribersAlwaysAgree` | `Spec => []SubscribersAgree` |
| `OverlaysAlwaysAgree` | `Spec => []OverlaysAgree` |

`IndInv` adds two parts to what the runs check. `LoopOK` ties the event loop's
position to the rest: in the middle of subscribing or registering, the client is in
the tree and the region exists; in the middle of a removal, the client is closing and,
after the first step, no longer subscribed. `RegionOK` follows a region's life: an
actor that was never started has an empty mailbox, no subscribers and no overlay and
is neither in the tree nor on its way there, and an actor whose region is to be
destroyed has stopped. The argument about mailboxes is in `After`: a fact about an actor's future
is decided by the last message about it in the mailbox, or by the present if there is none.
`AfterAppend` and `AfterTail` say what sending and taking do to such a fact;
`KeepWill`, `AppendWill`, `SendWill` and `TakeWill` lift them to actors. Each part
has a lemma of its own with one step per action.

`UpgradeProofs`: for any regions, any mailbox capacity of at least one and any number
of attempts, requests and chunks (`UpgradeAssumption`).

| Theorem | Statement |
|---|---|
| `SnapshotAlwaysConsistent` | `Spec => []SnapshotConsistent` |
| `ReadersNeverOverlap` | `Spec => []SingleReader` (two processes read one PTY in the rollback only, or through a `readLoop` that outlived its actor) |
| `RequestsAlwaysKept` | `Spec => RequestsKept` (an action property) |

Its `IndInv` adds `ActorsStopped` (from `buildUpgradeState` to the end of the handoff
every actor is stopped, so nothing feeds a screen, and has no `readLoop` unless it gave up on it) and
`ChildFollows` (while `handoff_complete` has not been sent it is not on the socket
either, so `RecvUpgrade` cannot be past it).

`TuiProofs`, about `Program`: for any messages, any commands however batches and sequences are
nested, any number of keys, signals and dials (`MessagesAssumption`,
`LoadsAssumption`, `DialsAssumption`).

| Theorem | Statement |
|---|---|
| `SequencesInOrder` | `Spec => []SequenceInOrder` |
| `NothingDrawnAfterRestore` | `Spec => []NothingAfterRestore` |

Neither is inductive. `NothingLost` is what `SequenceInOrder` needs: while the
context lives, every message of a running command that is no longer left to do was handled, so what a
message must wait for, and no longer does, has been. `TickerFirst` is what
`NothingAfterRestore` needs: the ticker is gone before the shutdown's last flush, and
after it the renderer is closed.

`TuiProofs`, about `Styles`: for any set of SGR parameters (`Families`), with no assumption.

| Theorem | Statement |
|---|---|
| `StylesAlwaysArrive` | `StyleSpec => []StylesArrive` |

The invariant (`StylesInv`) goes along the line of pens: the region's screen agrees with a terminal that reads the
program (`Agree`), up to the default colours that te names; what `ReadStyle` knows of the line is the
cell `sgrTransition` wrote last (`Told`); and each later pen only looks like the pen after it (`StyleEqual`),
because equal colours of different kinds are never sent again. What a writer means by its codes is a
fact about folds: reading the codes chosen from a list adds, or takes, what each of them
stands for, in any order (`MarkAll`, `UnmarkAll`). `SgrSays` then is set algebra: what no code of
`sgrTransition` undoes alone is reset. So is `DiffSays`: among what an end takes, `StyleDiff`
sets again exactly what is to stay (`DiffAttributes`). `ReadAlike` keeps the last step honest: every code
of `StyleDiff` means to the user's terminal what it means to `ReadStyle`, which 53 and 21 do not.
`AgreeReads` covers any parameter, known to a reader or not.

`FoldLaws`: `FoldLeft` of `SequencesExt` is defined by recursion over sets, and the library's
induction theorems take an operator as a parameter, which no installed prover can
instantiate. The operation is therefore a CONSTANT of this module, `Op(_, _, _)`, which an
`INSTANCE ... WITH` gives its value. `GreatestIs` and `IterExists` establish that the
recursion has a result, from an induction over sets of numbers (`SetInduction`). That such an induction is
sound (`Induction`) is an assumption of these lemmas; each module that cites them proves it
(`NaturalInduction`, in `TuiProofs` `StyleInduction`, from the library's theorems on well-founded relations);
`FoldEmpty`, `FoldAppend`, `FoldSingle`, `FoldHead`, `FoldConcat` and `FoldStaysIn` are the laws the other modules cite;
`FoldWithin` is for an invariant that is no set: the results of a fold lie in a set that any
step of `Op` stays in, so what each step keeps, the fold keeps.

`OutputProofs`, the slow client: for any regions, any queue capacity and any number of outputs, moves,
failed writes and failed upgrades.

| Theorem | Statement |
|---|---|
| `NoDropUnmarked` | `Spec /\ []OneWhenBehind => []InSyncOrBehind` |
| `BehindHasTimer` | `Spec /\ []OneWhenBehind => []RepairPending` |

The invariant says of each region what its copy will be when the queue has been read, a
fold of `Apply` over the queue; a frame sent appends to the fold (`FoldAppend`), a frame read
takes its head (`FoldHead`), and frames of other regions change nothing. `OneWhenBehind`
(a client that is behind has one region) is needed and not always true: `behind` is the
client's flag, so while an old region has not yet taken its removal, a repair by one actor clears the mark
another actor set (`actor.go:662`, section 6). A client that keeps up may be the
subscriber of any number of actors.

`OutputProofs`, the parser: for words over any bytes, of any number and length, reads of any size, a
carry of any size, and both readers (`readLoop` with its carry, termcore without).

| Theorem | Statement |
|---|---|
| `ChunksNeverMatter` | `PtySpec => []ChunksDoNotMatter` |

The invariant (`PtyInv`): the input is what the emulator was fed, the carry and what the kernel still
has; and the parser is the `Same` as one that was fed all of it in one call (`Heard`), i.e. once the text
not drawn yet is drawn, both go on alike and have made the same calls. Its step is `FeedMore`: two
calls of `FeedBytes` do what one does. They differ at the seam in three ways, each with a lemma: the
text under way is drawn at the end of the first call (so runs of text count rune by rune, `OneMoreCall`);
half a rune waits in `pendingBytes`, with UTF-8 on; a `'` sees no next byte and ends its sequence.
The last two are why `readLoop` holds sequences back, and why the proof relates two parsers:
`CutFacts` shows that a seam inside a rune or behind a `'` is one of the two cuts the property
names, since elsewhere `DecodeSequence` is still inside an item when the emulator's parser is. `DecodeEnds`, `WholeEnds` and
`SafeEnds` say what is at the end of a cut (`Boundary`, `Sealed`), from which the next read's is found
(`BoundaryShift`). What the theorem excepts is what the code does not prevent: `CutAtQuote`, a `'`
that `readLoop` does not keep, because of the carry's limit, in nx2, or where its decoder ends a control
sequence that the emulator goes on with (a BEL, or an intermediate before a parameter); and `CutAtRune`,
a rune cut with UTF-8 off in the same places. Without either exception the statement is false, and TLC finds the cut.

`TreeSyncProofs`: for any clients, sessions and programs, any number of connections, versions, resyncs
and servers.

| Theorem | Statement |
|---|---|
| `ReplicaImplemented` | `RoomToGreet => (Spec => CopyMovesForward)` |
| `CopyCommitted` | `RoomToGreet => (Spec => []CopyIsCommitted)` |

`CopyMovesForward` is the refinement of `TreeReplica`, whose trees are compared in what they say of names
without a slash (`Says <- Plain`): each step of the server, of the
connection and of the store is a step of the abstract replica or a stutter. It rests on
two facts. The operations of a commit, folded over the tree it began from with the client's own
interpreter, are the tree it ends with, up to those names: one lemma per mutator and per handler of
`ServerTree`. And what is on its way, in `writeCh` and on the wire, is of one server and of versions that
never fall, a snapshot comes before the first operations, and the operations of each version are what
leads from the committed tree before it to its own. `RoomToGreet` is a
`writeCh` of two places or more; the code has 64. With one place each connection's snapshot is dropped.

`ClientLoopProofs`: for any sets of regions and sessions, any window sizes and any
budgets of every kind (`ClientAssumption`).

| Theorem | Statement |
|---|---|
| `CreatedByOne` | `Spec => []SessionCreatedOnce` |
| `ChosenIsShown` | `Spec => []VisibleIsChosen` |
| `ShownIsServed` | `Spec /\ []NeverFull => []VisibleServed` |

The inductive invariant has two halves. `Base` holds in every behaviour: what may be in each
queue (`PostedOK`, `InboundOK`), one creator of a session (`CreatedOnce`), and that the
tab shown is the one chosen, except while a spawn's answer or a tree that has the region
is still to come (`SessionOK`, `ChosenOK`). `Flow` is about requests that are on their way. Its centre is `Will`: what the server
will have, once it has read everything, is decided by the last request about it in the
queue, or by the present if there is none. `ServedOK` says that what the server will
send is the output of the region shown, at the size the client wants; `KnownStay` says that a
region the client has seen and that lives is in every tree still to come, without which
a late tree could take a tab away and leave its subscription. `Kinds` sorts the steps
of `Next` into ten kinds, so that each part of the invariant has one step per kind.
`NeverFull` says that fewer than `OutCap` messages wait in `Server`'s channel. It is needed:
`Send` drops a message when 64 wait (`internal/tui/server.go`), and a lost subscribe is not sent again.
With the code's 64 it holds in every state of `MCClient`; with 2 TLC finds `VisibleServed` violated.

`EmulatorProofs`: for every size of the screen and of the history, any sizes a resize may ask
for, any number of steps and any of the families (`TerminalAssumption`).

| Theorem | Statement |
|---|---|
| `ScreenWellFormed` | `Spec => []Invariant` |
| `PanicsHaveCauses` | `Spec => []PanicCauses` |
| `HistoryNumbered` | `Spec => RowsKeepTheirNumber` (an action property) |
| `UpgradeTransfersScreen` | `Spec => UpgradeKeepsScreen` (an action property) |
| `DrawnPairsIntact` | `Spec => DrawKeepsPairs` (an action property) |
| `ShellKept` | `TwoColumns => (Spec => []ShellLinesKept)` |

`PanicCauses` needs the whole shape of the screen: an index is in range because the two buffers
have the screen's size, the margins and the cursor's row lie on it, and the left margin is not right of the
right one. That is `ScreenOK`; `Invariant` adds that a panic has a `Cause` and that the rows of history are
numbered without a gap (`TopOK`). The code's methods are some seventy operators, and each has a
lemma that says which of four promises it keeps: `Calm` (a well-formed screen, no panic), `Steady` (and
the size, modes and margins as they were), `Shifted` (panics with a stale right margin only), `Fine`
(panics with a `Cause` only). An operation made of others follows from their lemmas, a loop is a
fold and follows by `FoldWithin`; then come the dispatch (`PerformOK`), a chunk that a panic may cut short (`ReplayOK`),
a resize (`HResizeOK`) and an upgrade (`UpgradedOK`).

`Later` relates two histories: the numbers only grow and a number that both have names the same row. Every operation
is `Later` than what it began with, because rows enter at the end (`PushRowOK`) and leave at the
front. An upgrade pads rows again, so it keeps not the row but its text (`RepaddedText`):
the cells that trimming takes off show nothing, which is an induction over columns (`SeenQuiet`).

`DrawnPairsIntact` is about what is in the cells. A row is a `PairedRow` when each head is followed by its
continuation and each continuation preceded by its head. `PutOne` and `PutTwo` say that clearing the pairs under a character
and then writing it leaves such a row, for each place of the pairs around it. Scrolling moves whole rows, because without
margins a row's columns move together (`ShiftRowsWhole`); a wrap blanks the last cell,
which is the head or the continuation of nothing unless it is a `WrappedHalf` (`WrapWideWhole`).

`ShellKept` says that no resize, full-screen program, eviction or upgrade loses, doubles or reorders a
shell's lines. The invariant (`ShellOK`) is about content and position together: `Heard` says that what was printed is
a beginning that history has evicted, then the text of history, then the text of the shell's page,
and `Tame` says where the next line will go. On the shell's own page the cursor is in the
first column and the rows from the cursor's on are mute (without text), so a line is never
written over another, and the bottom rows a resize drops or the top row a line feed pushes out carry
exactly the text `Heard` expects there. In a full-screen program the shell's page is stashed with
its cursor's row, and the program's page is mute: what is resized, pushed or trimmed there
adds nothing. One lemma per operation moves the pair along; `Spell`, the text of consecutive rows,
splits where rows are cut (`SpellTwo`, `SpellTrim`). `TwoColumns` (every width is two or more) is needed:
Draw records a wrap once a letter is in the last column (`screen.go:397`) and an upgrade leaves an empty
`lineWrapped` nil, so with one column the first letter after an upgrade panics, the rest of its
chunk is lost, and the next letter is written over it. TLC finds that behaviour with one
column. In a wider window a line that fills its row does the same; the shell of the model prints
lines of one letter, so that case is `PanicCauses`'s, not this property's.

What stays with TLC:

* Liveness: `Converges`, `LoopReturns`, `RegionReclaimed`, `Repaired`, `UpgradeEnds`, `RequestsEnd`,
  `StopReturns`, `HandleReturns`, `ChangesShown`. The prover has neither fairness nor ENABLED.
* `Input` and the reader, `Renderer` and `CursedRenderer`, which use RECURSIVE operators (the
  decoder's descent over a buffer, the renderer's passes over a row), with which the SMT
  backend is not available.
* `Mirror`, in which two emulators are fed the same lines by four ways.

## 6. Abstractions, and behaviour without a run

* Requests of different clients commute up to their order in the channel; the channel
  itself is not a variable. Time is a nondeterministic choice.
* `Upgrade` has no programs that end during the handoff, and one client's subscription
  stands for all requests. `SlowClient` has one client.
* `Terminal` and `Mirror` have a handful of characters; titles, the palette, hyperlinks and
  the contents of answers to queries are left out, that an answer is sent is not.
* The renderer's lengths of escape sequences are constants; only their order matters to
  its choices.
* `Program` has no Suspend, Exec, Println, Kill or focus steps, and no `flushPendingSyncAcks` after the loop's
  render (`mainlayer.go:135-146`): it writes only when a sync marker waits, which the test harness sends. It takes
  the first `ListenCmd`, a command of Init, to be armed. `ClientLoop` has no back-off times.
* `Mirror` has one tab; another tab's frames are placeholders in the same queue.

The definitions follow the code in what is listed here, and the properties that it
would violate say so in a named exception or bound.

**Server.**
* A program that ends before `spawnRegionReq` is handled leaves its region in the tree
  with a stopped actor (`server_requests.go:332`, `server.go:257`; doc/DESIGN.md:35 "No
  orphaned regions").
* `resumeAfterFailedUpgrade` resumes the event loop before the actors (`upgrade.go:346`): a
  subscription in between is recorded and never reaches the actor, against `upgrade.go:429`;
  and it then iterates over a map the loop writes (347).
* Output read when the actor stops is lost: readLoop's carry, and a chunk pushed behind
  `stopActorMsg` (`actor.go:834`, against `upgrade.go:130` "nothing is lost").
  `sendMsg` has no write deadline (`upgrade_protocol.go:83`). `Stop` gives up on a `readLoop` after two seconds
  and only warns (`pty_backend.go:128-135`); one that is blocked in a read without a deadline
  (`region.go:363`), or on a full mailbox, then reads the PTY beside the new process, or, after a rollback, beside
  the old one's new `readLoop` (`outlived`, `stray`).
* `behind` belongs to the client: the actor of the region it leaves can clear the mark
  the new region's dropped snapshot set (`actor.go:662`). After a failed write frames are
  discarded and the connection stays (`client.go:100`, against `actor.go:349`). After a
  rollback `catchupArmed` stays set without a timer (`region.go:277`).
* A client that unsubscribes keeps its entry in `regionOverlays`; its second overlay hides the
  first from `removeClientReq` (`server_requests.go:585`); a snapshot for a client holds one
  buffer of two (`actor.go:242`); a catchup with trailing events is not composited (`actor.go:562`).
* Names of sessions and programs are not validated (`handlers.go:221-235`, 538-595). With a slash in the name, the
  viewer ignores the operations on it and advances its version all the same (`tui/tree.go:49-53`, 96-113,
  141-143): its copy lacks a new session, or keeps one that is gone, until the next snapshot.
* The answer to a resync goes through the queue that overflowed (`server_requests.go:552`);
  a gap shows only at the next event (`tui/tree.go:40`); a `writeCh` of one place drops
  each new connection's snapshot (`server.go:121`); `awaitResp` gives up at shutdown
  (`server.go:150`).

**Emulator.**
* `Draw`'s wrap calls `Screen.LineFeed`, not `HistoryScreen`'s, so rows scrolled by it miss the
  history (`screen.go:345`; doc/m9-goals.md:20). A wide character at the edge blanks half a pair
  (303-306).
* `HistoryScreen.Resize` leaves `rightMargin`; the cursor that a margin beyond the row let go there
  stays there when `ResetMode` takes DECLRMM away (`screen.go:379-382`, 2756-2759), and the next combining character
  indexes outside the row. It also pushes rows of the alternate screen
  into history (TODO.md:35-46). DECCOLM resizes the screen and not the region.
* A live upgrade loses empty maps, trimmed continuations of wide characters and the
  reversed padding (`state_trim_test.go:10-12`).
* `CSI > ... T` is unreachable in `dispatchCSI`; a byte that is not UTF-8 holds back up to 256 more
  (`region.go:495-497`); a `'` at the end of a chunk is taken for HPA (`stream.go:264`); a rune is decoded whole with UTF-8 off too, but its first bytes are not kept for the next chunk (`stream.go:236`); te ends APC, PM and
  SOS at BEL and the reader's decoder does not; the carry is dropped at end of file.

**Viewer.**
* A fetch merged during a synchronized update or with rows still unsent doubles rows; a late
  viewer counts rows from its own subscription (`scrollback.go:145,166`); a dropped
  chunk leaves the history short; ED 3 inside a synchronized update leaves the viewer's history. Where the
  viewer keeps more rows than the server (a limit below its 10000, or a history just cleared), a snapshot
  cuts its newest rows (`terminal.go:190-204`, `Contiguous`).
* Overline is carried to the viewer and dropped by `ReadStyle`; te knows no rapid blink; `colorEqual`
  does not tell palette red from indexed 1 or an equal true colour (`cell.go:410`).

**Input.**
* A paste after the prefix key is interpreted (`mainlayer.go:570`); reports are taken
  out of pastes (`rawio.go:171`); the remainder after a chord is queued behind later parts
  of the message (`mixed`); an end marker cut by the escape time leaves `pasting` set.
* A key sequence alone inside a paste is taken as a key; a cursor report in column 1 reads as F3; OSC
  cancelled by ESC swallows that ESC; a message other than the token's ends
  `stepFocusSequence` early, so an ESC merges with the next key (`mainlayer.go:501-504`, `hurried`).

**Client.**
* `upgradeTask` subscribes to phases after the answer (`tui/upgrade.go:152`); moving to another server leaves
  parked requests: `ConnectedMsg` replaces the server (`model.go:105-111`) and fails none of them
  (`mainlayer.go:708`), against `task.go:30-34`; `Send` drops when 64 messages wait and the loop ignores it
  (`model.go:66-71`); both are `Orphan`.
  A request failed by `failPendingReplies` may still be sent; a reconnect to a server without state shows no
  session; a spawned region's answer can hold `pendingActiveRegionID` for ever.
* Two resizes between frames are drawn once against the wrong buffer (`cursed_renderer.go:302`); rows above the old last one
  are not synchronized after the window widens (`terminal_renderer.go:1244`, `unsynced`).
* A signal's send without select holds up a shutdown already begun (`tea.go:656`, `SignalHeld`);
  `slog.Warn` on the event loop sends to itself (`main.go:255`, `WaitsForItself`); a panic in View
  renders again on the way down, and the second leaves the terminal as it is
  (`mainlayer.go:305-311`); a QuitMsg during the initial setup is swallowed (826-836).

## 7. Not modelled

* Encoding of protocol messages and the transports: no state beyond a library's; the
  models take from them that a connection delivers in order or fails.
* Configuration, logging, mDNS, service management: no concurrent state of their own.
* `nxtermctl`, `nxtest`, the GUI clients: users of the protocol. `client_upgrade`: serves a
  file in chunks, stateless.
* Of the libraries, what nxterm does not run: ultraviolet's own `Terminal`, layout and borders, Windows
  consoles, Exec; and what has no state: the key and colour tables beyond those the models need.
* The layers without a protocol (palette, help, pickers) beyond that they take the keyboard.
* The `nx2` prototype's broker, sinks and guests, with a protocol of their own. Read for the survey:
  `removeShared` deletes by key, so after a quick reconnect the old companion's pump or detach
  can remove the newer companion's entry (`nx2/internal/broker/broker.go:79,169,199`), and `attach` can add a
  host to a companion that `detach` is closing.

## 8. Plan

1. The `nx2` broker: companions, sinks, attach against detach.
2. `Upgrade`: programs that end during the handoff (`restoreRegionReq` after
   `destroyRegionReq`), native regions, phases in the tree.
3. `ServerCore`: `Shutdown` against requests in flight (`awaitResp`), `CloseGracefully`.
4. `Mirror`: two clients of one region, and the old region of a client that moves.
5. Proofs: `ShellLinesKept` for lines that wrap; `Mirror`'s history by the invariant of
   its emulators.
