------------------------------ MODULE Program ------------------------------
(* The life of the program that owns the terminal (bubbletea, tea.go and   *)
(* tty.go, and nxterm's own event loop, mainlayer.go): the goroutines that *)
(* send to the loop over one channel without a buffer, the commands Update *)
(* returns, and the way down: a final frame, the end of the goroutines,    *)
(* the terminal put back. A message is a name; a command is the set of the *)
(* messages it makes, each with the names that must have been sent before. *)
EXTENDS Integers, Sequences, FiniteSets

CONSTANTS
    Messages,    \* the names of messages
    Loads,       \* what may happen in an instance: connected: nxterm starts with a connection,
                 \* init: what Init returns, commands: what Update may return for a key, keys: how many
                 \* reach bubbletea's reader, server: messages of the server and of the log,
                 \* signal, resize, and quit: the user quits
    Dials        \* how a dial may end: "ok", "fails", "asks" for a password first
Serves == {"changes", "panics", "breaks", "warns"}

\* tea.Batch and tea.Sequence, and compactCmds, for which no command is {}.
Leaf(m) == {[m |-> m, after |-> {}]}
Names(c) == {l.m : l \in c}
Batch(c, d) == c \union d
Sequence(c, d) == c \union {[l EXCEPT !.after = @ \union Names(c)] : l \in d}

\* The messages of a command have different names and wait for messages of the same command; nothing
\* waits for one whose making panics (it would be dropped in a sequence, and sent after a batch).
WellFormed(c) ==
    \A l \in c : /\ l.after \subseteq Names(c) \ {"boom"}
                 /\ \A k \in c : k.m = l.m => k = l
Command == SUBSET [m : Messages, after : SUBSET Messages]
ASSUME MessagesAssumption == {"none", "size", "key", "log", "dialed", "check"} \subseteq Messages
ASSUME LoadsAssumption ==
    /\ Loads \subseteq [connected : BOOLEAN, init : Command, commands : SUBSET Command, keys : Nat, server : Nat,
                       signal : BOOLEAN, resize : BOOLEAN, quit : BOOLEAN]
    /\ \A e \in Loads : \A c \in e.commands \union {e.init} : WellFormed(c)
ASSUME DialsAssumption == Dials \subseteq {"ok", "fails", "asks"}

VARIABLES
    loop,     \* the event loop: at; msg, cmd: what Handle holds; waits: for the size (initialSetup) or
              \* for an address (connectOverlay), or not; dirty; panics: restoreTerminalOnPanic runs
    g,        \* the other goroutines: sig, resize, commands, init, reader, ticker, logger
    live,     \* the context is not cancelled
    errs,     \* an error waits in p.errs
    jobs,     \* the goroutines that run commands
    ui,       \* model: changes made, view: the last one rendered, out: execute left bytes,
              \* broken: View panics
    term,     \* the terminal: on: the renderer's modes are set, shows: the model it shows, late: written
              \* to after it was put back
    down,     \* shutdown: at, kill
    handled,  \* the messages of commands that were handled
    env       \* what is still to happen
vars == <<loop, g, live, errs, jobs, ui, term, down, handled, env>>

Job(c) == [cmd |-> c, todo |-> c, at |-> "sends"]
Goroutines == {"sig", "resize", "commands", "init", "reader", "ticker", "logger"}
\* Start, up to the event loop. The size is sent by a goroutine of its own.
Init ==
    /\ env \in Loads
    /\ loop = [at |-> "select", msg |-> "none", cmd |-> {}, waits |-> IF env.connected THEN "size" ELSE "connect",
               dirty |-> FALSE, panics |-> FALSE]
    /\ g = [who \in Goroutines |-> IF who = "init" /\ env.init = {} THEN "gone" ELSE "waits"]
    /\ live = TRUE /\ errs = FALSE
    /\ jobs = <<Job(Leaf("size"))>>
    /\ ui = [model |-> 1, view |-> 1, out |-> TRUE, broken |-> FALSE]
    /\ term = [on |-> TRUE, shows |-> 0, late |-> FALSE]
    /\ down = [at |-> "no", kill |-> FALSE]
    /\ handled = <<>>

Running == loop.at \notin {"exited", "crashed"}
Receives == loop.at = "select"
InRun == loop.at = "select" /\ loop.waits = "no"
Go(who, at) == g' = [g EXCEPT ![who] = at]
At(place) == loop' = [loop EXCEPT !.at = place]

-----------------------------------------------------------------------------
(* Handle.                                                                 *)

\* p.Render. A panic of View unwinds to restoreTerminalOnPanic.
Render(then) ==
    IF ui.broken THEN loop' = [then EXCEPT !.at = "stop", !.panics = TRUE] /\ UNCHANGED ui
    ELSE loop' = then /\ ui' = [ui EXCEPT !.view = ui.model]

\* What is special about m (execute for the clipboard), and Update, whose command is offered on p.cmds.
Update(m, c) ==
    /\ ui' = [ui EXCEPT !.model = @ + 1, !.out = @ \/ m = "clip"]
    /\ loop' = [loop EXCEPT !.at = "cmds", !.msg = m, !.cmd = c, !.dirty = @ \/ loop.waits = "no"]
\* The command is taken: render, and back to the caller, which looks at what it waits for.
Returned ==
    [loop EXCEPT !.at = IF loop.waits = "connect" /\ loop.msg = "connect" THEN "dial" ELSE "select",
                 !.cmd = {}, !.msg = "none", !.waits = IF @ = "size" /\ loop.msg = "size" THEN "no" ELSE @]

\* ErrProgramQuit, ErrInterrupted or the end of the context: the loop stops, but initialSetup only returns.
Quits == loop' = IF loop.waits = "size" THEN [loop EXCEPT !.at = "select", !.waits = "no", !.cmd = {}, !.msg = "none"]
                 ELSE [loop EXCEPT !.at = "stop", !.cmd = {}, !.msg = "none"]

-----------------------------------------------------------------------------
(* The goroutines that send.                                               *)

\* handleSignals: a send that the context does not end.
SignalArrives ==
    /\ Running /\ env.signal /\ env' = [env EXCEPT !.signal = FALSE]
    /\ g["sig"] = "waits" /\ Go("sig", "sends")
    /\ UNCHANGED <<loop, live, errs, jobs, ui, term, down, handled>>
ReceiveSignal ==
    /\ Receives /\ g["sig"] = "sends" /\ Go("sig", "gone")
    /\ Quits
    /\ UNCHANGED <<live, errs, jobs, ui, term, down, handled, env>>

\* listenForResize and checkResize.
WindowChanges ==
    /\ Running /\ env.resize /\ env' = [env EXCEPT !.resize = FALSE]
    /\ g["resize"] = "waits" /\ Go("resize", "sends")
    /\ UNCHANGED <<loop, live, errs, jobs, ui, term, down, handled>>
ReceiveResize ==
    /\ Receives /\ g["resize"] = "sends" /\ Go("resize", "waits")
    /\ Update("size", {})
    /\ UNCHANGED <<live, errs, jobs, term, down, handled, env>>

\* StreamEvents: another that the context does not end.
KeyArrives ==
    /\ Running /\ env.keys > 0 /\ env' = [env EXCEPT !.keys = @ - 1]
    /\ g["reader"] = "waits" /\ Go("reader", "sends")
    /\ UNCHANGED <<loop, live, errs, jobs, ui, term, down, handled>>
ReceiveKey ==
    /\ Receives /\ g["reader"] = "sends" /\ Go("reader", "waits")
    /\ \E c \in env.commands : Update("key", c)
    /\ UNCHANGED <<live, errs, jobs, term, down, handled, env>>

\* nxlog's Handle on another goroutine: it holds the lock of the log while it sends.
Logs ==
    /\ Running /\ env.server > 0 /\ env' = [env EXCEPT !.server = @ - 1]
    /\ g["logger"] = "waits" /\ loop.at # "logs" /\ Go("logger", "sends")
    /\ UNCHANGED <<loop, live, errs, jobs, ui, term, down, handled>>
ReceiveLog ==
    /\ Receives /\ g["logger"] = "sends" /\ Go("logger", "waits")
    /\ Update("log", {})
    /\ UNCHANGED <<live, errs, jobs, term, down, handled, env>>

\* Send: a message that the loop does not take is dropped when the context is cancelled.
\* A fault: it is not.
SendBlocks(who) == FALSE /\ UNCHANGED vars
SendDropped(who) ==
    /\ Running /\ ~live /\ g[who] = "sends" /\ Go(who, "waits")
    /\ UNCHANGED <<loop, live, errs, jobs, ui, term, down, handled, env>>

-----------------------------------------------------------------------------
(* Commands.                                                               *)

Started(c) == IF c = {} THEN jobs ELSE Append(jobs, Job(c))
\* A fault: the goroutine that takes commands runs them itself.
TakeCommandInline ==
    /\ loop.at = "cmds" /\ g["commands"] = "waits" /\ \A n \in DOMAIN jobs : n > 1 => jobs[n].todo = {}
    /\ jobs' = Started(loop.cmd) /\ Render(Returned)
    /\ UNCHANGED <<g, live, errs, term, down, handled, env>>
\* handleCommands runs each in a goroutine of its own; the loop goes on and renders.
TakeCommand ==
    /\ loop.at = "cmds" /\ g["commands"] = "waits"
    /\ jobs' = Started(loop.cmd) /\ Render(Returned)
    /\ UNCHANGED <<g, live, errs, term, down, handled, env>>
CommandCancelled ==
    /\ loop.at = "cmds" /\ ~live /\ Quits
    /\ UNCHANGED <<g, live, errs, jobs, ui, term, down, handled, env>>
TakeInit ==
    /\ Running /\ g["commands"] = "waits" /\ g["init"] = "waits" /\ Go("init", "gone")
    /\ jobs' = Started(env.init)
    /\ UNCHANGED <<loop, live, errs, ui, term, down, handled, env>>

\* A command of several messages first sends itself; execBatchMsg and execSequenceMsg then send
\* what is not held back. A fault: a sequence is run like a batch.
ReadyUnordered(j) == IF j.at = "sends" /\ Cardinality(j.todo) > 1 THEN {} ELSE j.todo
Ready(j) == IF j.at = "sends" /\ Cardinality(j.todo) > 1 THEN {}
            ELSE {l \in j.todo : l.after \intersect Names(j.todo) = {}}

ReceiveCommand(n) ==
    /\ Receives /\ jobs[n].at = "sends" /\ Cardinality(jobs[n].todo) > 1
    /\ jobs' = [jobs EXCEPT ![n].at = "runs"] /\ loop' = [loop EXCEPT !.dirty = @ \/ loop.waits = "no"]
    /\ UNCHANGED <<g, live, errs, ui, term, down, handled, env>>
Done(n, l) == [jobs EXCEPT ![n].todo = @ \ {l}]
ReceiveMsg(n, l) ==
    /\ Receives /\ l \in Ready(jobs[n]) /\ l.m # "boom"
    /\ handled' = Append(handled, <<n, l.m>>)
    /\ IF l.m = "quit" THEN Quits /\ UNCHANGED ui ELSE Update(l.m, {})
    \* connectFn dials too, in a goroutine
    /\ jobs' = IF l.m = "connect" THEN Append(Done(n, l), Job(Leaf("dialed"))) ELSE Done(n, l)
    /\ UNCHANGED <<g, live, errs, term, down, env>>
\* Without a receiver the message of a command, or the command itself, is dropped.
MsgDropped(n) ==
    /\ Running /\ ~live /\ jobs[n].todo # {}
    /\ \/ \E l \in Ready(jobs[n]) : l.m # "boom" /\ jobs' = Done(n, l)
       \/ Ready(jobs[n]) = {} /\ jobs' = [jobs EXCEPT ![n].todo = {}]
    /\ UNCHANGED <<loop, g, live, errs, ui, term, down, handled, env>>
\* recoverFromPanic shuts the program down itself, recoverFromGoPanic only cancels the context.
CommandPanics(n, l) ==
    /\ Running /\ l \in Ready(jobs[n]) /\ l.m = "boom"
    /\ jobs' = Done(n, l)
    /\ errs' = TRUE /\ live' = FALSE
    /\ down' = IF jobs[n].at = "sends" /\ down.at = "no" THEN [at |-> "handlers", kill |-> TRUE] ELSE down
    /\ UNCHANGED <<loop, g, ui, term, handled, env>>

-----------------------------------------------------------------------------
(* nxterm's event loop beside the messages of bubbletea.                   *)

\* processServerMsg. It may log: a request that finds its queue full is warned of (server.go:106),
\* and of the log at most one in 100 ms is told to the program.
LoopServer ==
    /\ InRun /\ env.server > 0 /\ env' = [env EXCEPT !.server = @ - 1]
    /\ \E s \in Serves :
        CASE s = "changes" -> ui' = [ui EXCEPT !.model = @ + 1] /\ loop' = [loop EXCEPT !.dirty = TRUE]
          [] s = "breaks"  -> ui' = [ui EXCEPT !.model = @ + 1, !.broken = TRUE] /\ loop' = [loop EXCEPT !.dirty = TRUE]
          [] s = "panics"  -> loop' = [loop EXCEPT !.at = "stop", !.panics = TRUE] /\ UNCHANGED ui
          [] s = "warns"   -> /\ loop' = [loop EXCEPT !.at = IF g["logger"] = "sends" THEN "locks" ELSE "logs",
                                              !.dirty = TRUE]
                              /\ UNCHANGED ui
    /\ UNCHANGED <<g, live, errs, jobs, term, down, handled>>
\* The lock of the log is free: another goroutine told the program, just now or more than 100 ms ago.
LoopLocks ==
    /\ loop.at = "locks" /\ g["logger"] # "sends" /\ \E place \in {"select", "logs"} : At(place)
    /\ UNCHANGED <<g, live, errs, jobs, ui, term, down, handled, env>>
\* The user quits with a chord: execCmdSync gives ErrProgramQuit. Before raw input all is rendered.
LoopQuits ==
    /\ Receives /\ loop.waits # "size" /\ ~loop.dirty /\ env.quit
    /\ env' = [env EXCEPT !.quit = FALSE] /\ At("stop")
    /\ UNCHANGED <<g, live, errs, jobs, ui, term, down, handled>>
\* renderIfDirty.
LoopRender ==
    /\ InRun /\ loop.dirty
    /\ Render([loop EXCEPT !.dirty = FALSE])
    /\ UNCHANGED <<g, live, errs, jobs, term, down, handled, env>>
LoopCancelled ==
    /\ Receives /\ ~live /\ Quits
    /\ UNCHANGED <<g, live, errs, jobs, ui, term, down, handled, env>>

\* connectOverlay: the dial, with UIPrompter for its questions. ConnectedMsg changes the stack, and Run
\* goes on with nothing to render: the change is shown with the first message after it, at the latest that
\* of the task which CheckForUpgrades starts then (ListenCmd, a command of Init, brings it), or that of the
\* second dial, of connectFn. (After initialSetup, which has rendered, nothing depends on the task.)
Dial ==
    /\ loop.at = "dial"
    /\ \E d \in Dials :
        CASE d = "ok"    -> /\ loop' = [loop EXCEPT !.at = "select", !.waits = "no"]
                            /\ ui' = [ui EXCEPT !.model = @ + 1]
                            /\ jobs' = Append(jobs, Job(Leaf("check")))
          [] d = "fails" -> At("complains") /\ UNCHANGED <<ui, jobs>>
          [] d = "asks"  -> At("asks") /\ UNCHANGED <<ui, jobs>>
    /\ UNCHANGED <<g, live, errs, term, down, handled, env>>
\* The loop sends to itself; only the end of the context gets it out.
SendsToItself == loop.at \in {"asks", "complains", "logs"}
SelfSendDropped ==
    /\ SendsToItself /\ ~live /\ At("select")
    /\ UNCHANGED <<g, live, errs, jobs, ui, term, down, handled, env>>

-----------------------------------------------------------------------------
(* The renderer's ticker: flush of the program, then of the renderer.      *)
\* A fault: a frame waits for bytes of execute.
TickOutOnly ==
    /\ Running /\ g["ticker"] = "waits" /\ ui.out
    /\ Go("ticker", "flushes") /\ ui' = [ui EXCEPT !.out = FALSE]
    /\ UNCHANGED <<loop, live, errs, jobs, term, down, handled, env>>
TickOut ==
    /\ Running /\ g["ticker"] = "waits" /\ (ui.out \/ term.shows # ui.view)
    /\ Go("ticker", "flushes") /\ ui' = [ui EXCEPT !.out = FALSE]
    /\ UNCHANGED <<loop, live, errs, jobs, term, down, handled, env>>
Shown == term' = [term EXCEPT !.shows = ui.view, !.late = @ \/ (~term.on /\ term.shows # ui.view)]
TickFrame ==
    /\ Running /\ g["ticker"] = "flushes" /\ Go("ticker", "waits") /\ Shown
    /\ UNCHANGED <<loop, live, errs, jobs, ui, down, handled, env>>

-----------------------------------------------------------------------------
(* Stop and shutdown.                                                      *)

\* The handlers end with the context. The reader is not one of them, and is not waited for: its input is
\* a pipe, whose reader cannot be cancelled.
HandlerEnds(who) ==
    /\ Running /\ ~live /\ g[who] \notin {"sends", "gone"} /\ Go(who, "gone")
    /\ UNCHANGED <<loop, live, errs, jobs, ui, term, down, handled, env>>
Handlers == {"sig", "resize", "commands", "init"}

\* Stop, called with nil. Killed is what is known now of the context and the errors. The loop of
\* restoreTerminalOnPanic is guarded: a second panic ends it.
Stop ==
    /\ loop.at = "stop" /\ live' = FALSE
    /\ IF live /\ ~errs /\ ui.broken
       THEN /\ loop' = [loop EXCEPT !.at = IF loop.panics THEN "crashed" ELSE "stop", !.panics = TRUE]
            /\ UNCHANGED <<ui, down>>
       ELSE /\ At("down")
            /\ ui' = IF live /\ ~errs THEN [ui EXCEPT !.view = ui.model] ELSE ui
            /\ down' = IF down.at = "no" THEN [at |-> "handlers", kill |-> ~live \/ errs] ELSE down
    /\ UNCHANGED <<g, errs, jobs, term, handled, env>>

DownTo(place) == down' = [down EXCEPT !.at = place]
HandlersEnded ==
    /\ Running /\ down.at = "handlers" /\ \A who \in Handlers : g[who] = "gone"
    /\ DownTo("renderer")
    /\ UNCHANGED <<loop, g, live, errs, jobs, ui, term, handled, env>>
\* A fault: stopRenderer does not wait for the ticker.
StopRendererAtOnce ==
    /\ Running /\ down.at = "renderer" /\ DownTo(IF down.kill THEN "close" ELSE "flush")
    /\ UNCHANGED <<loop, g, live, errs, jobs, ui, term, handled, env>>
\* stopRenderer: the ticker takes rendererDone when it is not in a flush.
StopRenderer ==
    /\ Running /\ down.at = "renderer" /\ g["ticker"] = "waits" /\ Go("ticker", "gone")
    /\ DownTo(IF down.kill THEN "close" ELSE "flush")
    /\ UNCHANGED <<loop, live, errs, jobs, ui, term, handled, env>>
LastFlush ==
    /\ Running /\ down.at = "flush" /\ Shown /\ DownTo("close")
    /\ UNCHANGED <<loop, g, live, errs, jobs, ui, handled, env>>
CloseRenderer ==
    /\ Running /\ down.at = "close" /\ term' = [term EXCEPT !.on = FALSE] /\ DownTo("out")
    /\ UNCHANGED <<loop, g, live, errs, jobs, ui, handled, env>>
\* restoreTerminalState flushes what execute left.
RestoreTerminalState ==
    /\ Running /\ down.at = "out" /\ ui' = [ui EXCEPT !.out = FALSE] /\ DownTo("done")
    /\ UNCHANGED <<loop, g, live, errs, jobs, term, handled, env>>
\* shutdownOnce makes the loop wait for a shutdown that a command began. Then runFrontend closes the
\* server, stdin and the pipe, and waits for their goroutines, at most two seconds.
Exit ==
    /\ loop.at = "down" /\ down.at = "done" /\ At("exited")
    /\ UNCHANGED <<g, live, errs, jobs, ui, term, down, handled, env>>

-----------------------------------------------------------------------------
Environment == SignalArrives \/ WindowChanges \/ KeyArrives \/ Logs \/ LoopServer \/ LoopQuits
Jobs == \E n \in DOMAIN jobs :
            \/ ReceiveCommand(n) \/ MsgDropped(n)
            \/ \E l \in jobs[n].todo : ReceiveMsg(n, l) \/ CommandPanics(n, l)
Loop == \/ ReceiveSignal \/ ReceiveResize \/ ReceiveKey \/ ReceiveLog
        \/ TakeCommand \/ CommandCancelled \/ LoopLocks \/ LoopRender \/ LoopCancelled \/ Dial \/ SelfSendDropped
        \/ Stop \/ Exit
Others == \/ SendDropped("resize") \/ SendDropped("logger") \/ TakeInit \/ TickOut \/ TickFrame
          \/ \E who \in Handlers : HandlerEnds(who)
Shutdown == HandlersEnded \/ StopRenderer \/ LastFlush \/ CloseRenderer \/ RestoreTerminalState

Next == Environment \/ Jobs \/ Loop \/ Others \/ Shutdown

\* Go runs every goroutine that can run; the user, the server and the signals owe nothing.
Spec == Init /\ [][Next]_vars /\ WF_vars(Jobs \/ Loop \/ Others \/ Shutdown)

-----------------------------------------------------------------------------
(* The messages of a sequence are handled in its order, and what follows   *)
(* a batch in a sequence after all of the batch (execSequenceMsg,          *)
(* execBatchMsg and its WaitGroup).                                        *)
SequenceInOrder ==
    live => \A k \in DOMAIN handled : \A l \in jobs[handled[k][1]].cmd :
                l.m = handled[k][2] => \A m \in l.after : \E j \in 1..(k - 1) : handled[j] = <<handled[k][1], m>>

(* Once the renderer has put the terminal back no frame is drawn on it,    *)
(* neither by the ticker nor by a shutdown another goroutine began         *)
(* (stopRenderer, shutdownOnce).                                           *)
NothingAfterRestore == ~term.late

\* The loop waits for itself, or for the holder of the lock of the log, who waits for the loop.
WaitsForItself == live /\ (SendsToItself \/ (loop.at = "locks" /\ g["logger"] = "sends"))
\* The goroutine of the signals waits for the loop, which stops and waits for it.
SignalHeld == g["sig"] = "sends" /\ loop.at \in {"stop", "down"}
(* A program that begins to stop, for whatever reason, ends, unless the    *)
(* signal that came with it holds it up (shutdown, handleSignals).         *)
StopReturns == (loop.at = "stop" \/ ~live) ~> (~Running \/ SignalHeld)
(* Handle returns: the command of an update is taken, whatever the         *)
(* commands before it wait for (handleCommands, tea.go:710-713).           *)
HandleReturns == (loop.at = "cmds") ~> (loop.at # "cmds")
(* What changed is shown, also what a dial changed while nothing was to be *)
(* rendered, or the program stops, or its loop waits for itself            *)
(* (renderIfDirty and the ticker).                                         *)
ChangesShown ==
    (term.shows # ui.model) ~> (term.shows = ui.model \/ ~live \/ ui.broken \/ loop.panics \/ WaitsForItself)

(* A dial of the connect overlay ends, with the answer of the user if it   *)
(* asks (ui_prompter.go:11-16).                                            *)
DialEnds == (loop.at = "dial") ~> (loop.at = "select" \/ ~live)
=============================================================================
