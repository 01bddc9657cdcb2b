------------------------------- MODULE Tasks -------------------------------
(***************************************************************************)
(* Tasks of the client (pkg/layer/task.go, internal/tui/task.go): a        *)
(* goroutine runs a dialog from top to bottom, and every call of its       *)
(* handle is a message to the event loop, which waits for an answer when   *)
(* the call has one.  The two programs are the check for upgrades and the  *)
(* "upgrade" command (internal/tui/upgrade.go).                            *)
(*                                                                         *)
(* A program is a table: what a task does at a place, and the places an    *)
(* answer takes it to.  The operators take the runner and return it.       *)
(***************************************************************************)
EXTENDS Naturals, Sequences, FiniteSets, TLC

\* What a task at a place calls, with what, and where it goes on.
Steps ==
    [ask       |-> [call |-> "send",        arg |-> "check",       then |-> "asked"],
     toast     |-> [call |-> "push",        arg |-> "toast",       then |-> "toasted"],
     toasted   |-> [call |-> "pop",         arg |-> "toast",       then |-> "end"],
     open      |-> [call |-> "push",        arg |-> "dialog",      then |-> "confirm"],
     confirm   |-> [call |-> "waitFor",     arg |-> "key",         then |-> "confirming"],
     upgrade   |-> [call |-> "send",        arg |-> "upgrade",     then |-> "upgrading"],
     follow    |-> [call |-> "subscribe",   arg |-> "tree",        then |-> "following"],
     failed    |-> [call |-> "unsubscribe", arg |-> "tree",        then |-> "error"],
     shutdown  |-> [call |-> "unsubscribe", arg |-> "tree",        then |-> "await"],
     await     |-> [call |-> "waitFor",     arg |-> "reconnected", then |-> "awaiting"],
     finish    |-> [call |-> "waitFor",     arg |-> "key",         then |-> "finishing"],
     error     |-> [call |-> "waitFor",     arg |-> "key",         then |-> "finishing"],
     download  |-> [call |-> "send",        arg |-> "download",    then |-> "downloading"],
     close     |-> [call |-> "pop",         arg |-> "dialog",      then |-> "end"],
     end       |-> [call |-> "done",        arg |-> "",            then |-> "ended"]]

Requesting == {"asked", "upgrading", "downloading"}
Waiting == {"confirming", "awaiting", "finishing"}

\* Where an answer takes a task; a request fails with its connection.
AfterCheck(t, v) == IF v = "connection lost" \/ t.prog = "check" THEN {"end"} ELSE {"toast", "open"}
AfterConfirm(t, key) == IF key # "enter" THEN "close"
                        ELSE IF "server" \in t.avail THEN "upgrade" ELSE "download"

AfterReply(v, ok) == CASE v = "ok" -> ok [] v = "error" -> {"error"} [] OTHER -> {"close"}
AfterPhase(phase) ==
    CASE phase = "failed" -> "failed" [] phase = "shutting down" -> "shutdown" [] OTHER -> "following"

After(t, v) ==
    CASE t.at = "asked"       -> AfterCheck(t, v)
      [] t.at = "confirming"  -> {AfterConfirm(t, v)}
      [] t.at = "upgrading"   -> AfterReply(v, {"follow"})
      [] t.at = "awaiting"    -> {IF "client" \in t.avail THEN "download" ELSE "finish"}
      [] t.at = "finishing"   -> {"close"}
      [] t.at = "downloading" -> AfterReply(v, {"apply", "error"})

-----------------------------------------------------------------------------
(* The runner: the tasks by id, the one message on its way to the event    *)
(* loop (fromTasks has no buffer, and ListenCmd is armed again only after  *)
(* the message is handled), what the commands of earlier messages bring    *)
(* back to the loop (each on a goroutine of its own, so in any order), the *)
(* layers the tasks have on the stack, the event loop's pendingReplies and *)
(* nextReqID, and a history: the requests that the loop itself gave up.    *)
NewRunner == [tasks |-> <<>>, posted |-> <<>>, commands |-> {}, layers |-> {},
              pending |-> <<>>, nextReq |-> 0, orphans |-> {}]

NewTask(prog, avail) ==
    [prog |-> prog, avail |-> avail, at |-> "ask", inbox |-> <<>>, filter |-> "",
     subscribed |-> FALSE, stream |-> <<>>]

\* TaskRunner.Run
Run(tk, prog, avail) == [tk EXCEPT !.tasks = Append(@, NewTask(prog, avail))]

Live(tk) == {i \in DOMAIN tk.tasks : tk.tasks[i].at # "gone"}

\* Handle.send: the call of a task reaches the listening command.
Call(tk, i) ==
    LET step == Steps[tk.tasks[i].at]
    IN  [tk EXCEPT !.posted = <<[task |-> i, call |-> step.call, arg |-> step.arg]>>,
                   !.tasks[i].at = step.then]

\* Handle.recv: the task takes its answer.
Recv(tk, i, at) == [tk EXCEPT !.tasks[i].inbox = <<>>, !.tasks[i].at = at]

\* A phase read from the subscription's channel.
RecvPhase(tk, i) ==
    [tk EXCEPT !.tasks[i].at = AfterPhase(Head(tk.tasks[i].stream)),
               !.tasks[i].stream = Tail(@)]

-----------------------------------------------------------------------------
(* TaskRunner.Deliver: the send into an inbox of one place, on the event   *)
(* loop.  A second value would block the loop; it is kept here, for the    *)
(* invariant to find.                                                      *)
Deliver(tk, i, v) ==
    IF i \in Live(tk) THEN [tk EXCEPT !.tasks[i].inbox = Append(@, v)] ELSE tk

\* TaskRunner.CheckFilters, for the messages some filter wants.  A key
\* goes to the first task that waits for one; the others see it no more.
Notified(t, what, v) ==
    IF t.filter = what THEN [t EXCEPT !.filter = "", !.inbox = Append(@, v)]
    ELSE IF what = "tree" /\ t.subscribed THEN [t EXCEPT !.stream = Append(@, v)]
    ELSE t

CheckFilters(tk, what, v) == [tk EXCEPT !.tasks = [i \in DOMAIN @ |-> Notified(@[i], what, v)]]

\* TaskRunner.HandleMsg: what concerns the loop itself is left to a command.
HandleMsg(tk) ==
    LET m == tk.posted[1]
        free == [tk EXCEPT !.posted = <<>>]
    IN  CASE m.call \in {"send", "push", "pop"} -> [free EXCEPT !.commands = @ \union {m}]
          [] m.call = "waitFor"     -> [free EXCEPT !.tasks[m.task].filter = m.arg]
          [] m.call = "subscribe"   -> [free EXCEPT !.tasks[m.task].subscribed = TRUE]
          [] m.call = "unsubscribe" -> [free EXCEPT !.tasks[m.task].subscribed = FALSE,
                                                    !.tasks[m.task].stream = <<>>]
          [] m.call = "done"        -> [free EXCEPT !.tasks[m.task].at = "gone"]

\* TaskSendMsg, PushLayerMsg, popLayerMsg: the loop does what the command m
\* brings.  Whether the request finds room in Server.ch is not looked at.
Perform(tk, m, room) ==
    LET free == [tk EXCEPT !.commands = @ \ {m}]
        req == free.nextReq + 1
    IN  CASE m.call = "send" -> [free EXCEPT !.nextReq = req, !.pending = (req :> m.task) @@ @,
                                             !.orphans = IF room THEN @ ELSE @ \union {req}]
          [] m.call = "push" -> [free EXCEPT !.layers = @ \union {m.arg}]
          [] m.call = "pop"  -> [free EXCEPT !.layers = @ \ {m.arg}]

\* Another connection takes the place of the one that carried the requests.
Orphaned(tk) == [tk EXCEPT !.orphans = @ \union DOMAIN tk.pending]

Without(f, x) == [y \in DOMAIN f \ {x} |-> f[y]]

\* processServerMsg: the answer to a request that still waits.
Reply(tk, req, v) ==
    IF req \in DOMAIN tk.pending
    THEN Deliver([tk EXCEPT !.pending = Without(@, req)], tk.pending[req], v)
    ELSE tk

\* A defect: the parked tasks are left to wait.
FailPendingRepliesNot(tk) == tk

\* failPendingReplies
FailPendingReplies(tk) ==
    LET waiting == {tk.pending[q] : q \in DOMAIN tk.pending}
    IN  [tk EXCEPT !.pending = <<>>,
                   !.tasks = [i \in DOMAIN @ |->
                       IF i \in waiting /\ i \in Live(tk)
                       THEN [@[i] EXCEPT !.inbox = Append(@, "connection lost")] ELSE @[i]]]
=============================================================================
