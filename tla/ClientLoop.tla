---------------------------- MODULE ClientLoop ----------------------------
(***************************************************************************)
(* The terminal client: its event loop (internal/tui/mainlayer.go), the    *)
(* goroutine of its connection (internal/tui/server.go), the session it    *)
(* shows (Tabs), its tasks (Tasks), and what it uses of the server: the    *)
(* read loop that handles its requests, a session of regions, and another  *)
(* client that connects to the session and spawns into it.                 *)
(*                                                                         *)
(* A queue of messages stands for several: inbound for the server's        *)
(* writeCh, the network, Client.Recv and Server.Inbound.  A tree message   *)
(* carries the tree it leads to (TreeSync relates the two).  Responses     *)
(* that change nothing here, and the contents of the screens, are left to  *)
(* Mirror.                                                                 *)
(***************************************************************************)
EXTENDS Tabs, Tasks

CONSTANTS
    MaxRegions,     \* regions are numbered as they are spawned
    OutCap,         \* places in Server.ch
    Starts          \* how a behaviour may start: the loop and the budgets

LifeCap == 4
Regions == 1..MaxRegions

ASSUME ClientAssumption ==
    /\ MaxRegions \in Nat /\ OutCap \in Nat /\ NoRegion \notin Regions
    /\ \A s \in Starts : s.loop \in {"setup", "overlay", "run"}

VARIABLES
    loop,   \* where the event loop is: setup, overlay, run, reconnect, stopped
    ui,     \* what it shows: the window's size, the tree store, the session
    net,    \* the connection: Server.ch, Lifecycle, Inbound and the network
    srv,    \* the server
    tk,     \* the runner of the tasks
    left    \* how often each event of the environment may still happen

vars == <<loop, ui, net, srv, tk, left>>

\* A size of 0 is that of a region spawned without one (80x24).
DefaultSize == 0

NoTree == [valid |-> FALSE, regions |-> <<>>]

Spend(b) == left[b] > 0 /\ left' = [left EXCEPT ![b] = @ - 1]

-----------------------------------------------------------------------------
(* Messages to the client. *)
Message(type, regions, value, req) ==
    [type |-> type, regions |-> regions, value |-> value, req |-> req]

TreeMessage(s) == Message("tree", s.regions, s.phase, 0)

Deliverable(n, ms) == IF n.link = "up" THEN [n EXCEPT !.inbound = @ \o ms] ELSE n

(* Server.Send: what finds the queue full is dropped. *)
Send(n, requests) ==
    LET room == OutCap - Len(n.out)
    IN  [n EXCEPT !.out = @ \o IF Len(requests) <= room THEN requests ELSE SubSeq(requests, 1, room)]

NewNet(link, first) == [link |-> link, out |-> <<>>, life |-> <<>>, inbound |-> first, up |-> <<>>]

-----------------------------------------------------------------------------
(* The server.  A handler that spawns runs on the read loop of its client; *)
(* "me" is this client's, "other" belongs to another one, or to a          *)
(* connection of this client that is gone.                                 *)
NoJob == [at |-> "idle", size |-> 0, region |-> NoRegion]

NewServer == [regions |-> <<>>, sub |-> NoRegion, sizes |-> [r \in Regions |-> DefaultSize],
              dying |-> {}, defaults |-> {}, fresh |-> 1, phase |-> "",
              me |-> NoJob, other |-> NoJob]

Exists(s, r) == r \in ToSet(s.regions)

Next1(type) == net.up # <<>> /\ srv.me.at = "idle" /\ Head(net.up).type = type
Request == Head(net.up)
Handled == [net EXCEPT !.up = Tail(@)]

\* subscribeReq replaces the subscription; a region that is gone has none.
HandleSubscribe ==
    /\ Next1("subscribe")
    /\ srv' = [srv EXCEPT !.sub = IF Exists(srv, Request.region) THEN Request.region ELSE @]
    /\ net' = Handled /\ UNCHANGED <<loop, ui, tk, left>>

HandleUnsubscribe ==
    /\ Next1("unsubscribe")
    /\ srv' = [srv EXCEPT !.sub = NoRegion]
    /\ net' = Handled /\ UNCHANGED <<loop, ui, tk, left>>

HandleResize ==
    /\ Next1("resize")
    /\ srv' = IF Exists(srv, Request.region)
              THEN [srv EXCEPT !.sizes[Request.region] = Request.size] ELSE srv
    /\ net' = Handled /\ UNCHANGED <<loop, ui, tk, left>>

\* KillRegion only signals the region's program.
HandleKill ==
    /\ Next1("kill")
    /\ srv' = IF Exists(srv, Request.region) THEN [srv EXCEPT !.dying = @ \union {Request.region}] ELSE srv
    /\ net' = Handled /\ UNCHANGED <<loop, ui, tk, left>>

HandleSpawn ==
    /\ Next1("spawn")
    /\ srv' = [srv EXCEPT !.me = [NoJob EXCEPT !.at = "spawn"]]
    /\ net' = Handled /\ UNCHANGED <<loop, ui, tk, left>>

(* findOrCreateSession, for the client c: the look at the session and, if  *)
(* there is none, the decision to spawn its default program, under the     *)
(* mutex of the name.                                                      *)
FreeAlways(s) == TRUE       \* A defect: there is no mutex.
Free(s) == "create" \notin {s.me.at, s.other.at}

findOrCreateSession(s, size) ==
    [NoJob EXCEPT !.at = IF s.regions = <<>> THEN "create" ELSE "connected", !.size = size]

HandleConnect ==
    /\ Next1("connect") /\ Free(srv)
    /\ srv' = [srv EXCEPT !.me = findOrCreateSession(srv, Request.size)]
    /\ net' = Handled /\ UNCHANGED <<loop, ui, tk, left>>

\* handleUpgradeCheck, handleClientBinaryDownload
HandleQuestion ==
    /\ Next1("check") \/ Next1("download")
    /\ \E v \in IF Request.type = "check" THEN {"ok"} ELSE {"ok", "error"} :
           net' = Deliverable(Handled, <<Message("reply", <<>>, v, Request.id)>>)
    /\ UNCHANGED <<loop, ui, srv, tk, left>>

\* handleServerUpgrade answers, and then starts the upgrade with a signal.
HandleUpgrade ==
    /\ Next1("upgrade")
    /\ \E v \in {"ok", "error"} :
           /\ net' = Deliverable(Handled, <<Message("reply", <<>>, v, Request.id)>>)
           /\ srv' = IF v = "ok" /\ srv.phase \notin {"starting", "shutting down"}
                     THEN [srv EXCEPT !.phase = "signalled"] ELSE srv
    /\ UNCHANGED <<loop, ui, tk, left>>

\* SpawnRegion: the region enters the tree.
WithRegion(s, size, default) ==
    [s EXCEPT !.regions = Append(@, s.fresh), !.fresh = @ + 1, !.sizes[s.fresh] = size,
              !.defaults = IF default THEN @ \union {s.fresh} ELSE @]

Spawnable(job) == job.at \in {"create", "spawn"} /\ srv.fresh \in Regions

(* The handler's region is in the tree.  A SpawnResponse may be written    *)
(* before the tree event, which follows the end of the request; a          *)
(* SessionConnectResponse needs another request of the loop first.         *)
Spawn ==
    LET s == WithRegion(srv, srv.me.size, srv.me.at = "create")
        tree == TreeMessage(s)
        answer == Message("spawned", <<>>, srv.fresh, 0)
    IN  /\ Spawnable(srv.me)
        /\ \/ /\ srv' = [s EXCEPT !.me.at = IF srv.me.at = "spawn" THEN "spawned" ELSE "connected",
                                  !.me.region = srv.fresh]
              /\ net' = Deliverable(net, <<tree>>)
           \/ /\ srv.me.at = "spawn"
              /\ srv' = [s EXCEPT !.me = NoJob]
              /\ net' = Deliverable(net, <<answer, tree>>)
        /\ UNCHANGED <<loop, ui, tk, left>>

Answer ==
    /\ srv.me.at \in {"spawned", "connected"}
    /\ srv' = [srv EXCEPT !.me = NoJob]
    /\ net' = Deliverable(net, <<Message(srv.me.at, <<>>, srv.me.region, 0)>>)
    /\ UNCHANGED <<loop, ui, tk, left>>

\* Another client connects to the session, or spawns into it.
OtherAsks ==
    /\ srv.other.at = "idle" /\ Spend("other")
    /\ \/ Free(srv) /\ srv' = [srv EXCEPT !.other = findOrCreateSession(srv, DefaultSize)]
       \/ srv' = [srv EXCEPT !.other = [NoJob EXCEPT !.at = "spawn"]]
    /\ UNCHANGED <<loop, ui, net, tk>>

OtherSpawns ==
    /\ Spawnable(srv.other)
    /\ LET s == WithRegion(srv, srv.other.size, srv.other.at = "create")
       IN  srv' = [s EXCEPT !.other = NoJob] /\ net' = Deliverable(net, <<TreeMessage(s)>>)
    /\ UNCHANGED <<loop, ui, tk, left>>

OtherDone ==
    /\ srv.other.at \in {"spawned", "connected"}
    /\ srv' = [srv EXCEPT !.other = NoJob]
    /\ UNCHANGED <<loop, ui, net, tk, left>>

\* A program ends, by itself or killed: destroyRegion.
Exited(s, r) ==
    [s EXCEPT !.regions = Keeping(ToSet(@) \ {r}, @), !.dying = @ \ {r},
              !.sub = IF @ = r THEN NoRegion ELSE @]

RegionExits ==
    \E r \in ToSet(srv.regions) :
        /\ IF r \in srv.dying THEN UNCHANGED left ELSE Spend("exit")
        /\ srv' = Exited(srv, r)
        /\ net' = Deliverable(net, <<TreeMessage(Exited(srv, r))>>)
        /\ UNCHANGED <<loop, ui, tk>>

(* The live upgrade: its phases are published in the tree.  A failed one   *)
(* stays published until the next attempt.                                 *)
UpgradePhase ==
    /\ \/ srv.phase = "signalled" /\ srv' = [srv EXCEPT !.phase = "starting"]
       \/ /\ srv.phase = "starting"
          /\ \E p \in {"failed", "shutting down"} : srv' = [srv EXCEPT !.phase = p]
    /\ net' = Deliverable(net, <<TreeMessage(srv')>>)
    /\ UNCHANGED <<loop, ui, tk, left>>

-----------------------------------------------------------------------------
(* The connection. *)

\* runConnection: dispatchOutbound.  On a broken connection it is lost.
ForwardOut ==
    /\ net.link \in {"up", "broken"} /\ net.out # <<>>
    /\ net' = [net EXCEPT !.out = Tail(@), !.up = IF net.link = "up" THEN Append(@, Head(net.out)) ELSE @]
    /\ UNCHANGED <<loop, ui, srv, tk, left>>

(* The connection breaks: requests not yet read are lost, and the end of   *)
(* what was on its way back.  The server drops the client; a handler that  *)
(* runs goes on.                                                           *)
Broken(s, n, k) ==
    /\ srv' = [s EXCEPT !.sub = NoRegion, !.me = NoJob, !.other = IF s.me = NoJob THEN @ ELSE s.me]
    /\ net' = [n EXCEPT !.link = "broken", !.up = <<>>, !.inbound = SubSeq(@, 1, k)]

Droppable == net.link = "up" /\ (srv.me = NoJob \/ srv.other = NoJob)

Breaks ==
    /\ Droppable /\ Spend("break")
    /\ \E k \in 0..Len(net.inbound) : Broken(srv, net, k)
    /\ UNCHANGED <<loop, ui, tk>>

\* The server dies and is started again without its regions.
Restarts ==
    /\ Droppable /\ Spend("restart")
    /\ \E k \in 0..Len(net.inbound) :
           Broken([NewServer EXCEPT !.fresh = srv.fresh], net, k)
    /\ UNCHANGED <<loop, ui, tk>>

\* The upgraded server takes over: the regions live on.
TakesOver ==
    /\ net.link = "up" /\ srv.phase = "shutting down" /\ srv.me = NoJob
    /\ Broken([srv EXCEPT !.phase = ""], net, Len(net.inbound))
    /\ UNCHANGED <<loop, ui, tk, left>>

\* runConnection returns and reconnect announces it.
Disconnect ==
    /\ net.link = "broken" /\ Len(net.life) < LifeCap
    /\ net' = [net EXCEPT !.link = "down", !.life = Append(@, "disconnected")]
    /\ UNCHANGED <<loop, ui, srv, tk, left>>

RedialFails ==
    /\ net.link = "down" /\ Len(net.life) < LifeCap /\ Spend("redial")
    /\ net' = [net EXCEPT !.life = Append(@, "disconnected")]
    /\ UNCHANGED <<loop, ui, srv, tk>>

\* The server's identify has come, with the snapshot behind it.
Redial ==
    /\ net.link = "down" /\ Len(net.life) < LifeCap
    /\ net' = [net EXCEPT !.link = "up", !.life = Append(@, "reconnected"),
                          !.inbound = Append(@, TreeMessage(srv))]
    /\ UNCHANGED <<loop, ui, srv, tk, left>>

-----------------------------------------------------------------------------
(* The event loop.  It reads all its channels in one select, so it takes   *)
(* their messages in any order; before the window's size is known it reads *)
(* nothing else.                                                           *)
Listening == loop \in {"overlay", "run", "reconnect"}

HasSession == ui.sessions # <<>>
Session == ui.sessions[1]

\* A dialog has the keyboard, and absorbs it.
Typing == Listening /\ "dialog" \notin tk.layers

(* The session after a change, and what it asks for.                       *)
(* forwardToActiveSession removes a session that has lost its last tab.    *)
Kept(s) == IF s.tabs = <<>> /\ Session.tabs # <<>> THEN <<>> ELSE <<s>>

Shows(r, chosen, n) ==
    /\ ui' = [ui EXCEPT !.sessions = Kept(r.session), !.chosen = chosen]
    /\ net' = Send(n, r.sends)

\* What the user asked to see stays, unless it is gone or the region of
\* the last SpawnResponse appears.
StillChosen(s) ==
    IF Session.pending # NoRegion /\ s.pending = NoRegion THEN Session.pending
    ELSE IF s.pending # NoRegion \/ ui.chosen \in ToSet(s.tabs) THEN ui.chosen
    ELSE activeRegionID(s)

Init ==
    /\ left \in Starts
    /\ loop = left.loop
    /\ srv = NewServer
    /\ net = IF left.loop = "overlay" THEN NewNet("none", <<>>)
             ELSE NewNet("up", <<TreeMessage(NewServer)>>)
    /\ ui = [size |-> DefaultSize, tree |-> NoTree, chosen |-> NoRegion, dials |-> 0,
             sessions |-> IF left.loop = "setup" THEN <<NewSession(DefaultSize)>> ELSE <<>>]
    /\ tk = NewRunner

\* CheckForUpgrades
Checks == IF left.check > 0 THEN tk' = Run(tk, "check", {}) /\ Spend("check") ELSE UNCHANGED <<tk, left>>

\* initialSetup, up to the first tea.WindowSizeMsg.
InitialSetup ==
    /\ loop = "setup" /\ loop' = "run"
    /\ LET s == [Session EXCEPT !.size = 1]
       IN  /\ ui' = [ui EXCEPT !.size = 1, !.sessions = <<s>>]
           /\ net' = Send(net, Reconnect(s))
    /\ Checks /\ UNCHANGED srv

WindowResized ==
    /\ Listening /\ Spend("resize")
    /\ \E size \in 1..2 \ {ui.size} :
           IF HasSession
           THEN /\ ui' = [ui EXCEPT !.size = size, !.sessions = <<WindowSize(Session, size).session>>]
                /\ net' = Send(net, WindowSize(Session, size).sends)
           ELSE ui' = [ui EXCEPT !.size = size] /\ UNCHANGED net
    /\ UNCHANGED <<loop, srv, tk>>

-----------------------------------------------------------------------------
(* processServerMsg. *)
Arrives(type) == loop \in {"run", "reconnect"} /\ net.inbound # <<>> /\ Head(net.inbound).type = type
Arrived == Head(net.inbound)
Taken == [net EXCEPT !.inbound = Tail(@)]

\* The phases that say nothing to a task are left out of its stream.
FollowPhase(phase) ==
    IF phase \in {"starting", "failed", "shutting down"} THEN CheckFilters(tk, "tree", phase) ELSE tk

OnTree ==
    /\ Arrives("tree")
    /\ tk' = FollowPhase(Arrived.value)
    /\ LET tree == [valid |-> TRUE, regions |-> Arrived.regions]
           r == syncFromTree(Session, Arrived.regions)
       IN  IF HasSession
           THEN /\ ui' = [ui EXCEPT !.tree = tree, !.sessions = Kept(r.session),
                                    !.chosen = StillChosen(r.session)]
                /\ net' = Send(Taken, r.sends)
           ELSE ui' = [ui EXCEPT !.tree = tree] /\ net' = Taken
    /\ UNCHANGED <<loop, srv, left>>

OnSessionConnectResponse ==
    /\ Arrives("connected")
    /\ LET r == SessionConnectResponse(Session, ui.tree.valid, ui.tree.regions)
       IN  IF HasSession THEN Shows(r, StillChosen(r.session), Taken) ELSE net' = Taken /\ UNCHANGED ui
    /\ UNCHANGED <<loop, srv, tk, left>>

OnSpawnResponse ==
    /\ Arrives("spawned")
    /\ IF HasSession THEN Shows(SpawnResponse(Session, Arrived.value), Arrived.value, Taken)
       ELSE net' = Taken /\ UNCHANGED ui
    /\ UNCHANGED <<loop, srv, tk, left>>

OnReply ==
    /\ Arrives("reply")
    /\ tk' = Reply(tk, Arrived.req, Arrived.value)
    /\ net' = Taken /\ UNCHANGED <<loop, ui, srv, left>>

-----------------------------------------------------------------------------
(* Lifecycle. *)
Announces(what) == net.life # <<>> /\ Head(net.life) = what
Announced == [net EXCEPT !.life = Tail(@)]

\* Run: the connection's requests will not be answered.
OnDisconnected ==
    /\ loop = "run" /\ Announces("disconnected")
    /\ loop' = "reconnect" /\ tk' = FailPendingReplies(tk)
    /\ net' = Announced /\ UNCHANGED <<ui, srv, left>>

\* reconnectLoop: only the time of the next try is noted.
OnRetry ==
    /\ loop = "reconnect" /\ Announces("disconnected")
    /\ net' = Announced /\ UNCHANGED <<loop, ui, srv, tk, left>>

\* reconnectLoop and ReconnectAllMsg: the session and the subscription are
\* asked for again.
OnReconnected ==
    /\ loop = "reconnect" /\ Announces("reconnected") /\ loop' = "run"
    /\ net' = IF HasSession THEN Send(Announced, Reconnect(Session) \o Activate(Session)) ELSE Announced
    /\ LET woken == CheckFilters(tk, "reconnected", "ok")
       IN  IF left.check > 0 THEN tk' = Run(woken, "check", {}) /\ Spend("check")
           ELSE tk' = woken /\ UNCHANGED left
    /\ UNCHANGED <<ui, srv>>

-----------------------------------------------------------------------------
(* The user. *)
NextTab ==
    /\ Typing /\ HasSession /\ Len(Session.tabs) > 1 /\ Spend("key")
    /\ LET r == nextTab(Session) IN Shows(r, activeRegionID(r.session), net)
    /\ UNCHANGED <<loop, srv, tk>>

OpenTab ==
    /\ Typing /\ HasSession /\ Spend("open")
    /\ net' = Send(net, <<Ask("spawn", NoRegion, DefaultSize)>>)
    /\ UNCHANGED <<loop, ui, srv, tk>>

CloseTab ==
    /\ Typing /\ HasSession /\ Session.tabs # <<>> /\ Spend("key")
    /\ net' = Send(net, <<Ask("kill", activeRegionID(Session), 0)>>)
    /\ UNCHANGED <<loop, ui, srv, tk>>

\* killSession
CloseSession ==
    /\ Typing /\ HasSession /\ Spend("key")
    /\ net' = Send(net, KillAllRegions(Session) \o Deactivate(Session))
    /\ ui' = [ui EXCEPT !.sessions = <<>>]
    /\ UNCHANGED <<loop, srv, tk>>

Detach ==
    /\ Typing /\ Spend("detach") /\ loop' = "stopped"
    /\ net' = IF HasSession THEN Send(net, Deactivate(Session)) ELSE net
    /\ UNCHANGED <<ui, srv, tk>>

\* Another server, empty as yet; the old one is left.
Adopted == NewNet("up", <<TreeMessage([NewServer EXCEPT !.fresh = srv.fresh])>>)

Adopts ==
    /\ srv' = [NewServer EXCEPT !.fresh = srv.fresh]
    /\ ui' = [ui EXCEPT !.sessions = <<NewSession(ui.size)>>, !.chosen = NoRegion,
                        !.dials = IF loop = "overlay" THEN 1 ELSE @ - 1]
    /\ net' = Send(Adopted, Reconnect(NewSession(ui.size)))

(* ConnectToServerMsg dials on a goroutine (connectFn); connectOverlay,    *)
(* where the client starts without a server, dials as well, and goes on.   *)
ConnectTo ==
    /\ Typing /\ Spend("connect")
    /\ IF loop = "overlay" THEN Adopts /\ loop' = "run"
       ELSE ui' = [ui EXCEPT !.dials = @ + 1] /\ UNCHANGED <<loop, net, srv>>
    /\ UNCHANGED tk

\* ConnectedMsg: the old server is closed, its messages are not read; the
\* requests it has not answered are not failed.
OnConnected ==
    /\ loop \in {"run", "reconnect"} /\ ui.dials > 0
    /\ Adopts /\ tk' = Orphaned(tk) /\ UNCHANGED <<loop, left>>

UpgradeCommand ==
    /\ Typing /\ loop # "overlay" /\ Spend("upgrade")
    /\ \E avail \in {{"server"}, {"client"}, {"server", "client"}} : tk' = Run(tk, "upgrade", avail)
    /\ UNCHANGED <<loop, ui, net, srv>>

DialogKey ==
    /\ Listening /\ "dialog" \in tk.layers
    /\ \E i \in DOMAIN tk.tasks : tk.tasks[i].filter = "key"
    /\ \E key \in {"enter", "q"} : tk' = CheckFilters(tk, "key", key)
    /\ UNCHANGED <<loop, ui, net, srv, left>>

-----------------------------------------------------------------------------
(* The tasks. *)
TaskCalls ==
    \E i \in DOMAIN tk.tasks :
        /\ tk.tasks[i].at \in DOMAIN Steps /\ tk.posted = <<>>
        /\ tk' = Call(tk, i) /\ UNCHANGED <<loop, ui, net, srv, left>>

TaskReceives ==
    \E i \in DOMAIN tk.tasks :
        /\ tk.tasks[i].at \in Requesting \union Waiting /\ tk.tasks[i].inbox # <<>>
        /\ \E at \in After(tk.tasks[i], Head(tk.tasks[i].inbox)) : tk' = Recv(tk, i, at)
        /\ UNCHANGED <<loop, ui, net, srv, left>>

TaskReads ==
    \E i \in DOMAIN tk.tasks :
        /\ tk.tasks[i].at = "following" /\ tk.tasks[i].stream # <<>>
        /\ tk' = RecvPhase(tk, i) /\ UNCHANGED <<loop, ui, net, srv, left>>

\* applyClientUpgrade closes the connection, then becomes the new program;
\* if that fails the dialog says so.
TaskApplies ==
    \E i \in DOMAIN tk.tasks :
        /\ tk.tasks[i].at = "apply" /\ net' = [net EXCEPT !.link = "none"]
        /\ \/ loop' = "stopped" /\ UNCHANGED tk
           \/ tk' = [tk EXCEPT !.tasks[i].at = "error"] /\ UNCHANGED loop
        /\ UNCHANGED <<ui, srv, left>>

OnTaskMsg ==
    /\ Listening /\ tk.posted # <<>>
    /\ tk' = HandleMsg(tk) /\ UNCHANGED <<loop, ui, net, srv, left>>

\* What the command of such a message brings; the loop sends the requests.
OnCommandMsg ==
    /\ Listening
    /\ \E m \in tk.commands :
           /\ tk' = Perform(tk, m, Len(net.out) < OutCap)
           /\ net' = IF m.call = "send"
                     THEN Send(net, <<[Ask(m.arg, NoRegion, 0) EXCEPT !.id = tk.nextReq + 1]>>)
                     ELSE net
    /\ UNCHANGED <<loop, ui, srv, left>>

-----------------------------------------------------------------------------
Server == \/ HandleSubscribe \/ HandleUnsubscribe \/ HandleResize \/ HandleKill \/ HandleSpawn
          \/ HandleConnect \/ HandleQuestion \/ HandleUpgrade \/ Spawn \/ Answer
          \/ OtherSpawns \/ OtherDone \/ UpgradePhase \/ TakesOver
Connection == ForwardOut \/ Disconnect \/ Redial
EventLoop == \/ InitialSetup \/ OnTree \/ OnSessionConnectResponse \/ OnSpawnResponse \/ OnReply
             \/ OnDisconnected \/ OnRetry \/ OnReconnected \/ OnConnected
             \/ OnTaskMsg \/ OnCommandMsg
TaskSteps == TaskCalls \/ TaskReceives \/ TaskReads \/ TaskApplies
User == \/ WindowResized \/ NextTab \/ OpenTab \/ CloseTab \/ CloseSession \/ Detach \/ ConnectTo
        \/ UpgradeCommand \/ DialogKey
Faults == Breaks \/ Restarts \/ RedialFails \/ RegionExits \/ OtherAsks

System == Server \/ Connection \/ (loop # "stopped" /\ (EventLoop \/ TaskSteps))
Next == System \/ (loop # "stopped" /\ User) \/ Faults

\* Every goroutine runs when it can; the user need not do anything.
Spec == Init /\ [][Next]_vars /\ WF_vars(System)

-----------------------------------------------------------------------------

(* Nothing is on its way, in either direction. *)
Settled ==
    /\ loop = "run" /\ net.link = "up" /\ ui.dials = 0
    /\ net.out = <<>> /\ net.up = <<>> /\ net.inbound = <<>> /\ net.life = <<>>
    /\ srv.me = NoJob /\ srv.dying = {}

(* The client receives the output of the region it shows, and of no other  *)
(* (Activate, Deactivate, syncFromTree, ReconnectAllMsg), and that region  *)
(* has the size of its window, whoever spawned it at whatever size         *)
(* (Activate, tea.WindowSizeMsg).                                          *)
VisibleServed ==
    Settled =>
        /\ srv.sub = IF HasSession THEN activeRegionID(Session) ELSE NoRegion
        /\ HasSession /\ Session.tabs # <<>> => srv.sizes[activeRegionID(Session)] = ui.size

(* What is shown is what the user last chose or spawned, while it lives    *)
(* (syncFromTree's restoring of the active tab; a region that a            *)
(* SpawnResponse named and that was never seen suspends it).               *)
VisibleIsChosen ==
    Settled /\ HasSession =>
        \/ Session.tabs = <<>> \/ Session.pending # NoRegion
        \/ activeRegionID(Session) = ui.chosen

(* Two clients that connect to a session no one has created yet get one    *)
(* set of default programs between them (sessionCreateMu).                 *)
SessionCreatedOnce == Cardinality(srv.defaults \intersect ToSet(srv.regions)) <= 1

At(i, places) == i \in DOMAIN tk.tasks /\ tk.tasks[i].at \in places

\* The client has ended, or has closed its connection for good.
Closed == loop = "stopped" \/ net.link = "none"

\* The loop gave the request of task i up without telling the task.
Orphan(i) == \E q \in DOMAIN tk.pending \intersect tk.orphans : tk.pending[q] = i

(* A task's request ends, with an answer or with an error, when the        *)
(* connection answers, breaks, comes back or is closed, also one that the  *)
(* loop registers after the disconnect (failPendingReplies).  Two          *)
(* exceptions: the loop has gone on to another server with the request     *)
(* under way (ConnectedMsg fails nothing), and the request found Server.ch *)
(* full (the loop does not look at what Send returns).                     *)
RequestsEnd ==
    \A i \in 1..3 : At(i, Requesting) ~> Closed \/ Orphan(i) \/ ~At(i, Requesting)
=============================================================================
