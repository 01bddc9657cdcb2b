------------------------------- MODULE Upgrade -------------------------------
(***************************************************************************)
(* The live upgrade of nxtermd (internal/server/upgrade.go, upgrade_recv.go*)
(* and upgrade_protocol.go): HandleUpgrade starts a new process, hands it  *)
(* the listeners, parks the event loop, stops the actors of the PTY        *)
(* regions, sends their screens and their PTYs, and waits for "ready".  If *)
(* anything fails it resumes the event loop, restarts the actors and kills *)
(* the new process.                                                        *)
(*                                                                         *)
(* The PTYs are shared by the two processes: what a program prints waits   *)
(* in the kernel until either process reads it.  A program's output is a   *)
(* sequence of numbered chunks, and a screen the sequence of the chunks it *)
(* has been fed.  Programs do not end here (ServerCore follows their end), *)
(* native regions are not handed over, and one client's subscription       *)
(* stands for the requests that reach the event loop.                      *)
(***************************************************************************)
EXTENDS Naturals, Sequences

CONSTANTS
    Region,     \* the PTY regions
    Slow,       \* the regions whose readLoop may not stop within two seconds
    NoRegion,   \* no subscription
    NoRequest,
    MailCap,    \* capacity of an actor's msgs channel
    MaxOutput,  \* bound on chunks printed per region
    MaxTries,   \* bound on upgrades attempted
    MaxAsked    \* bound on requests of the client

ASSUME UpgradeAssumption ==
    /\ Slow \subseteq Region
    /\ NoRegion \notin Region /\ NoRequest \notin Region \union {NoRegion}
    /\ MailCap \in Nat \ {0}
    /\ MaxOutput \in Nat /\ MaxTries \in Nat /\ MaxAsked \in Nat

VARIABLES
    pc,         \* where HandleUpgrade is
    tries,      \* upgrades attempted
    noAccept,   \* Server.noAccept
    paused,     \* the event loop is parked in upgradeReq
    told,       \* the regions whose actor has been sent stopActorMsg
    actor,      \* the old process's actors: running, stopping or stopped
    reader,     \* whether each readLoop of the old process runs
    outlived,   \* the regions whose Stop gave up waiting for readLoop
    stray,      \* how many chunks a readLoop left over from before a rollback
                \* can still take: the room of its old channel, and one more
    carry,      \* what each readLoop holds back: an incomplete sequence
    hand,       \* what each readLoop is about to send to its actor
    mail,       \* each actor's msgs channel: chunks, and Stop
    screen,     \* the old process's screens
    kernel,     \* what each PTY holds for whoever reads it
    printed,    \* how many chunks each program has printed
    child,      \* where RecvUpgrade is in the new process
    conn,       \* messages on the socket pair
    snap,       \* the screens in the state message
    restored,   \* the regions whose actor runs in the new process
    newScreen,  \* the new process's screens
    watch,      \* the region the event loop has the client subscribed to
    subscribers,\* the regions whose actor has the client as a subscriber
    request,    \* the client's request in the event loop's channel
    asked       \* requests made

readVars   == <<outlived, stray>>
oldVars    == <<actor, reader, readVars, carry, hand, mail, screen>>
childVars  == <<child, restored, newScreen>>
clientVars == <<watch, subscribers, request, asked>>
handVars   == <<pc, tries, noAccept, paused, told, conn, snap>>
vars == <<handVars, oldVars, kernel, printed, childVars, clientVars>>

Stop == <<>>  \* stopActorMsg; a ptyDataMsg is a non-empty sequence of chunks

Init ==
    /\ pc = "idle" /\ tries = 0 /\ noAccept = FALSE /\ paused = FALSE /\ told = {}
    /\ conn = <<>> /\ snap = [r \in Region |-> <<>>]
    /\ actor = [r \in Region |-> "running"] /\ reader = [r \in Region |-> TRUE]
    /\ outlived = {} /\ stray = [r \in Region |-> 0]
    /\ carry = [r \in Region |-> <<>>] /\ hand = [r \in Region |-> <<>>]
    /\ mail = [r \in Region |-> <<>>] /\ screen = [r \in Region |-> <<>>]
    /\ kernel = [r \in Region |-> <<>>] /\ printed = [r \in Region |-> 0]
    /\ child = "none" /\ restored = {} /\ newScreen = [r \in Region |-> <<>>]
    /\ watch = NoRegion /\ subscribers = {} /\ request = NoRequest /\ asked = 0

-----------------------------------------------------------------------------
(* The programs and the old process's side of each PTY. *)

Output(r) ==
    /\ printed[r] < MaxOutput
    /\ printed' = [printed EXCEPT ![r] = @ + 1]
    /\ kernel' = [kernel EXCEPT ![r] = Append(@, printed[r] + 1)]
    /\ UNCHANGED <<handVars, oldVars, childVars, clientVars>>

(* readLoop reads a chunk.  sequenceSafe lets everything up to the last    *)
(* complete sequence pass and carries the rest to the next read.  Once     *)
(* Stop has set the deadline in the past, Read returns nothing any more,   *)
(* but for a Read that is already under way, and but for a PTY without     *)
(* deadlines, because setNonblockPollable failed (RestoreRegion goes on).  *)
Read(r) ==
    /\ pc # "exited"
    /\ reader[r] /\ hand[r] = <<>> /\ kernel[r] # <<>>
    /\ actor[r] = "running" \/ r \in Slow
    /\ kernel' = [kernel EXCEPT ![r] = Tail(@)]
    /\ \/ /\ hand' = [hand EXCEPT ![r] = Append(carry[r], Head(kernel[r]))]
          /\ carry' = [carry EXCEPT ![r] = <<>>]
       \/ /\ carry[r] = <<>>
          /\ carry' = [carry EXCEPT ![r] = <<Head(kernel[r])>>]
          /\ UNCHANGED hand
    /\ UNCHANGED <<handVars, actor, reader, readVars, mail, screen, printed>>
    /\ UNCHANGED <<childVars, clientVars>>

(* A readLoop that outlived its actor goes on after the rollback, which    *)
(* has cleared the deadline.  Nobody takes what it puts into its channel.  *)
StrayRead(r) ==
    /\ pc # "exited"
    /\ stray[r] > 0 /\ kernel[r] # <<>>
    /\ kernel' = [kernel EXCEPT ![r] = Tail(@)]
    /\ stray' = [stray EXCEPT ![r] = @ - 1]
    /\ UNCHANGED <<handVars, actor, reader, outlived, carry, hand, mail, screen, printed>>
    /\ UNCHANGED <<childVars, clientVars>>

(* The chunks go to the actor as one ptyDataMsg. *)
Push(r) ==
    /\ pc # "exited"
    /\ hand[r] # <<>> /\ Len(mail[r]) < MailCap
    /\ mail' = [mail EXCEPT ![r] = Append(@, hand[r])]
    /\ hand' = [hand EXCEPT ![r] = <<>>]
    /\ UNCHANGED <<handVars, actor, reader, readVars, carry, screen, kernel, printed>>
    /\ UNCHANGED <<childVars, clientVars>>

(* The deadline ends readLoop, or actorDone ends its send once the actor   *)
(* has stopped; what it carries or holds goes with it.                     *)
ReadLoopEnds(r) ==
    /\ reader[r]
    /\ (actor[r] = "stopping" /\ hand[r] = <<>>) \/ actor[r] = "stopped"
    /\ reader' = [reader EXCEPT ![r] = FALSE]
    /\ carry' = [carry EXCEPT ![r] = <<>>]
    /\ hand' = [hand EXCEPT ![r] = <<>>]
    /\ UNCHANGED <<handVars, actor, readVars, mail, screen, kernel, printed>>
    /\ UNCHANGED <<childVars, clientVars>>

(* The actor takes ptyDataMsg, or stopActorMsg and with it begins to wait  *)
(* for readerDone.                                                         *)
Take(r) ==
    /\ pc # "exited"
    /\ actor[r] = "running" /\ mail[r] # <<>>
    /\ mail' = [mail EXCEPT ![r] = Tail(@)]
    /\ IF Head(mail[r]) = Stop
       THEN /\ actor' = [actor EXCEPT ![r] = "stopping"]
            /\ UNCHANGED screen
       ELSE /\ screen' = [screen EXCEPT ![r] = @ \o Head(mail[r])]
            /\ UNCHANGED actor
    /\ UNCHANGED <<handVars, reader, readVars, carry, hand, kernel, printed>>
    /\ UNCHANGED <<childVars, clientVars>>

(* A defect: the actor stops without waiting for its readLoop. *)
ActorStopsAtOnce(r) ==
    /\ actor[r] = "stopping"
    /\ actor' = [actor EXCEPT ![r] = "stopped"]
    /\ UNCHANGED <<handVars, reader, readVars, carry, hand, mail, screen, kernel, printed>>
    /\ UNCHANGED <<childVars, clientVars>>

(* Stop gives up after two seconds on a readLoop that is still reading, or *)
(* that waits for room in the channel of an actor that waits for it.       *)
GivesUp(r) == r \in Slow \/ (hand[r] # <<>> /\ Len(mail[r]) = MailCap)

(* readerDone is closed, or Stop gives up: run returns, and nothing takes  *)
(* what is left in msgs.                                                   *)
ActorStops(r) ==
    /\ actor[r] = "stopping"
    /\ ~reader[r] \/ GivesUp(r)
    /\ actor' = [actor EXCEPT ![r] = "stopped"]
    /\ outlived' = outlived \union (IF reader[r] THEN {r} ELSE {})
    /\ UNCHANGED <<handVars, reader, stray, carry, hand, mail, screen, kernel, printed>>
    /\ UNCHANGED <<childVars, clientVars>>

-----------------------------------------------------------------------------
(* HandleUpgrade in the old process. *)

HandUnchanged == UNCHANGED <<oldVars, kernel, printed, clientVars>>

(* The new process is started. *)
StartUpgrade ==
    /\ pc = "idle" /\ tries < MaxTries
    /\ tries' = tries + 1
    /\ pc' = "spawned" /\ child' = "started" /\ conn' = <<>>
    /\ UNCHANGED <<noAccept, paused, told, snap, restored, newScreen>>
    /\ HandUnchanged

(* sendMsg: it fails when the new process is gone. *)
SendMsg(type, next, otherwise) ==
    IF child = "dead" THEN pc' = otherwise /\ UNCHANGED conn
    ELSE pc' = next /\ conn' = Append(conn, type)

SendListeners ==
    /\ pc = "spawned"
    /\ SendMsg("listener_fds", "listeners", "idle")
    /\ UNCHANGED <<tries, noAccept, paused, told, snap, childVars>>
    /\ HandUnchanged

StopAccepting ==
    /\ pc = "listeners"
    /\ noAccept' = TRUE /\ pc' = "accepting stopped"
    /\ UNCHANGED <<tries, paused, told, conn, snap, childVars>>
    /\ HandUnchanged

(* A defect: the pause is a receive from the request channel, which eats a *)
(* request that is there (the pause before upgrade_pause_test.go).         *)
DrainConsuming ==
    /\ pc = "accepting stopped"
    /\ paused' = TRUE /\ pc' = "drained"
    /\ request' = NoRequest
    /\ UNCHANGED <<tries, noAccept, told, conn, snap, childVars>>
    /\ UNCHANGED <<oldVars, kernel, printed, watch, subscribers, asked>>

(* drainForUpgrade and upgradeReq: the event loop parks, requests stay in  *)
(* its channel.                                                            *)
Drain ==
    /\ pc = "accepting stopped"
    /\ paused' = TRUE /\ pc' = "drained"
    /\ UNCHANGED <<tries, noAccept, told, conn, snap, childVars>>
    /\ HandUnchanged

(* StopActor, one region after another. *)
StopActor(r) ==
    /\ pc = "drained" /\ r \notin told
    /\ \A q \in told : actor[q] = "stopped"
    /\ Len(mail[r]) < MailCap
    /\ mail' = [mail EXCEPT ![r] = Append(@, Stop)]
    /\ told' = told \union {r}
    /\ UNCHANGED <<pc, tries, noAccept, paused, conn, snap, childVars>>
    /\ UNCHANGED <<actor, reader, readVars, carry, hand, screen, kernel, printed, clientVars>>

(* A defect: the screens are taken while actors may still run. *)
SendStateEarly ==
    /\ pc = "drained"
    /\ snap' = screen
    /\ SendMsg("state", "state sent", "rollback")
    /\ UNCHANGED <<tries, noAccept, paused, told, childVars>>
    /\ HandUnchanged

(* buildUpgradeState, with every actor stopped. *)
SendState ==
    /\ pc = "drained" /\ told = Region
    /\ \A r \in Region : actor[r] = "stopped"
    /\ snap' = screen
    /\ SendMsg("state", "state sent", "rollback")
    /\ UNCHANGED <<tries, noAccept, paused, told, childVars>>
    /\ HandUnchanged

SendPtys ==
    /\ pc = "state sent"
    /\ SendMsg("pty_fds", "ptys sent", "rollback")
    /\ UNCHANGED <<tries, noAccept, paused, told, snap, childVars>>
    /\ HandUnchanged

SendComplete ==
    /\ pc = "ptys sent"
    /\ SendMsg("handoff_complete", "waiting", "rollback")
    /\ UNCHANGED <<tries, noAccept, paused, told, snap, childVars>>
    /\ HandUnchanged

(* "ready" arrives: clients are closed and the old process exits. *)
Succeed ==
    /\ pc = "waiting" /\ child = "serving"
    /\ pc' = "exited"
    /\ UNCHANGED <<tries, noAccept, paused, told, conn, snap, childVars>>
    /\ HandUnchanged

(* No answer within upgradeTimeout, or the new process is gone. *)
GiveUp ==
    /\ pc = "waiting"
    /\ pc' = "rollback"
    /\ UNCHANGED <<tries, noAccept, paused, told, conn, snap, childVars>>
    /\ HandUnchanged

(* A defect: new connections are still refused after the rollback. *)
ResumeLoopNotAccepting ==
    /\ pc = "rollback"
    /\ paused' = FALSE /\ pc' = "resuming"
    /\ UNCHANGED <<tries, noAccept, told, conn, snap, childVars>>
    /\ HandUnchanged

(* resumeAfterFailedUpgrade: the event loop resumes before the actors. *)
ResumeLoop ==
    /\ pc = "rollback"
    /\ noAccept' = FALSE /\ paused' = FALSE /\ pc' = "resuming"
    /\ UNCHANGED <<tries, told, conn, snap, childVars>>
    /\ HandUnchanged

(* ResumeActor: a new channel, a new readLoop, the same screen and         *)
(* subscribers.  A readLoop that is still there becomes a stray one.       *)
ResumeActor(r) ==
    /\ pc = "resuming" /\ r \in told
    /\ told' = told \ {r}
    /\ actor' = [actor EXCEPT ![r] = "running"]
    /\ reader' = [reader EXCEPT ![r] = TRUE]
    /\ mail' = [mail EXCEPT ![r] = <<>>]
    /\ carry' = [carry EXCEPT ![r] = <<>>] /\ hand' = [hand EXCEPT ![r] = <<>>]
    /\ stray' = [stray EXCEPT ![r] =
          IF reader[r] THEN @ + MailCap - Len(mail[r]) + (IF hand[r] = <<>> THEN 1 ELSE 0)
          ELSE @]
    /\ UNCHANGED <<pc, tries, noAccept, paused, conn, snap, childVars>>
    /\ UNCHANGED <<outlived, screen, kernel, printed, clientVars>>

(* Only then is the new process killed. *)
KillChild ==
    /\ pc = "resuming" /\ told = {}
    /\ pc' = "idle"
    /\ child' = "dead" /\ restored' = {}
    /\ UNCHANGED <<tries, noAccept, paused, told, conn, snap, newScreen>>
    /\ HandUnchanged

HandleUpgrade ==
    \/ SendListeners \/ StopAccepting \/ Drain
    \/ (\E r \in Region : StopActor(r) \/ ResumeActor(r))
    \/ SendState \/ SendPtys \/ SendComplete \/ Succeed \/ ResumeLoop \/ KillChild
    \/ (GiveUp /\ child = "dead")

-----------------------------------------------------------------------------
(* RecvUpgrade in the new process. *)

ChildUnchanged == UNCHANGED <<pc, tries, noAccept, paused, told, snap, oldVars, printed, clientVars>>

(* The messages come in one order, and RecvUpgrade insists on it. *)
Recv(from, type, next) ==
    /\ child = from
    /\ conn # <<>> /\ Head(conn) = type
    /\ child' = next /\ conn' = Tail(conn)
    /\ UNCHANGED <<restored, newScreen, kernel>>
    /\ ChildUnchanged

RecvUpgrade ==
    \/ Recv("started", "listener_fds", "has listeners")
    \/ Recv("has listeners", "state", "has state")
    \/ Recv("has state", "pty_fds", "has ptys")
    \/ Recv("has ptys", "handoff_complete", "restoring")

(* RestoreRegion: the actor and its readLoop run from here on. *)
RestoreRegion(r) ==
    /\ child = "restoring" /\ r \notin restored
    /\ restored' = restored \union {r}
    /\ newScreen' = [newScreen EXCEPT ![r] = snap[r]]
    /\ UNCHANGED <<child, conn, kernel>>
    /\ ChildUnchanged

(* The new process reads the PTY. *)
NewRead(r) ==
    /\ r \in restored /\ kernel[r] # <<>>
    /\ newScreen' = [newScreen EXCEPT ![r] = Append(@, Head(kernel[r]))]
    /\ kernel' = [kernel EXCEPT ![r] = Tail(@)]
    /\ UNCHANGED <<child, restored, conn>>
    /\ ChildUnchanged

(* "ready" is sent, and the new process serves whether or not it arrives.  *)
Ready ==
    /\ child = "restoring" /\ restored = Region
    /\ child' = "serving"
    /\ UNCHANGED <<restored, newScreen, conn, kernel>>
    /\ ChildUnchanged

(* The new process fails: it cannot rebuild a listener, or it crashes.     *)
ChildFails ==
    /\ child \in {"started", "has listeners", "has state", "has ptys", "restoring"}
    /\ child' = "dead" /\ restored' = {}
    /\ UNCHANGED <<newScreen, conn, kernel>>
    /\ ChildUnchanged

-----------------------------------------------------------------------------
(* The client and the event loop of the old process. *)

Ask(q) ==
    /\ pc # "exited"
    /\ request = NoRequest /\ asked < MaxAsked
    /\ request' = q /\ asked' = asked + 1
    /\ UNCHANGED <<handVars, oldVars, kernel, printed, childVars, watch, subscribers>>

(* subscribeReq or unsubscribeReq: an actor that is not running takes no   *)
(* message, and the event loop goes on without it.                         *)
HandleRequest ==
    /\ ~paused /\ request # NoRequest
    /\ LET running == {r \in Region : actor[r] = "running"}
       IN  subscribers' = (subscribers \ ({watch} \intersect running))
                              \union ({request} \intersect running)
    /\ watch' = request /\ request' = NoRequest
    /\ UNCHANGED <<handVars, oldVars, kernel, printed, childVars, asked>>

Next ==
    \/ StartUpgrade \/ HandleUpgrade \/ GiveUp
    \/ RecvUpgrade \/ Ready \/ ChildFails
    \/ \E r \in Region :
          \/ Output(r) \/ Read(r) \/ StrayRead(r) \/ Push(r) \/ ReadLoopEnds(r)
          \/ Take(r) \/ ActorStops(r)
          \/ RestoreRegion(r) \/ NewRead(r)
    \/ HandleRequest
    \/ \E q \in Region \union {NoRegion} : Ask(q)

Spec == Init /\ [][Next]_vars

(* Both processes run; a send to an actor's channel gets its turn.  The    *)
(* new process either goes on or is seen to have failed; nothing makes an  *)
(* upgrade start, time out or fail.                                        *)
FairSpec ==
    /\ Spec
    /\ SF_vars(HandleUpgrade)
    /\ WF_vars(RecvUpgrade) /\ WF_vars(Ready)
    /\ \A r \in Region :
          /\ WF_vars(RestoreRegion(r)) /\ WF_vars(NewRead(r))
          /\ WF_vars(Push(r)) /\ WF_vars(ReadLoopEnds(r))
          /\ WF_vars(Take(r)) /\ WF_vars(ActorStops(r))

-----------------------------------------------------------------------------
Chunks == Seq(1 .. MaxOutput)

(* buildUpgradeState, "With the readLoops stopped, no more bytes can       *)
(* mutate hscreen, so the snapshot is guaranteed consistent": until the    *)
(* handoff ends, the screens that were sent are the old process's screens. *)
SnapshotConsistent ==
    pc \in {"state sent", "ptys sent", "waiting", "rollback"} => snap = screen

(* StopActor, RestoreRegion and the rollback: the two processes have a     *)
(* readLoop on one PTY at the same time only in the rollback, until the    *)
(* new one is killed, or when Stop gave up on that very PTY after two      *)
(* seconds, with no more than a warning.                                   *)
SingleReader ==
    \A r \in Region :
        (reader[r] \/ stray[r] > 0) /\ r \in restored => pc = "resuming" \/ r \in outlived

(* upgradeReq: "client requests that arrive during the freeze must stay    *)
(* queued, not be consumed": a request leaves the channel only by being    *)
(* handled, and never while the event loop is parked.                      *)
RequestsKept ==
    [][request # NoRequest /\ request' = NoRequest => watch' = request /\ ~paused]_vars

\* The old process is as it was before the upgrade.
Restored ==
    /\ pc = "idle" /\ ~noAccept /\ ~paused /\ child = "dead"
    /\ \A r \in Region : actor[r] = "running" /\ reader[r]

(* HandleUpgrade as a whole: an upgrade, once begun, either hands over, or *)
(* leaves the old process as it was: accepting, its event loop and all its *)
(* actors running, and the new process gone.                               *)
UpgradeEnds == pc # "idle" ~> pc = "exited" \/ Restored
=============================================================================
