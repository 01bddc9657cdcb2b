----------------------------- MODULE ServerCore -----------------------------
(***************************************************************************)
(* The heart of nxtermd: the event loop of internal/server, which owns the *)
(* tree and the routing maps, and one actor goroutine per region, which    *)
(* owns the region's subscribers and overlay.  The event loop talks to an  *)
(* actor only through the actor's bounded mailbox: removals are fire and   *)
(* forget; adding a subscriber, registering an overlay and asking for the  *)
(* length of the scrollback wait for the actor's answer.  Regions start in *)
(* a client's goroutine before the event loop hears of them, and end when  *)
(* their program exits: the actor stops and a goroutine of its own asks    *)
(* the event loop to forget the region.                                    *)
(*                                                                         *)
(* A request reaches the event loop through a FIFO channel shared by all   *)
(* goroutines.  Any two goroutines may send in either order, and one       *)
(* goroutine has one request out at a time, so handling a request is one   *)
(* action, enabled whenever the loop is idle; what a goroutine still owes  *)
(* the loop (starting, destroying, "closing") is state.  A handler that    *)
(* sends to an actor blocks while the mailbox is full, so every send is a  *)
(* step of its own, guarded by room, and the loop variable says where the  *)
(* handler is.  Region and client IDs are never reused.                    *)
(***************************************************************************)
EXTENDS Naturals, Sequences

CONSTANTS
    Client,     \* client IDs
    Region,     \* region IDs
    NoClient, NoRegion,
    Pty,        \* the regions that may run a program on a PTY
    Native,     \* the regions that may be driven by a client
    Printing,   \* the regions whose programs print anything
    MailCap     \* capacity of an actor's msgs channel (actorChanSize)

ASSUME ServerCoreAssumption ==
    /\ NoClient \notin Client
    /\ NoRegion \notin Region
    /\ Region = Pty \union Native
    /\ Printing \subseteq Region
    /\ MailCap \in Nat /\ MailCap >= 1

VARIABLES
    clients,         \* where each client is in its life
    regions,         \* the regions of the tree
    subscriptions,   \* client -> the region it watches
    clientOverlays,  \* client -> the region it last registered an overlay on
    regionOverlays,  \* region -> the client input is routed to
    loop,            \* where the event loop is in a handler of several steps
    actor,           \* where each region's actor is in its life
    mailbox,         \* each actor's msgs channel
    subscribers,     \* each actor's subscriber set
    overlay,         \* the client whose overlay each actor composites
    driver,          \* the client that drives a native region, or NoClient
    exited,          \* regions whose end is being, or has been, reported
    reporting,       \* native regions whose killer still has to tell the actor
    starting,        \* regions whose spawnRegionReq is still to be handled
    destroying,      \* regions whose destroyRegionReq is still to be handled
    closed           \* regions whose backend has been closed

loopVars   == <<clients, regions, subscriptions, clientOverlays, regionOverlays>>
actorVars  == <<actor, subscribers, overlay>>
regionVars == <<driver, exited, reporting, starting, destroying, closed>>
vars == <<loopVars, loop, actorVars, mailbox, regionVars>>

(* The loop in a handler: which step comes next, for which client and      *)
(* region, whether the actor it waits for has answered, and the regions it *)
(* is still to ask.                                                        *)
At(kind, c, r) ==
    [kind |-> kind, client |-> c, region |-> r, replied |-> FALSE, rest |-> {}]
Idle == At("idle", NoClient, NoRegion)
Asking(r, rest) ==
    [kind |-> "ask", client |-> NoClient, region |-> r, replied |-> FALSE, rest |-> rest]

InTree(c) == clients[c] \in {"connected", "closing"}

Init ==
    /\ clients = [c \in Client |-> "unused"]
    /\ regions = {}
    /\ subscriptions = [c \in Client |-> NoRegion]
    /\ clientOverlays = [c \in Client |-> NoRegion]
    /\ regionOverlays = [r \in Region |-> NoClient]
    /\ loop = Idle
    /\ actor = [r \in Region |-> "none"]
    /\ mailbox = [r \in Region |-> <<>>]
    /\ subscribers = [r \in Region |-> {}]
    /\ overlay = [r \in Region |-> NoClient]
    /\ driver = [r \in Region |-> NoClient]
    /\ exited = {} /\ reporting = {} /\ starting = {} /\ destroying = {} /\ closed = {}

-----------------------------------------------------------------------------
(* Messages to actors. *)
Msg(type, c) == [type |-> type, client |-> c]

(* A send into msgs selects on actorDone as well: a stopped actor takes    *)
(* nothing and blocks nobody, a running one must have room.                *)
HasRoom(r) == actor[r] = "running" => Len(mailbox[r]) < MailCap

Send(r, m) ==
    /\ HasRoom(r)
    /\ mailbox' = IF actor[r] = "running" THEN [mailbox EXCEPT ![r] = Append(@, m)]
                  ELSE mailbox

(* The same for a map's entry, which may name no region of the tree. *)
SendIfFound(r, m) == IF r \in regions THEN Send(r, m) ELSE UNCHANGED mailbox

-----------------------------------------------------------------------------
(* Clients come and go. *)

(* acceptClient and addClientReq. *)
Connect(c) ==
    /\ loop = Idle
    /\ clients[c] = "unused"
    /\ clients' = [clients EXCEPT ![c] = "connected"]
    /\ UNCHANGED <<regions, subscriptions, clientOverlays, regionOverlays>>
    /\ UNCHANGED <<loop, actorVars, mailbox, regionVars>>

(* ReadLoop ends, for whatever reason (KillClient included), and sends     *)
(* removeClientReq.                                                        *)
Disconnect(c) ==
    /\ clients[c] = "connected"
    /\ clients' = [clients EXCEPT ![c] = "closing"]
    /\ UNCHANGED <<regions, subscriptions, clientOverlays, regionOverlays>>
    /\ UNCHANGED <<loop, actorVars, mailbox, regionVars>>

(* removeClientReq is taken off the channel.  A handler of this client     *)
(* that waits for spawnRegionReq runs in its ReadLoop, so the removal      *)
(* comes after it.                                                         *)
RemoveClient(c) ==
    /\ loop = Idle
    /\ clients[c] = "closing"
    /\ \A r \in starting : driver[r] # c
    /\ loop' = At("unsub", c, NoRegion)
    /\ UNCHANGED <<loopVars, actorVars, mailbox, regionVars>>

(* Its first step: the subscription goes. *)
RemoveSubscription ==
    /\ loop.kind = "unsub"
    /\ LET c == loop.client IN
          /\ SendIfFound(subscriptions[c], Msg("remove", c))
          /\ subscriptions' = [subscriptions EXCEPT ![c] = NoRegion]
          /\ loop' = At("unlay", c, NoRegion)
    /\ UNCHANGED <<clients, regions, clientOverlays, regionOverlays, actorVars, regionVars>>

(* Its second step: the overlay goes, its routing only if c still owns it, *)
(* and the client leaves the tree.                                         *)
RemoveOverlay ==
    /\ loop.kind = "unlay"
    /\ LET c == loop.client IN
          /\ SendIfFound(clientOverlays[c], Msg("clear", c))
          /\ regionOverlays' = [r \in Region |->
                IF r = clientOverlays[c] /\ regionOverlays[r] = c THEN NoClient
                ELSE regionOverlays[r]]
          /\ clientOverlays' = [clientOverlays EXCEPT ![c] = NoRegion]
          /\ clients' = [clients EXCEPT ![c] = "gone"]
          /\ loop' = At("leave", c, NoRegion)
    /\ UNCHANGED <<regions, subscriptions, actorVars, regionVars>>

(* Its last step: DriverDisconnected reports the end of each native region *)
(* the departed driver leaves behind, once.                                *)
Orphaned(c) == {r \in regions : driver[r] = c}

DriverDisconnected(r) ==
    /\ loop.kind = "leave"
    /\ r \in Orphaned(loop.client) \ exited
    /\ Send(r, Msg("exit", NoClient))
    /\ exited' = exited \union {r}
    /\ UNCHANGED <<loopVars, loop, actorVars, driver, reporting, starting, destroying, closed>>

FinishRemove ==
    /\ loop.kind = "leave"
    /\ Orphaned(loop.client) \subseteq exited
    /\ loop' = Idle
    /\ UNCHANGED <<loopVars, actorVars, mailbox, regionVars>>

-----------------------------------------------------------------------------
(* Regions come and go. *)

(* NewRegion and NewNativeRegion: the actor runs, and its program may      *)
(* already end, before spawnRegionReq is sent.  A native region is driven  *)
(* by the client that asks for it.                                         *)
Spawn(r, d) ==
    /\ actor[r] = "none"
    /\ \E c \in Client :
          /\ clients[c] = "connected"
          /\ (d = NoClient /\ r \in Pty) \/ (d = c /\ r \in Native)
    /\ actor' = [actor EXCEPT ![r] = "running"]
    /\ driver' = [driver EXCEPT ![r] = d]
    /\ starting' = starting \union {r}
    /\ UNCHANGED <<loopVars, loop, mailbox, subscribers, overlay>>
    /\ UNCHANGED <<exited, reporting, destroying, closed>>

(* spawnRegionReq up to SetRegion, which asks the actor for the length of  *)
(* its scrollback before the region is in the tree.                        *)
HandleSpawn(r) ==
    /\ loop = Idle
    /\ r \in starting
    /\ starting' = starting \ {r}
    /\ loop' = Asking(r, {})
    /\ UNCHANGED <<loopVars, actorVars, mailbox, driver, exited, reporting, destroying, closed>>

(* setRegionGeometryReq, which a client's goroutine sends when it has      *)
(* resized a region: SetRegion again.                                      *)
SetRegionGeometry(r) ==
    /\ loop = Idle
    /\ r \in regions
    /\ \E c \in Client : clients[c] = "connected"
    /\ loop' = Asking(r, {})
    /\ UNCHANGED <<loopVars, actorVars, mailbox, regionVars>>

(* getRegionInfosReq: each region of a session, or of the tree, is asked,  *)
(* one after the other.                                                    *)
GetRegionInfos(r, rest) ==
    /\ loop = Idle
    /\ r \in regions /\ rest \subseteq regions \ {r}
    /\ \E c \in Client : clients[c] = "connected"
    /\ loop' = Asking(r, rest)
    /\ UNCHANGED <<loopVars, actorVars, mailbox, regionVars>>

(* ScrollbackLen, up to its wait for the actor. *)
ScrollbackLen ==
    /\ loop.kind = "ask"
    /\ Send(loop.region, Msg("length", NoClient))
    /\ loop' = [loop EXCEPT !.kind = "asked"]
    /\ UNCHANGED <<loopVars, actorVars, regionVars>>

(* The actor answered or stopped: SetRegion writes the node, which puts a  *)
(* spawned region into the tree, and the next region is asked.             *)
FinishLength ==
    /\ loop.kind = "asked"
    /\ loop.replied \/ actor[loop.region] = "stopped"
    /\ regions' = regions \union {loop.region}
    /\ \/ /\ loop.rest = {}
          /\ loop' = Idle
       \/ \E r \in loop.rest :
             loop' = Asking(r, loop.rest \ {r})
    /\ UNCHANGED <<clients, subscriptions, clientOverlays, regionOverlays>>
    /\ UNCHANGED <<actorVars, mailbox, regionVars>>

(* The output of a program, read by a PTY's readLoop or fed by a driver.   *)
Output(r) ==
    /\ r \in Printing
    /\ actor[r] = "running" /\ r \notin exited
    /\ driver[r] # NoClient => r \in regions /\ clients[driver[r]] = "connected"
    /\ Send(r, Msg("data", NoClient))
    /\ UNCHANGED <<loopVars, loop, actorVars, regionVars>>

(* waitLoop of a PTY: its program ends, by itself or through KillRegion.   *)
ChildExit(r) ==
    /\ actor[r] = "running" /\ driver[r] = NoClient /\ r \notin exited
    /\ Send(r, Msg("exit", NoClient))
    /\ exited' = exited \union {r}
    /\ UNCHANGED <<loopVars, loop, actorVars, driver, reporting, starting, destroying, closed>>

(* KillRegion of a native region, in the goroutine of the client that asks:*)
(* the backend is marked stopped first, and then the end is reported as    *)
(* soon as the mailbox has room.                                           *)
KillNative(r) ==
    /\ r \in regions /\ driver[r] # NoClient /\ r \notin exited
    /\ \E c \in Client : clients[c] = "connected"
    /\ exited' = exited \union {r}
    /\ reporting' = reporting \union {r}
    /\ UNCHANGED <<loopVars, loop, actorVars, mailbox, driver, starting, destroying, closed>>

ReportKill(r) ==
    /\ r \in reporting
    /\ Send(r, Msg("exit", NoClient))
    /\ reporting' = reporting \ {r}
    /\ UNCHANGED <<loopVars, loop, actorVars, driver, exited, starting, destroying, closed>>

(* A defect: subscriptions to the destroyed region stay in the map. *)
HandleDestroyKeepingSubscriptions(r) ==
    /\ loop = Idle
    /\ r \in destroying
    /\ destroying' = destroying \ {r}
    /\ IF r \in regions THEN
          /\ regions' = regions \ {r}
          /\ clientOverlays' = [c \in Client |->
                IF c = regionOverlays[r] THEN NoRegion ELSE clientOverlays[c]]
          /\ regionOverlays' = [regionOverlays EXCEPT ![r] = NoClient]
          /\ closed' = closed \union {r}
       ELSE UNCHANGED <<regions, clientOverlays, regionOverlays, closed>>
    /\ UNCHANGED <<clients, subscriptions, loop, actorVars, mailbox>>
    /\ UNCHANGED <<driver, exited, reporting, starting>>

(* destroyRegionReq, then destroyRegion's Close of what it found. *)
HandleDestroy(r) ==
    /\ loop = Idle
    /\ r \in destroying
    /\ destroying' = destroying \ {r}
    /\ IF r \in regions THEN
          /\ regions' = regions \ {r}
          /\ clientOverlays' = [c \in Client |->
                IF c = regionOverlays[r] THEN NoRegion ELSE clientOverlays[c]]
          /\ regionOverlays' = [regionOverlays EXCEPT ![r] = NoClient]
          /\ subscriptions' = [c \in Client |->
                IF subscriptions[c] = r THEN NoRegion ELSE subscriptions[c]]
          /\ closed' = closed \union {r}
       ELSE UNCHANGED <<regions, clientOverlays, regionOverlays, subscriptions, closed>>
    /\ UNCHANGED <<clients, loop, actorVars, mailbox, driver, exited, reporting, starting>>

-----------------------------------------------------------------------------
(* Subscriptions. *)

(* A defect: the region watched before is not told. *)
SubscribeWithoutRemove(c, r) ==
    /\ loop = Idle
    /\ clients[c] = "connected" /\ r \in regions
    /\ loop' = At("add", c, r)
    /\ UNCHANGED <<loopVars, actorVars, mailbox, regionVars>>

(* subscribeReq, its first step: the client leaves the region it watched.  *)
(* A region that is not in the tree is answered at once, nothing changes.  *)
Subscribe(c, r) ==
    /\ loop = Idle
    /\ clients[c] = "connected" /\ r \in regions
    /\ IF subscriptions[c] # r THEN SendIfFound(subscriptions[c], Msg("remove", c))
       ELSE UNCHANGED mailbox
    /\ loop' = At("add", c, r)
    /\ UNCHANGED <<loopVars, actorVars, regionVars>>

(* AddSubscriber, up to its wait for the actor. *)
AddSubscriber ==
    /\ loop.kind = "add"
    /\ Send(loop.region, Msg("add", loop.client))
    /\ loop' = At("subscribe", loop.client, loop.region)
    /\ UNCHANGED <<loopVars, actorVars, regionVars>>

(* The rest of subscribeReq: the subscription is recorded whether the      *)
(* actor answered or stopped first.                                        *)
FinishSubscribe ==
    /\ loop.kind = "subscribe"
    /\ loop.replied \/ actor[loop.region] = "stopped"
    /\ subscriptions' = [subscriptions EXCEPT ![loop.client] = loop.region]
    /\ loop' = Idle
    /\ UNCHANGED <<clients, regions, clientOverlays, regionOverlays>>
    /\ UNCHANGED <<actorVars, mailbox, regionVars>>

(* unsubscribeReq. *)
Unsubscribe(c) ==
    /\ loop = Idle
    /\ clients[c] = "connected"
    /\ SendIfFound(subscriptions[c], Msg("remove", c))
    /\ subscriptions' = [subscriptions EXCEPT ![c] = NoRegion]
    /\ UNCHANGED <<clients, regions, clientOverlays, regionOverlays>>
    /\ UNCHANGED <<loop, actorVars, regionVars>>

-----------------------------------------------------------------------------
(* Overlays. *)

(* overlayRegisterReq up to RegisterOverlay's wait. *)
RegisterOverlay(c, r) ==
    /\ loop = Idle
    /\ clients[c] = "connected" /\ r \in regions
    /\ Send(r, Msg("register", c))
    /\ loop' = At("register", c, r)
    /\ UNCHANGED <<loopVars, actorVars, regionVars>>

(* The actor answered: the previous owner's entry goes and c takes over.   *)
FinishRegister ==
    /\ loop.kind = "register" /\ loop.replied
    /\ LET c == loop.client
           r == loop.region
       IN  /\ clientOverlays' = [k \in Client |->
                 IF k = c THEN r
                 ELSE IF k = regionOverlays[r] THEN NoRegion
                 ELSE clientOverlays[k]]
           /\ regionOverlays' = [regionOverlays EXCEPT ![r] = c]
    /\ loop' = Idle
    /\ UNCHANGED <<clients, regions, subscriptions, actorVars, mailbox, regionVars>>

(* The actor stopped: "region stopped", even when its answer is there too. *)
FailRegister ==
    /\ loop.kind = "register" /\ actor[loop.region] = "stopped"
    /\ loop' = Idle
    /\ UNCHANGED <<loopVars, actorVars, mailbox, regionVars>>

(* A defect: anyone may clear. *)
ClearOverlayOfAnyone(c, r) ==
    /\ loop = Idle
    /\ clients[c] = "connected"
    /\ SendIfFound(r, Msg("clear", c))
    /\ regionOverlays' = [regionOverlays EXCEPT ![r] = NoClient]
    /\ clientOverlays' = [clientOverlays EXCEPT ![c] = NoRegion]
    /\ UNCHANGED <<clients, regions, subscriptions, loop, actorVars, regionVars>>

(* overlayClearReq: only the owner may clear. *)
ClearOverlay(c, r) ==
    /\ loop = Idle
    /\ clients[c] = "connected" /\ regionOverlays[r] = c
    /\ SendIfFound(r, Msg("clear", c))
    /\ regionOverlays' = [regionOverlays EXCEPT ![r] = NoClient]
    /\ clientOverlays' = [clientOverlays EXCEPT ![c] = NoRegion]
    /\ UNCHANGED <<clients, regions, subscriptions, loop, actorVars, regionVars>>

-----------------------------------------------------------------------------
(* The actor takes the first message of its mailbox. *)
Receives(r, type) ==
    /\ actor[r] = "running"
    /\ mailbox[r] # <<>>
    /\ Head(mailbox[r]).type = type

Take(r, type) == Receives(r, type) /\ mailbox' = [mailbox EXCEPT ![r] = Tail(@)]

Sender(r) == Head(mailbox[r]).client

(* ptyDataMsg: the screen changes, which this module does not follow. *)
ActorData(r) ==
    /\ Take(r, "data")
    /\ UNCHANGED <<loopVars, loop, actorVars, regionVars>>

(* scrollbackLenMsg. *)
ActorLength(r) ==
    /\ Take(r, "length")
    /\ loop' = [loop EXCEPT !.replied = TRUE]
    /\ UNCHANGED <<loopVars, actorVars, regionVars>>

(* addSubscriberMsg. *)
ActorAdd(r) ==
    /\ Take(r, "add")
    /\ subscribers' = [subscribers EXCEPT ![r] = @ \union {Sender(r)}]
    /\ loop' = [loop EXCEPT !.replied = TRUE]
    /\ UNCHANGED <<loopVars, actor, overlay, regionVars>>

(* removeSubscriberMsg: the overlay of the subscriber goes with it. *)
ActorRemove(r) ==
    /\ Take(r, "remove")
    /\ subscribers' = [subscribers EXCEPT ![r] = @ \ {Sender(r)}]
    /\ overlay' = [overlay EXCEPT ![r] = IF @ = Sender(r) THEN NoClient ELSE @]
    /\ UNCHANGED <<loopVars, loop, actor, regionVars>>

(* overlayRegisterMsg. *)
ActorRegister(r) ==
    /\ Take(r, "register")
    /\ overlay' = [overlay EXCEPT ![r] = Sender(r)]
    /\ loop' = [loop EXCEPT !.replied = TRUE]
    /\ UNCHANGED <<loopVars, actor, subscribers, regionVars>>

(* overlayClearMsg: ignored unless it comes from the owner. *)
ActorClear(r) ==
    /\ Take(r, "clear")
    /\ overlay' = [overlay EXCEPT ![r] = IF @ = Sender(r) THEN NoClient ELSE @]
    /\ UNCHANGED <<loopVars, loop, actor, subscribers, regionVars>>

(* A defect: the actor itself waits for the event loop before it stops.    *)
ActorExitInline(r) ==
    /\ Receives(r, "exit") /\ loop = Idle
    /\ mailbox' = [mailbox EXCEPT ![r] = <<>>]
    /\ actor' = [actor EXCEPT ![r] = "stopped"]
    /\ subscribers' = [subscribers EXCEPT ![r] = {}]
    /\ overlay' = [overlay EXCEPT ![r] = NoClient]
    /\ destroying' = destroying \union {r}
    /\ UNCHANGED <<loopVars, loop>>
    /\ UNCHANGED <<driver, exited, reporting, starting, closed>>

(* A defect: the actor stops and nobody runs destroyRegion.                *)
ActorExitUnreported(r) ==
    /\ Receives(r, "exit")
    /\ mailbox' = [mailbox EXCEPT ![r] = <<>>]
    /\ actor' = [actor EXCEPT ![r] = "stopped"]
    /\ subscribers' = [subscribers EXCEPT ![r] = {}]
    /\ overlay' = [overlay EXCEPT ![r] = NoClient]
    /\ UNCHANGED <<loopVars, loop, regionVars>>

(* childExitedMsg: the actor stops, and a goroutine of its own runs        *)
(* destroyRegion.  The rest of the mailbox, the subscribers and the        *)
(* overlay are nobody's any more: only the actor ever reads them.          *)
ActorExit(r) ==
    /\ Receives(r, "exit")
    /\ mailbox' = [mailbox EXCEPT ![r] = <<>>]
    /\ actor' = [actor EXCEPT ![r] = "stopped"]
    /\ subscribers' = [subscribers EXCEPT ![r] = {}]
    /\ overlay' = [overlay EXCEPT ![r] = NoClient]
    /\ destroying' = destroying \union {r}
    /\ UNCHANGED <<loopVars, loop>>
    /\ UNCHANGED <<driver, exited, reporting, starting, closed>>

Actor(r) ==
    \/ ActorData(r) \/ ActorLength(r) \/ ActorAdd(r) \/ ActorRemove(r)
    \/ ActorRegister(r) \/ ActorClear(r) \/ ActorExit(r)

-----------------------------------------------------------------------------
(* The steps that carry a handler on once it has begun. *)
LoopSteps ==
    \/ RemoveSubscription \/ RemoveOverlay \/ FinishRemove
    \/ (\E r \in Region : DriverDisconnected(r))
    \/ AddSubscriber \/ FinishSubscribe \/ FinishRegister \/ FailRegister
    \/ ScrollbackLen \/ FinishLength

Next ==
    \/ \E c \in Client :
          \/ Connect(c) \/ Disconnect(c) \/ RemoveClient(c) \/ Unsubscribe(c)
          \/ \E r \in Region :
                \/ Subscribe(c, r) \/ RegisterOverlay(c, r) \/ ClearOverlay(c, r)
    \/ \E r \in Region :
          \/ \E d \in Client \union {NoClient} : Spawn(r, d)
          \/ HandleSpawn(r) \/ SetRegionGeometry(r)
          \/ \E rest \in SUBSET Region : GetRegionInfos(r, rest)
          \/ Output(r) \/ ChildExit(r) \/ HandleDestroy(r)
          \/ KillNative(r) \/ ReportKill(r)
          \/ Actor(r)
    \/ LoopSteps

Spec == Init /\ [][Next]_vars

(* Goroutines run.  The request channel and the mailboxes are FIFO, for    *)
(* blocked senders too: a request that was sent is handled, and a send to  *)
(* a running actor succeeds, however many others arrive.  Nothing makes a  *)
(* client ask or leave, or a program print or exit.                        *)
FairSpec ==
    /\ Spec
    /\ SF_vars(LoopSteps)
    /\ \A r \in Region :
          /\ WF_vars(Actor(r)) /\ SF_vars(ReportKill(r))
          /\ SF_vars(HandleSpawn(r)) /\ SF_vars(HandleDestroy(r))
    /\ \A c \in Client : SF_vars(RemoveClient(c))

-----------------------------------------------------------------------------
(* What an actor's state will be once it has taken every message already   *)
(* in its mailbox.  A fact is made true by some messages and false by      *)
(* others; the last message about it decides, or else its present value.   *)
After(box, makes, breaks, now) ==
    \/ \E i \in DOMAIN box :
          box[i] \in makes /\ \A j \in DOMAIN box : j > i => box[j] \notin breaks
    \/ now /\ \A i \in DOMAIN box : box[i] \notin breaks

(* Actor r will have c as a subscriber, or show c's overlay. *)
WillSubscribe(r, c) ==
    After(mailbox[r], {Msg("add", c)}, {Msg("remove", c)}, c \in subscribers[r])

EndsOverlay(c) ==
    {Msg("register", d) : d \in Client} \union {Msg("clear", c), Msg("remove", c)}

WillOverlay(r, c) ==
    After(mailbox[r], {Msg("register", c)}, EndsOverlay(c), overlay[r] = c)

(* The region the event loop means a client to watch: in the middle of    *)
(* subscribeReq it has left its old region, and joins the new one when     *)
(* AddSubscriber is sent.                                                  *)
Intended(c) ==
    IF loop.client # c THEN subscriptions[c]
    ELSE CASE loop.kind = "add" /\ loop.region # subscriptions[c] -> NoRegion
           [] loop.kind = "subscribe" -> loop.region
           [] OTHER -> subscriptions[c]

(* The client the event loop holds, or in the middle of overlayRegisterReq *)
(* is about to hold, for the owner of a region's overlay.                  *)
Owner(r) ==
    IF loop.kind = "register" /\ loop.region = r THEN loop.client ELSE regionOverlays[r]

-----------------------------------------------------------------------------
Message ==
    [type : {"data", "exit", "length"}, client : {NoClient}]
    \union [type : {"add", "remove", "register", "clear"}, client : Client]

LoopState ==
    [kind : {"idle"}, client : {NoClient}, region : {NoRegion}, replied : BOOLEAN,
     rest : {{}}]
    \union [kind : {"unsub", "unlay", "leave"}, client : Client, region : {NoRegion},
            replied : BOOLEAN, rest : {{}}]
    \union [kind : {"add", "subscribe", "register"}, client : Client, region : Region,
            replied : BOOLEAN, rest : {{}}]
    \union [kind : {"ask", "asked"}, client : {NoClient}, region : Region,
            replied : BOOLEAN, rest : SUBSET Region]

TypeOK ==
    /\ clients \in [Client -> {"unused", "connected", "closing", "gone"}]
    /\ regions \subseteq Region
    /\ subscriptions \in [Client -> Region \union {NoRegion}]
    /\ clientOverlays \in [Client -> Region \union {NoRegion}]
    /\ regionOverlays \in [Region -> Client \union {NoClient}]
    /\ loop \in LoopState
    /\ actor \in [Region -> {"none", "running", "stopped"}]
    /\ mailbox \in [Region -> Seq(Message)]
    /\ \A r \in Region : Len(mailbox[r]) <= MailCap
    /\ subscribers \in [Region -> SUBSET Client]
    /\ overlay \in [Region -> Client \union {NoClient}]
    /\ driver \in [Region -> Client \union {NoClient}]
    /\ exited \subseteq Region /\ reporting \subseteq Region /\ starting \subseteq Region
    /\ destroying \subseteq Region /\ closed \subseteq Region

(* removeClientReq, destroyRegionReq and subscribeReq together keep the    *)
(* subscription map clean: it names clients and regions of the tree only.  *)
SubscriptionsLive ==
    \A c \in Client : subscriptions[c] # NoRegion => InTree(c) /\ subscriptions[c] \in regions

(* subscribeReq, unsubscribeReq and the actors' handlers: once a running   *)
(* actor has emptied its mailbox, it sends a region's output to exactly    *)
(* the clients the event loop has subscribed to that region, through every *)
(* interleaving of moves between regions, departures and program exits.    *)
SubscribersAgree ==
    \A r \in Region : actor[r] = "running" =>
        \A c \in Client :
            WillSubscribe(r, c) <=> Intended(c) = r

(* overlayRegisterReq and removeClientReq (the double registration of      *)
(* doc/project/fable-review-items.md, item 28): an overlay an actor shows  *)
(* is the one its region's input is meant for, so no client's departure    *)
(* takes the routing away from another client's overlay.                   *)
OverlayRouted ==
    \A r \in Region : actor[r] = "running" =>
        \A c \in Client :
            WillOverlay(r, c) => Owner(r) = c

(* The two overlay maps: what clientOverlays says, regionOverlays confirms,*)
(* and both name regions of the tree only.                                 *)
OverlayIndex ==
    /\ \A c \in Client : clientOverlays[c] # NoRegion =>
          /\ InTree(c) /\ clientOverlays[c] \in regions
          /\ regionOverlays[clientOverlays[c]] = c
    /\ \A r \in Region : regionOverlays[r] # NoClient => r \in regions

(* The event loop's overlay maps agree with each other, with the tree and  *)
(* with what the actors show.                                              *)
OverlaysAgree == OverlayIndex /\ OverlayRouted

(* childExitedMsg runs destroyRegion in a goroutine of its own so that the *)
(* event loop, waiting for the same actor, is never stuck: every wait ends.*)
LoopReturns == loop.kind # "idle" ~> loop.kind = "idle"

(* A region in the tree whose program ends is destroyed and closed,        *)
(* whatever the loop is doing, and so is a native region whose driver has  *)
(* gone.                                                                   *)
RegionReclaimed ==
    \A r \in Region :
        /\ (r \in regions /\ actor[r] = "running" /\ r \in exited) ~> r \in closed
        /\ (r \in regions /\ driver[r] # NoClient /\ ~InTree(driver[r])) ~> r \in closed
=============================================================================
