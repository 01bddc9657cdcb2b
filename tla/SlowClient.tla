----------------------------- MODULE SlowClient -----------------------------
(***************************************************************************)
(* How a region's output reaches one client that may read slowly           *)
(* (internal/server/actor.go, client.go).  The actor of each region never  *)
(* waits: a frame that finds the client's writeCh full is dropped and the  *)
(* client is marked behind.  A behind client is repaired with a snapshot,  *)
(* either right after the next frame that fits or by the catchup timer,    *)
(* and is disconnected when it stays behind for too long.                  *)
(*                                                                         *)
(* The screen is abstracted to the number of output batches it has been    *)
(* fed, and a frame to the screens it leads from and to.  behind belongs   *)
(* to the client, the timers to the regions.  Time is abstracted: a behind *)
(* client may at any moment have been behind for behindTimeout.  WriteCap  *)
(* is at least 2; the writeLoop's steps between the two sends of one       *)
(* delivery then add nothing to its steps before it.                       *)
(***************************************************************************)
EXTENDS Naturals, Sequences, SequencesExt

CONSTANTS
    Region,
    NoRegion,
    Torn,       \* a screen that events were missing from
    WriteCap,   \* capacity of writeCh
    MaxScreen,  \* bound on output batches per region
    MaxMoves,   \* bound on subscribe and unsubscribe requests
    MaxRollback \* bound on failed upgrades

ASSUME SlowClientAssumption ==
    /\ NoRegion \notin Region
    /\ Torn \notin Nat
    /\ WriteCap \in Nat /\ WriteCap >= 2
    /\ MaxScreen \in Nat /\ MaxMoves \in Nat /\ MaxRollback \in Nat

VARIABLES
    screen,       \* the screen of each region
    subscribed,   \* the regions whose actor has the client as a subscriber
    leaving,      \* the regions with a removeSubscriberMsg still to be taken
    watch,        \* the region the event loop has the client subscribed to
    catchupArmed, \* each actor's flag of that name
    timer,        \* the regions whose catchup timer is really pending
    client,       \* writeCh, behind, expired, open, failed: see Init
    copy,         \* the client's own screen of each region
    moves, rollbacks

vars == <<screen, subscribed, leaving, watch, catchupArmed, timer, client, copy, moves, rollbacks>>

Init ==
    /\ screen = [r \in Region |-> 0]
    /\ subscribed = {} /\ leaving = {}
    /\ watch = NoRegion
    /\ catchupArmed = {} /\ timer = {}
    /\ client = [ch      |-> <<>>,    \* writeCh
                 behind  |-> FALSE,   \* Client.behind
                 expired |-> FALSE,   \* behindSinceNanos is behindTimeout ago
                 open    |-> TRUE,    \* Close has not been called
                 failed  |-> FALSE]   \* writeLoop's writeFailed
    /\ copy = [r \in Region |-> Torn]
    /\ moves = 0 /\ rollbacks = 0

-----------------------------------------------------------------------------
(* terminal_events and screen_update *)
Events(r, from, to) == [region |-> r, type |-> "events", from |-> from, to |-> to]
Snapshot(r, v)      == [region |-> r, type |-> "snapshot", from |-> v, to |-> v]

WriteChHasRoom(q) == Len(q.ch) < WriteCap

Enqueue(q, frame) == [q EXCEPT !.ch = Append(@, frame)]

(* CompareAndSwap(false, true) and behindSinceNanos = now. *)
MarkBehind(q) == [q EXCEPT !.behind = TRUE]

(* The circuit breaker: Close, and behindSinceNanos = 0. *)
BreakCircuit(q) == [q EXCEPT !.open = FALSE, !.expired = FALSE]

CaughtUp(q, snap) == [Enqueue(q, snap) EXCEPT !.behind = FALSE, !.expired = FALSE]

(* A defect: a frame that fits clears behind without a repair. *)
DeliverOptimistic(q, frame, snap) ==
    IF ~WriteChHasRoom(q) THEN
        IF q.behind /\ q.expired THEN BreakCircuit(q) ELSE MarkBehind(q)
    ELSE [Enqueue(q, frame) EXCEPT !.behind = FALSE, !.expired = FALSE]

(* deliverFrames for this client: frame, and after it the repair that snap *)
(* is when frame fits, the client is behind and there still is room.       *)
Deliver(q, frame, snap) ==
    IF ~WriteChHasRoom(q) THEN
        IF q.behind /\ q.expired THEN BreakCircuit(q) ELSE MarkBehind(q)
    ELSE LET p == Enqueue(q, frame)
         IN  IF p.behind /\ WriteChHasRoom(p) THEN CaughtUp(p, snap) ELSE p

(* A defect: nothing arms the timer, and repairs wait for the next output. *)
ArmNever(r, subs, q) == UNCHANGED <<catchupArmed, timer>>

(* armCatchupIfBehind, at the end of everything an actor does, when its    *)
(* subscribers are subs and the client is q.                               *)
Arm(r, subs, q) ==
    IF r \notin catchupArmed /\ r \in subs /\ q.behind
    THEN catchupArmed' = catchupArmed \union {r} /\ timer' = timer \union {r}
    ELSE UNCHANGED <<catchupArmed, timer>>

-----------------------------------------------------------------------------
(* The actor of region r. *)

(* ptyDataMsg and broadcastToSubscribers: one batch of output, sent as     *)
(* events, or after a synchronized update or under an overlay as a         *)
(* snapshot, with or without trailing events (a bell, sync markers).       *)
Output(r, mode) ==
    /\ client.open
    /\ screen[r] < MaxScreen
    /\ LET v     == screen[r] + 1
           snap  == Snapshot(r, v)
           first == IF mode = "events" THEN Events(r, screen[r], v) ELSE snap
           once  == Deliver(client, first, snap)
           twice == IF mode = "trailing" THEN Deliver(once, Events(r, v, v), snap) ELSE once
       IN  /\ screen' = [screen EXCEPT ![r] = v]
           /\ client' = IF r \in subscribed THEN twice ELSE client
    /\ Arm(r, subscribed, client')
    /\ UNCHANGED <<subscribed, leaving, watch, copy, moves, rollbacks>>

(* subscribeReq: the old region is told to forget the client, and the      *)
(* new one's addSubscriberMsg sends the first snapshot, or marks behind.   *)
AddSubscriber(r) ==
    /\ client.open
    /\ moves < MaxMoves /\ moves' = moves + 1
    /\ r \notin leaving
    /\ leaving' = IF watch \in Region \ {r} THEN leaving \union {watch} ELSE leaving
    /\ watch' = r
    /\ subscribed' = subscribed \union {r}
    /\ client' = IF WriteChHasRoom(client) THEN Enqueue(client, Snapshot(r, screen[r]))
                 ELSE MarkBehind(client)
    /\ Arm(r, subscribed', client')
    /\ UNCHANGED <<screen, copy, rollbacks>>

(* unsubscribeReq. *)
Unsubscribe ==
    /\ client.open
    /\ moves < MaxMoves /\ moves' = moves + 1
    /\ watch \in Region
    /\ leaving' = leaving \union {watch}
    /\ watch' = NoRegion
    /\ UNCHANGED <<screen, subscribed, catchupArmed, timer, client, copy, rollbacks>>

(* removeSubscriberMsg. *)
RemoveSubscriber(r) ==
    /\ r \in leaving
    /\ leaving' = leaving \ {r}
    /\ subscribed' = subscribed \ {r}
    /\ Arm(r, subscribed', client)
    /\ UNCHANGED <<screen, watch, client, copy, moves, rollbacks>>

(* What catchupBehindSubscribers does for this client. *)
Repair(q, snap) ==
    CASE ~q.behind            -> q
      [] q.behind /\ q.expired -> BreakCircuit(q)
      [] OTHER                -> IF WriteChHasRoom(q) THEN CaughtUp(q, snap) ELSE q

(* The timer fires: catchupBehindSubscribers, then armCatchupIfBehind. *)
CatchupTimer(r) ==
    /\ client.open
    /\ r \in timer
    /\ client' = IF r \in subscribed THEN Repair(client, Snapshot(r, screen[r])) ELSE client
    /\ IF r \in subscribed /\ client'.behind
       THEN UNCHANGED <<catchupArmed, timer>>
       ELSE catchupArmed' = catchupArmed \ {r} /\ timer' = timer \ {r}
    /\ UNCHANGED <<screen, subscribed, leaving, watch, copy, moves, rollbacks>>

(* An upgrade that fails: StopActor ends run, which stops the timer, and   *)
(* ResumeActor starts run again.                                           *)
Rollback(r) ==
    /\ client.open
    /\ rollbacks < MaxRollback /\ rollbacks' = rollbacks + 1
    /\ timer' = timer \ {r}
    /\ UNCHANGED <<screen, subscribed, leaving, watch, catchupArmed, client, copy, moves>>

-----------------------------------------------------------------------------
(* The client's side. *)

(* What reading a frame makes of the client's screens. *)
Apply(screens, frame) ==
    [screens EXCEPT ![frame.region] =
        IF frame.type = "snapshot" \/ @ = frame.from THEN frame.to ELSE Torn]

(* writeLoop writes a frame, and the client reads it. *)
WriteLoop ==
    /\ client.open /\ ~client.failed /\ client.ch # <<>>
    /\ copy' = Apply(copy, Head(client.ch))
    /\ client' = [client EXCEPT !.ch = Tail(@)]
    /\ UNCHANGED <<screen, subscribed, leaving, watch, catchupArmed, timer, moves, rollbacks>>

(* A write fails or misses its deadline; every later frame is discarded.   *)
WriteLoopFailed ==
    /\ client.open /\ client.ch # <<>>
    /\ client' = [client EXCEPT !.ch = Tail(@), !.failed = TRUE]
    /\ UNCHANGED <<screen, subscribed, leaving, watch, catchupArmed, timer, copy, moves, rollbacks>>

(* behindTimeout passes. *)
Expire ==
    /\ client.open /\ client.behind /\ ~client.expired
    /\ client' = [client EXCEPT !.expired = TRUE]
    /\ UNCHANGED <<screen, subscribed, leaving, watch, catchupArmed, timer, copy, moves, rollbacks>>

Next ==
    \/ \E r \in Region :
          \/ \E mode \in {"events", "snapshot", "trailing"} : Output(r, mode)
          \/ AddSubscriber(r) \/ RemoveSubscriber(r) \/ CatchupTimer(r) \/ Rollback(r)
    \/ Unsubscribe \/ WriteLoop \/ WriteLoopFailed \/ Expire

Spec == Init /\ [][Next]_vars

(* Actors take their messages, pending timers fire, and a write ends, well *)
(* or badly, within its deadline.                                          *)
FairSpec ==
    /\ Spec
    /\ \A r \in Region : WF_vars(RemoveSubscriber(r)) /\ WF_vars(CatchupTimer(r))
    /\ WF_vars(WriteLoop \/ WriteLoopFailed)

-----------------------------------------------------------------------------

(* The client's screen of r once it has read all that is queued for it. *)
WillShow(r) == FoldLeft(Apply, copy, client.ch)[r]

InSync(r) == WillShow(r) = screen[r]

(* deliverFrames, addSubscriberMsg and catchupBehindSubscribers: while one *)
(* region is watched, a client that is not marked behind ends up with the  *)
(* region's exact screen; no drop, and no repair overtaken by a drop, goes *)
(* unmarked.                                                               *)
InSyncOrBehind ==
    \A r \in subscribed \ leaving :
        client.open /\ ~client.failed /\ ~client.behind => InSync(r)

(* The slow-client dance as a whole: a torn screen is repaired, or the     *)
(* client disconnected, when its writes do not fail.                       *)
Repaired ==
    \A r \in Region :
        (r \in subscribed /\ ~InSync(r)) ~>
            (r \notin subscribed \/ InSync(r) \/ ~client.open \/ client.failed \/ rollbacks > 0)
=============================================================================
