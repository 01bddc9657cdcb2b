---------------------------- MODULE UpgradeProofs ----------------------------
(***************************************************************************)
(* Safety of the live upgrade for every number of regions, attempts and    *)
(* chunks of output: the screens that are sent are the screens the old     *)
(* process is left with, and outside the rollback the two processes never  *)
(* have a readLoop each on one PTY unless Stop gave up on that PTY.        *)
(***************************************************************************)
EXTENDS Upgrade, TLAPS

(* The steps of HandleUpgrade from buildUpgradeState on, those from which  *)
(* the new process may run actors, and those in which nothing is under way.*)
Frozen    == {"state sent", "ptys sent", "waiting", "exited", "rollback"}
HandedOff == {"waiting", "exited", "rollback", "resuming"}

Running == {"restoring", "serving"}

ProofTypes ==
    /\ told \subseteq Region /\ restored \subseteq Region
    /\ actor \in [Region -> {"running", "stopping", "stopped"}]
    /\ reader \in [Region -> BOOLEAN]
    /\ stray = [r \in Region |-> stray[r]]
    /\ conn \in Seq({"listener_fds", "state", "pty_fds", "handoff_complete"})

(* StopActor: a stopped actor has no readLoop unless Stop gave up on it,   *)
(* which leaves the only stray ones; from buildUpgradeState on every actor *)
(* is stopped, and in the rollback every one that is still to be resumed.  *)
ActorsStopped ==
    /\ \A r \in Region \ outlived : stray[r] = 0 /\ (actor[r] = "stopped" => ~reader[r])
    /\ pc \in Frozen => \A r \in Region : actor[r] = "stopped"
    /\ pc = "resuming" => \A r \in told : actor[r] = "stopped"

(* RecvUpgrade: the new process runs actors only after handoff_complete,   *)
(* which is sent last, and not after it was killed.                        *)
ChildFollows ==
    /\ pc = "idle" => child \in {"none", "dead"}
    /\ pc \notin HandedOff \union {"idle"} =>
          child \notin Running /\ \A i \in 1 .. Len(conn) : conn[i] # "handoff_complete"
    /\ child \notin Running => restored = {}

IndInv == ProofTypes /\ ActorsStopped /\ ChildFollows /\ SnapshotConsistent

-----------------------------------------------------------------------------
(* HandleUpgrade's first state: no upgrade has been attempted. *)
LEMMA InitInv == Init => IndInv
BY DEF Init, IndInv, ProofTypes, ActorsStopped, ChildFollows, SnapshotConsistent,
       Frozen, HandedOff, Running

(* sendMsg appends one message, or leads to the state for a failure. *)
LEMMA SendMsgOutcome ==
    ASSUME NEW type \in {"listener_fds", "state", "pty_fds", "handoff_complete"},
           NEW next, NEW otherwise, ProofTypes, SendMsg(type, next, otherwise)
    PROVE  /\ conn' \in Seq({"listener_fds", "state", "pty_fds", "handoff_complete"})
           /\ \/ pc' = otherwise /\ child = "dead" /\ conn' = conn
              \/ pc' = next /\ child # "dead" /\ conn' = Append(conn, type)
BY DEF SendMsg, ProofTypes

(* Recv takes the first message off a queue that has one.                  *)
LEMMA HeadOfQueue ==
    ASSUME NEW T, NEW q \in Seq(T), q # <<>>
    PROVE  Tail(q) \in Seq(T) /\ q[1] = Head(q) /\ 1 \in 1 .. Len(q)
OBVIOUS

(* Appending another message than handoff_complete to a queue without it,  *)
(* or taking one off, leaves a queue without it.                           *)
LEMMA NoCompleteAppend ==
    ASSUME NEW q \in Seq({"listener_fds", "state", "pty_fds", "handoff_complete"}),
           \A i \in 1 .. Len(q) : q[i] # "handoff_complete",
           NEW type \in {"listener_fds", "state", "pty_fds"}
    PROVE  \A i \in 1 .. Len(Append(q, type)) : Append(q, type)[i] # "handoff_complete"
OBVIOUS

LEMMA NoCompleteTail ==
    ASSUME NEW q \in Seq({"listener_fds", "state", "pty_fds", "handoff_complete"}),
           q # <<>>, \A i \in 1 .. Len(q) : q[i] # "handoff_complete"
    PROVE  \A i \in 1 .. Len(Tail(q)) : Tail(q)[i] # "handoff_complete"
<1> TAKE i \in 1 .. Len(Tail(q))
<1>1. Len(Tail(q)) = Len(q) - 1 /\ Tail(q)[i] = q[i + 1]
  OBVIOUS
<1> QED
  BY <1>1

-----------------------------------------------------------------------------
(* The data path of the old process, and the client: the screens change    *)
(* only while an actor runs, and then no snapshot has been taken.          *)
LEMMA PtyStep ==
    ASSUME IndInv, NEW r \in Region,
           Output(r) \/ Read(r) \/ StrayRead(r) \/ Push(r) \/ ReadLoopEnds(r) \/ Take(r)
             \/ ActorStops(r)
    PROVE  IndInv'
<1>1. CASE Output(r) \/ Push(r)
  BY <1>1 DEF Output, Push, IndInv, ProofTypes, ActorsStopped, ChildFollows, SnapshotConsistent, Frozen,
         HandedOff, Running, handVars, oldVars, readVars, childVars, clientVars
<1>5. CASE Read(r)
  <2>1. UNCHANGED <<handVars, actor, reader, readVars, screen, childVars>>
    BY <1>5 DEF Read
  <2> QED
    BY <2>1 DEF IndInv, ProofTypes, ActorsStopped, ChildFollows, SnapshotConsistent, Frozen,
         HandedOff, Running, handVars, oldVars, readVars, childVars, clientVars
<1>6. CASE StrayRead(r)
  <2>1. UNCHANGED <<handVars, actor, reader, outlived, screen, childVars>>
    BY <1>6 DEF StrayRead
  <2>2. stray' = [stray EXCEPT ![r] = stray[r] - 1] /\ r \in outlived
    BY <1>6 DEF StrayRead, IndInv, ActorsStopped
  <2>3. /\ stray' = [q \in Region |-> stray'[q]]
        /\ \A q \in Region \ outlived : stray'[q] = stray[q]
    BY <2>2 DEF IndInv, ProofTypes
  <2> QED
    BY <2>1, <2>3 DEF IndInv, ProofTypes, ActorsStopped, ChildFollows, SnapshotConsistent, Frozen,
         HandedOff, Running, handVars, oldVars, readVars, childVars, clientVars
<1>2. CASE ReadLoopEnds(r)
  BY <1>2 DEF ReadLoopEnds, IndInv, ProofTypes, ActorsStopped, ChildFollows,
         SnapshotConsistent, Frozen, HandedOff, Running, handVars, oldVars, readVars, childVars,
         clientVars, HandUnchanged, ChildUnchanged
<1>3. CASE Take(r)
  <2>1. pc \notin Frozen
    BY <1>3 DEF Take, IndInv, ActorsStopped
  <2>2. QED
    BY <1>3, <2>1 DEF Take, IndInv, ProofTypes, ActorsStopped, ChildFollows,
           SnapshotConsistent, Frozen, HandedOff, Running, handVars, oldVars, readVars, childVars,
           clientVars, HandUnchanged, ChildUnchanged
<1>4. CASE ActorStops(r)
  BY <1>4 DEF ActorStops, IndInv, ProofTypes, ActorsStopped, ChildFollows,
         SnapshotConsistent, Frozen, HandedOff, Running, handVars, oldVars, readVars, childVars,
         clientVars, HandUnchanged, ChildUnchanged
<1> QED
  BY <1>1, <1>2, <1>3, <1>4, <1>5, <1>6

(* HandleUpgrade up to the last message. *)
LEMMA HandoffStep ==
    ASSUME IndInv,
           StartUpgrade \/ SendListeners \/ StopAccepting \/ Drain
           \/ (\E r \in Region : StopActor(r)) \/ SendState \/ SendPtys \/ SendComplete
    PROVE  IndInv'
<1>0. ProofTypes
  BY DEF IndInv
<1>1. CASE StartUpgrade
  BY <1>1 DEF StartUpgrade, IndInv, ProofTypes, ActorsStopped, ChildFollows,
         SnapshotConsistent, Frozen, HandedOff, Running, handVars, oldVars, readVars, childVars,
         clientVars, HandUnchanged, ChildUnchanged
<1>2. CASE SendListeners
  <2>1. /\ conn' \in Seq({"listener_fds", "state", "pty_fds", "handoff_complete"})
        /\ \/ pc' = "idle" /\ child = "dead" /\ conn' = conn
           \/ pc' = "listeners" /\ child # "dead" /\ conn' = Append(conn, "listener_fds")
    BY <1>0, <1>2, SendMsgOutcome DEF SendListeners
  <2>2. \A i \in 1 .. Len(Append(conn, "listener_fds")) :
           Append(conn, "listener_fds")[i] # "handoff_complete"
    BY <1>0, <1>2, NoCompleteAppend DEF SendListeners, IndInv, ProofTypes, ActorsStopped,
           ChildFollows, SnapshotConsistent, Frozen, HandedOff, Running
  <2>3. QED
    BY <1>2, <2>1, <2>2 DEF SendListeners, IndInv, ProofTypes, ActorsStopped,
           ChildFollows, SnapshotConsistent, Frozen, HandedOff, Running, handVars,
           oldVars, readVars, childVars, clientVars, HandUnchanged, ChildUnchanged
<1>3. CASE StopAccepting \/ Drain
  BY <1>3 DEF StopAccepting, Drain, IndInv, ProofTypes, ActorsStopped, ChildFollows,
         SnapshotConsistent, Frozen, HandedOff, Running, handVars, oldVars, readVars, childVars,
         clientVars, HandUnchanged, ChildUnchanged
<1>4. ASSUME NEW r \in Region, StopActor(r)
      PROVE  IndInv'
  BY <1>4 DEF StopActor, IndInv, ProofTypes, ActorsStopped, ChildFollows,
         SnapshotConsistent, Frozen, HandedOff, Running, handVars, oldVars, readVars, childVars,
         clientVars, HandUnchanged, ChildUnchanged
<1>5. CASE SendState
  <2>1. /\ conn' \in Seq({"listener_fds", "state", "pty_fds", "handoff_complete"})
        /\ \/ pc' = "rollback" /\ child = "dead" /\ conn' = conn
           \/ pc' = "state sent" /\ child # "dead" /\ conn' = Append(conn, "state")
    BY <1>0, <1>5, SendMsgOutcome DEF SendState
  <2>2. \A i \in 1 .. Len(Append(conn, "state")) :
           Append(conn, "state")[i] # "handoff_complete"
    BY <1>0, <1>5, NoCompleteAppend DEF SendState, IndInv, ProofTypes, ActorsStopped,
           ChildFollows, SnapshotConsistent, Frozen, HandedOff, Running
  <2>3. QED
    BY <1>5, <2>1, <2>2 DEF SendState, IndInv, ProofTypes, ActorsStopped, ChildFollows,
           SnapshotConsistent, Frozen, HandedOff, Running, handVars, oldVars, readVars, childVars,
           clientVars, HandUnchanged, ChildUnchanged
<1>6. CASE SendPtys
  <2>1. /\ conn' \in Seq({"listener_fds", "state", "pty_fds", "handoff_complete"})
        /\ \/ pc' = "rollback" /\ child = "dead" /\ conn' = conn
           \/ pc' = "ptys sent" /\ child # "dead" /\ conn' = Append(conn, "pty_fds")
    BY <1>0, <1>6, SendMsgOutcome DEF SendPtys
  <2>2. \A i \in 1 .. Len(Append(conn, "pty_fds")) :
           Append(conn, "pty_fds")[i] # "handoff_complete"
    BY <1>0, <1>6, NoCompleteAppend DEF SendPtys, IndInv, ProofTypes, ActorsStopped,
           ChildFollows, SnapshotConsistent, Frozen, HandedOff, Running
  <2>3. QED
    BY <1>6, <2>1, <2>2 DEF SendPtys, IndInv, ProofTypes, ActorsStopped, ChildFollows,
           SnapshotConsistent, Frozen, HandedOff, Running, handVars, oldVars, readVars, childVars,
           clientVars, HandUnchanged, ChildUnchanged
<1>7. CASE SendComplete
  <2>1. /\ conn' \in Seq({"listener_fds", "state", "pty_fds", "handoff_complete"})
        /\ pc' \in {"rollback", "waiting"}
    BY <1>0, <1>7, SendMsgOutcome DEF SendComplete
  <2>2. QED
    BY <1>7, <2>1 DEF SendComplete, IndInv, ProofTypes, ActorsStopped, ChildFollows,
           SnapshotConsistent, Frozen, HandedOff, Running, handVars, oldVars, readVars, childVars,
           clientVars, HandUnchanged, ChildUnchanged
<1> QED
  BY <1>1, <1>2, <1>3, <1>4, <1>5, <1>6, <1>7

(* HandleUpgrade after the last message: the handover and the rollback.    *)
LEMMA OutcomeStep ==
    ASSUME IndInv,
           Succeed \/ GiveUp \/ ResumeLoop \/ (\E r \in Region : ResumeActor(r)) \/ KillChild
    PROVE  IndInv'
<1>1. CASE Succeed \/ GiveUp \/ ResumeLoop
  BY <1>1 DEF Succeed, GiveUp, ResumeLoop, IndInv, ProofTypes, ActorsStopped,
         ChildFollows, SnapshotConsistent, Frozen, HandedOff, Running, handVars, oldVars,
         readVars, childVars, clientVars, HandUnchanged, ChildUnchanged
<1>2. ASSUME NEW r \in Region, ResumeActor(r)
      PROVE  IndInv'
  BY <1>2 DEF ResumeActor, IndInv, ProofTypes, ActorsStopped, ChildFollows,
         SnapshotConsistent, Frozen, HandedOff, Running, handVars, oldVars, readVars, childVars,
         clientVars, HandUnchanged, ChildUnchanged
<1>3. CASE KillChild
  BY <1>3 DEF KillChild, IndInv, ProofTypes, ActorsStopped, ChildFollows,
         SnapshotConsistent, Frozen, HandedOff, Running, handVars, oldVars, readVars, childVars,
         clientVars, HandUnchanged, ChildUnchanged
<1> QED
  BY <1>1, <1>2, <1>3

(* The new process: before handoff_complete it cannot run any actor.       *)
LEMMA ChildStep ==
    ASSUME IndInv,
           RecvUpgrade \/ Ready \/ ChildFails
           \/ (\E r \in Region : RestoreRegion(r) \/ NewRead(r))
    PROVE  IndInv'
<1>1. ASSUME NEW from \in {"started", "has listeners", "has state", "has ptys"}, NEW type,
             NEW next \in {"has listeners", "has state", "has ptys", "restoring"},
             Recv(from, type, next),
             next = "restoring" => type = "handoff_complete"
      PROVE  IndInv'
  <2>1. /\ conn # <<>> /\ conn \in Seq({"listener_fds", "state", "pty_fds", "handoff_complete"})
        /\ conn' = Tail(conn) /\ Head(conn) = type
    BY <1>1 DEF Recv, IndInv, ProofTypes
  <2>2. /\ conn' \in Seq({"listener_fds", "state", "pty_fds", "handoff_complete"})
        /\ conn[1] = type /\ 1 \in 1 .. Len(conn)
    BY <2>1, HeadOfQueue
  <2>3. pc # "idle"
    BY <1>1 DEF Recv, IndInv, ChildFollows
  <2>4. CASE pc \in HandedOff
    BY <1>1, <2>2, <2>3, <2>4 DEF Recv, IndInv, ProofTypes, ActorsStopped, ChildFollows,
           SnapshotConsistent, Frozen, HandedOff, Running, handVars, oldVars, readVars, childVars,
           clientVars, HandUnchanged, ChildUnchanged
  <2>5. CASE pc \notin HandedOff
    <3>1. \A i \in 1 .. Len(conn) : conn[i] # "handoff_complete"
      BY <2>3, <2>5 DEF IndInv, ChildFollows
    <3>2. next # "restoring"
      BY <1>1, <2>2, <3>1
    <3>3. \A i \in 1 .. Len(conn') : conn'[i] # "handoff_complete"
      BY <2>1, <3>1, NoCompleteTail
    <3>4. /\ UNCHANGED <<pc, told, snap, actor, reader, readVars, screen, restored>>
          /\ child' = next /\ child \notin Running
      BY <1>1 DEF Recv, ChildUnchanged, oldVars, Running
    <3>5. ProofTypes' /\ ActorsStopped' /\ SnapshotConsistent'
      BY <2>2, <3>4 DEF IndInv, ProofTypes, ActorsStopped, SnapshotConsistent, Frozen, readVars
    <3>6. ChildFollows'
      BY <1>1, <2>3, <2>5, <3>2, <3>3, <3>4 DEF IndInv, ChildFollows, HandedOff, Running
    <3> QED
      BY <3>5, <3>6 DEF IndInv
  <2>6. QED
    BY <2>4, <2>5
<1>2. CASE RecvUpgrade
  BY <1>1, <1>2 DEF RecvUpgrade
<1>3. CASE Ready \/ ChildFails
  BY <1>3 DEF Ready, ChildFails, IndInv, ProofTypes, ActorsStopped, ChildFollows,
         SnapshotConsistent, Frozen, HandedOff, Running, handVars, oldVars, readVars, childVars,
         clientVars, HandUnchanged, ChildUnchanged
<1>4. ASSUME NEW r \in Region, RestoreRegion(r) \/ NewRead(r)
      PROVE  IndInv'
  BY <1>4 DEF RestoreRegion, NewRead, IndInv, ProofTypes, ActorsStopped, ChildFollows,
         SnapshotConsistent, Frozen, HandedOff, Running, handVars, oldVars, readVars, childVars,
         clientVars, HandUnchanged, ChildUnchanged
<1> QED
  BY <1>2, <1>3, <1>4

(* Every step of HandleUpgrade, RecvUpgrade, the actors and the client.    *)
LEMMA NextInv == IndInv /\ [Next]_vars => IndInv'
<1> SUFFICES ASSUME IndInv, [Next]_vars
             PROVE  IndInv'
  OBVIOUS
<1>1. CASE UNCHANGED vars
  BY <1>1 DEF vars, IndInv, ProofTypes, ActorsStopped, ChildFollows, SnapshotConsistent,
         Frozen, HandedOff, Running, handVars, oldVars, readVars, childVars, clientVars,
         HandUnchanged, ChildUnchanged
<1>2. CASE HandleRequest \/ (\E q \in Region \union {NoRegion} : Ask(q))
  BY <1>2 DEF HandleRequest, Ask, IndInv, ProofTypes, ActorsStopped, ChildFollows,
         SnapshotConsistent, Frozen, HandedOff, Running, handVars, oldVars, readVars, childVars,
         clientVars, HandUnchanged, ChildUnchanged
<1>3. CASE StartUpgrade \/ HandleUpgrade \/ GiveUp
  BY <1>3, HandoffStep, OutcomeStep DEF HandleUpgrade
<1>4. CASE RecvUpgrade \/ Ready \/ ChildFails
  BY <1>4, ChildStep
<1>5. ASSUME NEW r \in Region,
             Output(r) \/ Read(r) \/ StrayRead(r) \/ Push(r) \/ ReadLoopEnds(r) \/ Take(r)
             \/ ActorStops(r)
             \/ RestoreRegion(r) \/ NewRead(r)
      PROVE  IndInv'
  BY <1>5, PtyStep, ChildStep
<1> QED
  BY <1>1, <1>2, <1>3, <1>4, <1>5 DEF Next

(* The inductive invariant holds of HandleUpgrade and RecvUpgrade.         *)
THEOREM Invariance == Spec => []IndInv
BY InitInv, NextInv, PTL DEF Spec

-----------------------------------------------------------------------------
(* buildUpgradeState: from the moment the screens are sent until the       *)
(* handoff ends or the actors are resumed, nothing changes them.           *)
THEOREM SnapshotAlwaysConsistent == Spec => []SnapshotConsistent
<1>1. IndInv => SnapshotConsistent
  BY DEF IndInv
<1> QED
  BY <1>1, Invariance, PTL

(* StopActor, RestoreRegion and resumeAfterFailedUpgrade: outside the      *)
(* rollback the two processes have a readLoop on the same PTY only if      *)
(* Stop gave up on its readLoop, now or in an attempt before.              *)
THEOREM ReadersNeverOverlap == Spec => []SingleReader
<1>1. IndInv => SingleReader
  <2> SUFFICES ASSUME IndInv, NEW r \in Region, r \in restored, r \notin outlived, pc # "resuming"
               PROVE  ~reader[r] /\ ~(stray[r] > 0)
    BY DEF SingleReader
  <2>1. stray[r] = 0 /\ (actor[r] = "stopped" => ~reader[r])
    BY DEF IndInv, ActorsStopped
  <2>2. pc \in Frozen
    BY DEF IndInv, ChildFollows, Frozen, HandedOff, Running
  <2>3. actor[r] = "stopped"
    BY <2>2 DEF IndInv, ActorsStopped
  <2> QED
    BY <2>1, <2>3
<1> QED
  BY <1>1, Invariance, PTL

(* A step that is not the event loop's leaves the request where it is. *)
LEMMA RequestStays ==
    ASSUME [Next]_vars, ~HandleRequest, request # NoRequest
    PROVE  request' = request
<1>1. CASE StartUpgrade \/ HandleUpgrade \/ GiveUp
  <2>1. ASSUME HandUnchanged PROVE request' = request
    BY <2>1 DEF HandUnchanged, clientVars
  <2>2. ASSUME NEW r \in Region, StopActor(r) \/ ResumeActor(r) PROVE request' = request
    BY <2>2 DEF StopActor, ResumeActor, clientVars
  <2>3. HandUnchanged \/ \E r \in Region : StopActor(r) \/ ResumeActor(r)
    BY <1>1, Zenon DEF StartUpgrade, HandleUpgrade, GiveUp, SendListeners, StopAccepting, Drain,
           SendState, SendPtys, SendComplete, Succeed, ResumeLoop, KillChild
  <2> QED
    BY <2>1, <2>2, <2>3
<1>2. CASE RecvUpgrade \/ Ready \/ ChildFails
  BY <1>2 DEF RecvUpgrade, Recv, Ready, ChildFails, ChildUnchanged, clientVars
<1>3. ASSUME NEW r \in Region,
             Output(r) \/ Read(r) \/ StrayRead(r) \/ Push(r) \/ ReadLoopEnds(r) \/ Take(r)
             \/ ActorStops(r)
             \/ RestoreRegion(r) \/ NewRead(r)
      PROVE  request' = request
  BY <1>3 DEF Output, Read, StrayRead, Push, ReadLoopEnds, Take, ActorStops, RestoreRegion, NewRead,
         ChildUnchanged, clientVars
<1>4. CASE \E q \in Region \union {NoRegion} : Ask(q)
  BY <1>4 DEF Ask
<1>5. CASE UNCHANGED vars
  BY <1>5 DEF vars, clientVars
<1> QED
  BY <1>1, <1>2, <1>3, <1>4, <1>5 DEF Next

(* upgradeReq: a request that waits in the event loop's channel leaves it  *)
(* only by being handled, and never while the loop is parked: not by the   *)
(* pause, the handoff, the rollback or the new process.                    *)
THEOREM RequestsAlwaysKept == Spec => RequestsKept
<1>1. [Next]_vars =>
        [request # NoRequest /\ request' = NoRequest => watch' = request /\ ~paused]_vars
  BY RequestStays DEF HandleRequest
<1> QED
  BY <1>1, PTL DEF Spec, RequestsKept
=============================================================================
