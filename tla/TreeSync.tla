------------------------------ MODULE TreeSync ------------------------------
(***************************************************************************)
(* Replication of the server's tree to one viewer (a TUI): the event loop  *)
(* commits transactions and broadcasts tree_events through each client's   *)
(* bounded, lossy writeCh; the viewer's TreeStore applies them, detects    *)
(* version gaps and asks for a snapshot.  Connections are lost and         *)
(* re-established, and the server may be replaced by a new process whose   *)
(* version numbers start again from zero, while the TreeStore survives.    *)
(*                                                                         *)
(* Every connection has a client ID of its own (nextClientID never reuses  *)
(* one), so Conn is the set of client IDs.                                 *)
(***************************************************************************)
EXTENDS Naturals, FiniteSets, ServerTree

CONSTANTS
    Conn,         \* client IDs, one per connection the viewer makes
    Region, Session, Program, Size,
    NoConn,       \* the viewer is not connected
    WireCap,      \* messages the transport buffers beyond writeCh
    Setups        \* what a run is about, one record per kind of run:
                  \*   writeCap: capacity of a client's writeCh (writeChSize, 64 by default)
                  \*   conns, regions, sessions, programs: the client IDs, regions
                  \*     and names that come up
                  \*   versions, epochs: bounds on the transactions one server process
                  \*     commits and on server replacements
                  \*   frames, resyncs: bounds on screen frames sharing writeCh and on
                  \*     resync requests in flight

ASSUME TreeSyncAssumption ==
    /\ WireCap \in Nat \ {0}
    /\ NoConn \notin Conn
    /\ \A s \in Setups :
          /\ s.writeCap \in Nat \ {0}
          /\ s.conns \subseteq Conn /\ s.regions \subseteq Region
          /\ s.sessions \subseteq Session /\ s.programs \subseteq Program
          /\ {s.versions, s.epochs, s.frames, s.resyncs} \subseteq Nat

VARIABLES
    setup,     \* the kind of run, chosen once
    tree,      \* st.tree of the event loop
    version,   \* ServerTree.version
    history,   \* history variable: every tree the present server committed
    epoch,     \* history variable: which server process is running
    conns,     \* Conn -> "unused" | "open" | "lost" | "gone"
    conn,      \* the viewer's present connection
    writeCh,   \* writeCh of the present connection
    wire,      \* what writeLoop has written and the viewer has not yet read
    frames,    \* screen frames queued so far
    writeFailed, \* writeLoop met a write error and now only discards
    store,     \* the viewer's TreeStore
    resync     \* resync requests on their way to the event loop

vars == <<setup, tree, version, history, epoch, conns, conn, writeCh, wire, frames,
          writeFailed, store, resync>>

serverVars == <<setup, tree, version, history, epoch>>
viewerVars == <<store, resync>>

(* SendMessage never waits: a message that finds writeCh full is dropped.  *)
SendMessage(ch, m) == IF Len(ch) < setup.writeCap THEN Append(ch, m) ELSE ch

(* A defect: the snapshot is stamped with the version of the next commit. *)
SnapshotMsgAhead ==
    [type |-> "snapshot", version |-> version + 1, tree |-> tree, epoch |-> epoch]

(* ServerTree.Snapshot and the identify message, as queued for a client. *)
SnapshotMsg == [type |-> "snapshot", version |-> version, tree |-> tree, epoch |-> epoch]
IdentifyMsg == [type |-> "identify"]

(* A screen_update or terminal_events frame, of no interest to the store.  *)
FrameMsg == [type |-> "frame"]

(* commitAndBroadcast for the transaction tx, when the viewer's            *)
(* connection is c and its queue ch: nothing happens when no operation was *)
(* emitted; otherwise the version grows and every client in the tree is    *)
(* sent the operations, without waiting for room.                          *)
Commit(tx, c, ch) ==
    /\ tree' = tx.tree
    /\ IF tx.ops = <<>> THEN
          /\ writeCh' = ch
          /\ UNCHANGED <<version, history>>
       ELSE
          /\ version < setup.versions
          /\ version' = version + 1
          /\ history' = Append(history, tx.tree)
          /\ writeCh' = IF c \in DOMAIN tx.tree.clients
                        THEN SendMessage(ch, [type |-> "events", version |-> version + 1,
                                              ops |-> tx.ops, epoch |-> epoch])
                        ELSE ch
    /\ UNCHANGED <<setup, epoch>>

ClientNode == [session |-> "", region |-> "", ident |-> ""]

Init ==
    /\ setup \in Setups
    /\ tree = NewServerTree(setup.programs)
    /\ version = 0
    /\ history = <<tree>>
    /\ epoch = 0
    /\ conns = [c \in Conn |-> "unused"]
    /\ conn = NoConn
    /\ writeCh = <<>> /\ wire = <<>> /\ frames = 0 /\ writeFailed = FALSE
    /\ store = [valid |-> FALSE, version |-> 0, tree |-> NewServerTree({}), epoch |-> 0]
    /\ resync = 0

-----------------------------------------------------------------------------
(* The server. *)

(* acceptClient and addClientReq: identify and the snapshot are queued on  *)
(* the new connection before the client joins the tree, and the commit     *)
(* that adds it follows as an ordinary event.  writeLoop already runs, and *)
(* may have taken identify before the snapshot is queued.                  *)
Connect(c) ==
    /\ conn = NoConn /\ conns[c] = "unused" /\ c \in setup.conns
    /\ conn' = c
    /\ conns' = [conns EXCEPT ![c] = "open"]
    /\ writeFailed' = FALSE
    /\ \E queue \in {<<>>, <<IdentifyMsg>>} :
          /\ wire' = IF queue = <<>> THEN <<IdentifyMsg>> ELSE <<>>
          /\ Commit(AddClient(StartTx(tree), c, ClientNode), c,
                    SendMessage(queue, SnapshotMsg))
    /\ UNCHANGED <<frames, viewerVars>>

(* removeClientReq, sent when the connection's ReadLoop ends.  The viewer  *)
(* may have reconnected under another ID by then.                          *)
RemoveClient(c) ==
    /\ conns[c] = "lost"
    /\ conns' = [conns EXCEPT ![c] = "gone"]
    /\ Commit(DeleteClient(StartTx(tree), c), conn, writeCh)
    /\ UNCHANGED <<conn, wire, frames, writeFailed, viewerVars>>

(* One request, of this or of another client, that may change the tree.    *)
(* SetUpgrade stands for the phases an upgrade publishes.                  *)
HandleRequest ==
    /\ LET tx == StartTx(tree) IN
          \/ \E r \in setup.regions \ DOMAIN tree.regions, s \in setup.sessions, z \in Size :
                Commit(SpawnRegion(tx, r, s, z), conn, writeCh)
          \/ \E r \in setup.regions : Commit(DestroyRegion(tx, r), conn, writeCh)
          \/ \E r \in setup.regions, z \in Size : Commit(SetRegionGeometry(tx, r, z), conn, writeCh)
          \/ \E p \in setup.programs : Commit(AddProgram(tx, p), conn, writeCh)
          \/ \E p \in setup.programs : Commit(RemoveProgram(tx, p), conn, writeCh)
          \/ \E c \in setup.conns, r \in setup.regions \union {""} :
                Commit(SetClientField(tx, c, "region", r), conn, writeCh)
          \/ \E c \in setup.conns, s \in setup.sessions :
                Commit(SetClientField(tx, c, "session", s), conn, writeCh)
          \/ \E c \in setup.conns : Commit(SetClientField(tx, c, "ident", "host"), conn, writeCh)
          \/ \E u \in {"active", "none"} : Commit(SetUpgrade(tx, u), conn, writeCh)
    /\ UNCHANGED <<conns, conn, wire, frames, writeFailed, viewerVars>>

(* treeSnapshotReq: the answer is a SendMessage, dropped when writeCh is   *)
(* full; it goes nowhere when the client has left the tree.                *)
HandleResync ==
    /\ resync > 0
    /\ resync' = resync - 1
    /\ writeCh' = IF conn \in DOMAIN tree.clients THEN SendMessage(writeCh, SnapshotMsg)
                  ELSE writeCh
    /\ UNCHANGED <<serverVars, conns, conn, wire, frames, writeFailed, store>>

(* An actor's SendFrame: the output of the region the viewer watches takes *)
(* places in the same writeCh.                                             *)
QueueFrame ==
    /\ conn # NoConn
    /\ frames < setup.frames
    /\ frames' = frames + 1
    /\ writeCh' = SendMessage(writeCh, FrameMsg)
    /\ UNCHANGED <<serverVars, conns, conn, wire, writeFailed, viewerVars>>

(* writeLoop moves one message from writeCh to the transport. *)
WriteLoop ==
    /\ writeCh # <<>> /\ ~writeFailed /\ Len(wire) < WireCap
    /\ wire' = Append(wire, Head(writeCh))
    /\ writeCh' = Tail(writeCh)
    /\ UNCHANGED <<serverVars, conns, conn, frames, writeFailed, viewerVars>>

(* A write that fails, or misses its deadline of five seconds, loses its   *)
(* message; from then on writeLoop takes messages only to discard them.    *)
WriteLoopFailed ==
    /\ writeCh # <<>>
    /\ writeFailed' = TRUE
    /\ writeCh' = Tail(writeCh)
    /\ UNCHANGED <<serverVars, conns, conn, wire, frames, viewerVars>>

-----------------------------------------------------------------------------
(* The viewer. *)

(* The viewer's Send of a TreeResyncRequest: its outbound queue may be     *)
(* full of other messages, and then the request is dropped.                *)
RequestResync ==
    \/ /\ resync < setup.resyncs
       /\ resync' = resync + 1
    \/ UNCHANGED resync

(* TreeStore.HandleEvents: only the next version is applied. *)
Applies(m) == store.valid /\ m.version = store.version + 1

(* A defect: the snapshot's version is not taken over. *)
HandleSnapshotUnversioned(m) ==
    /\ store' = [valid |-> TRUE, version |-> store.version, tree |-> m.tree, epoch |-> m.epoch]
    /\ UNCHANGED resync

(* TreeStore.HandleSnapshot. *)
HandleSnapshot(m) ==
    /\ store' = [valid |-> TRUE, version |-> m.version, tree |-> m.tree, epoch |-> m.epoch]
    /\ UNCHANGED resync

HandleEvents(m) ==
    IF Applies(m)
    THEN /\ store' = [valid |-> TRUE, version |-> m.version,
                      tree |-> ApplyOps(store.tree, m.ops), epoch |-> m.epoch]
         /\ UNCHANGED resync
    ELSE /\ RequestResync
         /\ UNCHANGED store

(* processServerMsg takes the next message off the inbound channel. *)
Receive ==
    /\ wire # <<>>
    /\ wire' = Tail(wire)
    /\ LET m == Head(wire) IN
          CASE m.type = "snapshot" -> HandleSnapshot(m)
            [] m.type = "events"   -> HandleEvents(m)
            [] OTHER               -> UNCHANGED viewerVars
    /\ UNCHANGED <<serverVars, conns, conn, writeCh, frames, writeFailed>>

(* The connection drops.  What was not yet read is lost; requests already  *)
(* on the wire are lost too, those still queued in the viewer survive.     *)
LoseConnection ==
    /\ conn # NoConn
    /\ conns' = [conns EXCEPT ![conn] = "lost"]
    /\ conn' = NoConn
    /\ writeCh' = <<>> /\ wire' = <<>> /\ writeFailed' = FALSE
    /\ resync' \in 0 .. resync
    /\ UNCHANGED <<serverVars, frames, store>>

(* A new server process takes over (a live upgrade or a restart): a fresh  *)
(* tree at version 0, and every connection of the old process is gone.     *)
ReplaceServer ==
    /\ epoch < setup.epochs
    /\ epoch' = epoch + 1
    /\ tree' = NewServerTree(setup.programs)
    /\ version' = 0
    /\ history' = <<tree'>>
    /\ conns' = [c \in Conn |-> IF conns[c] = "unused" THEN "unused" ELSE "gone"]
    /\ conn' = NoConn
    /\ writeCh' = <<>> /\ wire' = <<>> /\ writeFailed' = FALSE
    /\ resync' \in 0 .. resync
    /\ UNCHANGED <<setup, frames, store>>

Next ==
    \/ \E c \in Conn : Connect(c)
    \/ \E c \in Conn : RemoveClient(c)
    \/ HandleRequest
    \/ HandleResync
    \/ QueueFrame
    \/ WriteLoop
    \/ WriteLoopFailed
    \/ Receive
    \/ LoseConnection
    \/ ReplaceServer

Spec == Init /\ [][Next]_vars

(* The event loop, writeLoop and the viewer's loop are goroutines that keep*)
(* running; connections and requests are up to the users.                  *)
FairSpec ==
    Spec /\ WF_vars(HandleResync) /\ WF_vars(WriteLoop \/ WriteLoopFailed) /\ WF_vars(Receive)

-----------------------------------------------------------------------------

\* The abstract specification of the viewer's copy.
Replica == INSTANCE TreeReplica WITH copy <- store, Says <- Plain

(* Every run implements it: the viewer's copy only ever moves forward      *)
(* through committed trees, whatever writeCh drops (TreeStore).  It is held*)
(* to what they say beyond names with a "/": their operations reach no     *)
(* helper of applyOp, and yet the version moves on.                        *)
CopyMovesForward == Replica!ReplicaSpec

(* Enough room in writeCh for every message of the run.                    *)
Roomy == setup.writeCap >= setup.versions + setup.frames + setup.resyncs + 1

(* With no message dropped, a connected viewer's copy ends up at the       *)
(* server's version (TreeStore.HandleEvents asks for a resync otherwise).  *)
Converges ==
    <>[](Roomy /\ conn # NoConn /\ ~writeFailed =>
            store.valid /\ store.epoch = epoch /\ store.version = version)
=============================================================================
