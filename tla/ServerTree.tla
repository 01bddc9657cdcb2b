----------------------------- MODULE ServerTree -----------------------------
(***************************************************************************)
(* The object tree of nxtermd (internal/server/tree.go) and the client's   *)
(* interpreter of tree operations (internal/tui/tree.go).                  *)
(*                                                                         *)
(* Go maps are partial functions: a key is in DOMAIN exactly when the map  *)
(* holds it.  A transaction in progress is a record [tree, ops]: every     *)
(* typed mutator of ServerTree changes the tree and appends the operation  *)
(* it emits, and a request handler is a composition of mutators.  The      *)
(* client never sees the mutators, only the operations, which ApplyOp      *)
(* interprets on the client's own copy.                                    *)
(***************************************************************************)
EXTENDS Sequences, SequencesExt

CONSTANT Slashed   \* the session and program names that contain a "/"

(* A map with key k bound to v, and a map without key k. *)
MapSet(m, k, v) == [j \in DOMAIN m \union {k} |-> IF j = k THEN v ELSE m[j]]
MapDelete(m, k) == [j \in DOMAIN m \ {k} |-> m[j]]
EmptyMap == [j \in {} |-> {}]

(* removeString, and the same loop in the client's "remove" operation: the *)
(* first matching element goes, the others keep their order.               *)
removeString(ss, v) ==
    LET hits == {i \in DOMAIN ss : ss[i] = v}
    IN  IF hits = {} THEN ss
        ELSE LET first == CHOOSE i \in hits : \A j \in hits : i <= j
             IN  RemoveAt(ss, first)

(* The tree of a server that has just started, before any transaction. *)
NewServerTree(programs) ==
    [regions |-> EmptyMap, sessions |-> EmptyMap, clients |-> EmptyMap,
     programs |-> programs, upgrade |-> "none"]

(* StartTx: the mutations of one request start from an empty list. *)
StartTx(tree) == [tree |-> tree, ops |-> <<>>]

-----------------------------------------------------------------------------
(* Operations put on the wire (protocol.TreeOp).  kind is the first segment*)
(* of the path and key what follows it, a name as it is and not escaped;   *)
(* "add" and "remove" address the region_ids array of a session.           *)
TreeOp(op, kind, key, value) == [op |-> op, kind |-> kind, key |-> key, value |-> value]

Emit(tx, tree, op) == [tree |-> tree, ops |-> Append(tx.ops, op)]

SetRegion(tx, r, node) ==
    Emit(tx, [tx.tree EXCEPT !.regions = MapSet(@, r, node)],
         TreeOp("set", "regions", r, node))

DeleteRegion(tx, r) ==
    Emit(tx, [tx.tree EXCEPT !.regions = MapDelete(@, r)],
         TreeOp("delete", "regions", r, ""))

(* EnsureSession emits only when the session is new. *)
EnsureSession(tx, s) ==
    IF s \in DOMAIN tx.tree.sessions THEN tx
    ELSE Emit(tx, [tx.tree EXCEPT !.sessions = MapSet(@, s, <<>>)],
              TreeOp("set", "sessions", s, <<>>))

DeleteSession(tx, s) ==
    Emit(tx, [tx.tree EXCEPT !.sessions = MapDelete(@, s)],
         TreeOp("delete", "sessions", s, ""))

AddRegionToSession(tx, s, r) ==
    IF s \notin DOMAIN tx.tree.sessions THEN tx
    ELSE Emit(tx, [tx.tree EXCEPT !.sessions[s] = Append(@, r)],
              TreeOp("add", "sessions", s, r))

RemoveRegionFromSession(tx, s, r) ==
    IF s \notin DOMAIN tx.tree.sessions THEN tx
    ELSE Emit(tx, [tx.tree EXCEPT !.sessions[s] = removeString(@, r)],
              TreeOp("remove", "sessions", s, r))

SetProgram(tx, p) ==
    Emit(tx, [tx.tree EXCEPT !.programs = @ \union {p}], TreeOp("set", "programs", p, ""))

DeleteProgram(tx, p) ==
    Emit(tx, [tx.tree EXCEPT !.programs = @ \ {p}], TreeOp("delete", "programs", p, ""))

AddClient(tx, c, node) ==
    Emit(tx, [tx.tree EXCEPT !.clients = MapSet(@, c, node)],
         TreeOp("set", "clients", c, node))

DeleteClient(tx, c) ==
    Emit(tx, [tx.tree EXCEPT !.clients = MapDelete(@, c)],
         TreeOp("delete", "clients", c, ""))

(* SetClientSubscription, SetClientSession and SetClientIdentity: one field*)
(* of an existing client node changes and the whole node is sent again.    *)
SetClientField(tx, c, field, value) ==
    IF c \notin DOMAIN tx.tree.clients THEN tx
    ELSE LET node == [tx.tree.clients[c] EXCEPT ![field] = value]
         IN  Emit(tx, [tx.tree EXCEPT !.clients[c] = node],
                  TreeOp("set", "clients", c, node))

SetUpgrade(tx, u) ==
    Emit(tx, [tx.tree EXCEPT !.upgrade = u], TreeOp("set", "upgrade", "", u))

-----------------------------------------------------------------------------
(* The handlers of server_requests.go that change the tree.  A region node *)
(* records the region's session and its size.                              *)
SpawnRegion(tx, r, s, size) ==
    AddRegionToSession(
        EnsureSession(SetRegion(tx, r, [session |-> s, size |-> size]), s), s, r)

DestroyRegion(tx, r) ==
    IF r \notin DOMAIN tx.tree.regions THEN tx
    ELSE LET s  == tx.tree.regions[r].session
             t1 == RemoveRegionFromSession(DeleteRegion(tx, r), s, r)
         IN  IF s \in DOMAIN t1.tree.sessions /\ t1.tree.sessions[s] = <<>>
             THEN DeleteSession(t1, s) ELSE t1

(* setRegionGeometryReq re-emits the node with the size the actor now has. *)
SetRegionGeometry(tx, r, size) ==
    IF r \notin DOMAIN tx.tree.regions THEN tx
    ELSE SetRegion(tx, r, [tx.tree.regions[r] EXCEPT !.size = size])

AddProgram(tx, p) == IF p \in tx.tree.programs THEN tx ELSE SetProgram(tx, p)

RemoveProgram(tx, p) == IF p \in tx.tree.programs THEN DeleteProgram(tx, p) ELSE tx

-----------------------------------------------------------------------------
(* The client's interpreter: TreeStore.applyOp and its per-kind helpers.   *)
ApplySessionOp(sessions, o) ==
    CASE o.op = "set"    -> MapSet(sessions, o.key, o.value)
      [] o.op = "delete" -> MapDelete(sessions, o.key)
      [] o.op = "add"    -> IF o.key \notin DOMAIN sessions THEN sessions
                            ELSE [sessions EXCEPT ![o.key] = Append(@, o.value)]
      [] o.op = "remove" -> IF o.key \notin DOMAIN sessions THEN sessions
                            ELSE [sessions EXCEPT ![o.key] = removeString(@, o.value)]

ApplyMapOp(m, o) ==
    IF o.op = "set" THEN MapSet(m, o.key, o.value) ELSE MapDelete(m, o.key)

(* splitPath: a name with a "/" in it leaves a path of more segments than  *)
(* the helpers look for, and they return without a change.  The IDs of     *)
(* regions and clients are the server's own and have no "/".               *)
Recognised(o) == o.kind \in {"sessions", "programs"} => o.key \notin Slashed

ApplyProgramOp(programs, o) ==
    IF o.op = "set" THEN programs \union {o.key} ELSE programs \ {o.key}

ApplyOp(tree, o) ==
    IF ~Recognised(o) THEN tree
    ELSE CASE o.kind = "regions"  -> [tree EXCEPT !.regions  = ApplyMapOp(@, o)]
           [] o.kind = "clients"  -> [tree EXCEPT !.clients  = ApplyMapOp(@, o)]
           [] o.kind = "sessions" -> [tree EXCEPT !.sessions = ApplySessionOp(@, o)]
           [] o.kind = "programs" -> [tree EXCEPT !.programs = ApplyProgramOp(@, o)]
           [] o.kind = "upgrade"  -> [tree EXCEPT !.upgrade  = o.value]

(* What a tree says beyond the sessions and programs with a "/" in their   *)
(* names, which a viewer learns of from snapshots alone.                   *)
Unslashed(m) == [j \in DOMAIN m \ Slashed |-> m[j]]
Plain(tree) ==
    [regions |-> tree.regions, sessions |-> Unslashed(tree.sessions),
     clients |-> tree.clients, programs |-> tree.programs \ Slashed,
     upgrade |-> tree.upgrade]

(* HandleEvents applies the operations of a message in order. *)
ApplyOps(tree, ops) == FoldLeft(ApplyOp, tree, ops)
=============================================================================
