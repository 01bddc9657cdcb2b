----------------------------- MODULE TreeReplica -----------------------------
(***************************************************************************)
(* What tree replication promises to a viewer, whatever the transport      *)
(* loses: the viewer's copy, once it has one, always says what a tree the  *)
(* server committed says, and while it talks to one server it only moves   *)
(* forward through the server's committed trees.  Says is what of a tree   *)
(* the viewer can rely on.                                                 *)
(***************************************************************************)
EXTENDS Naturals, Sequences

CONSTANT Says(_)

VARIABLES
    history,   \* the trees the present server has committed, oldest first
    epoch,     \* which server process is running
    copy       \* the viewer's copy: [valid, epoch, version, tree]

replicaVars == <<history, epoch, copy>>

ReplicaInit ==
    /\ Len(history) = 1
    /\ epoch = 0
    /\ copy.valid = FALSE

(* The server commits one more tree. *)
CommitTree ==
    /\ Len(history') = Len(history) + 1
    /\ SubSeq(history', 1, Len(history)) = history
    /\ UNCHANGED <<epoch, copy>>

(* A new server process starts from a tree of its own. *)
NewServer ==
    /\ epoch' = epoch + 1
    /\ Len(history') = 1
    /\ UNCHANGED copy

(* The viewer moves to a tree of the present server that is not older than *)
(* the one of this server it already had.                                  *)
MoveForward ==
    /\ \E v \in 0 .. Len(history) - 1 :
          /\ copy'.valid /\ copy'.epoch = epoch /\ copy'.version = v
          /\ Says(copy'.tree) = Says(history[v + 1])
          /\ copy.valid /\ copy.epoch = epoch => v >= copy.version
    /\ UNCHANGED <<history, epoch>>

ReplicaNext == CommitTree \/ NewServer \/ MoveForward

ReplicaSpec == ReplicaInit /\ [][ReplicaNext]_replicaVars
=============================================================================
