---------------------------- MODULE MCServerCore ----------------------------
(* Small instances of ServerCore for TLC. *)
EXTENDS ServerCore, TLC

(* Clients are interchangeable; a PTY and a native region are not. *)
ClientSymmetry == Permutations(Client)

(* At most two messages are on their way to the actors: both to one, which *)
(* fills its mailbox, or one to each.                                      *)
FewMessages ==
    \A r, s \in Region : r # s => Len(mailbox[r]) + Len(mailbox[s]) <= 2
=============================================================================
