------------------------------ MODULE MCUpgrade ------------------------------
(* Small instances of Upgrade for TLC. *)
EXTENDS Upgrade
=============================================================================
