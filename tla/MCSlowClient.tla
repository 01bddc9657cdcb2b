---------------------------- MODULE MCSlowClient ----------------------------
(* A small instance of SlowClient for TLC. *)
EXTENDS SlowClient
=============================================================================
