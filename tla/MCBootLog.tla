----------------------------- MODULE MCBootLog -----------------------------
(* A small instance of BootLog for TLC. *)
EXTENDS BootLog
=============================================================================
