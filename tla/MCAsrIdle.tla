----------------------------- MODULE MCAsrIdle -----------------------------
(* Instance of AsrIdle for TLC. *)
EXTENDS AsrIdle, TLC
=============================================================================
