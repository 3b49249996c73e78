---------------------------- MODULE MCBootState ----------------------------
(* Small instances of BootState for TLC.                                   *)
EXTENDS BootState
=============================================================================
