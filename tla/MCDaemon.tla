------------------------------ MODULE MCDaemon ------------------------------
(* Small instances of Daemon for TLC. *)
EXTENDS Daemon, TLC

\* Fingerprints are interchangeable (used for safety only).
FpSymmetry == Permutations(Fingerprints)
=============================================================================
