--------------------------- MODULE MCPersistence ---------------------------
(***************************************************************************)
(* What is kept on the disk, for TLC: AtomicFile, where processes, values  *)
(* and inodes are interchangeable, and BootState.  They share no state;    *)
(* layer says which of the two a behaviour is of, and the other stays at   *)
(* its initial state.                                                      *)
(***************************************************************************)
EXTENDS AtomicFile, BootState, TLC

FileSymmetry ==
  Permutations(Procs) \cup Permutations(Values) \cup Permutations(Inodes)

VARIABLE layer

persistenceVars == <<layer, vars, bootVars>>

PersistenceInit == layer \in {"file", "boot"} /\ Init /\ BootInit

PersistenceNext ==
  \/ layer = "file" /\ Next /\ UNCHANGED <<layer, bootVars>>
  \/ layer = "boot" /\ BootNext /\ UNCHANGED <<layer, vars>>

PersistenceSpec == PersistenceInit /\ [][PersistenceNext]_persistenceVars
=============================================================================
