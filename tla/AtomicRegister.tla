--------------------------- MODULE AtomicRegister ---------------------------
(***************************************************************************)
(* What atomic_write_file promises its callers: a file that can be written *)
(* as a whole.  A write takes effect for readers at one instant, or not at *)
(* all; a write that was reported as done survives a power loss; one that  *)
(* was reported as failed may have taken effect or not.                    *)
(***************************************************************************)
EXTENDS Naturals

CONSTANTS
  Procs,     \* writers of the file
  Values,    \* what they write
  NoValue    \* the file does not exist

VARIABLES
  visible,   \* what a reader of the file finds
  durable,   \* what would be found after a power loss
  status,    \* where a writer's call is
  arg        \* the value it writes

vars == <<visible, durable, status, arg>>

Init ==
  /\ visible = NoValue /\ durable = NoValue
  /\ status = [p \in Procs |-> "idle"]
  /\ arg = [p \in Procs |-> NoValue]

Invoke(p, v) ==
  /\ status[p] = "idle"
  /\ status' = [status EXCEPT ![p] = "writing"]
  /\ arg' = [arg EXCEPT ![p] = v]
  /\ UNCHANGED <<visible, durable>>

\* The instant at which readers get to see the value
Commit(p) ==
  /\ status[p] = "writing"
  /\ status' = [status EXCEPT ![p] = "committed"]
  /\ visible' = arg[p]
  /\ UNCHANGED <<durable, arg>>

\* What readers see becomes durable, and with it every write committed so far.
Sync ==
  /\ durable' = visible
  /\ status' = [p \in Procs |->
                  IF status[p] = "committed" THEN "safe" ELSE status[p]]
  /\ UNCHANGED <<visible, arg>>

\* The call reports success: only for a value (or a later one) on the disk.
Succeed(p) ==
  /\ status[p] = "safe"
  /\ status' = [status EXCEPT ![p] = "ok"]
  /\ UNCHANGED <<visible, durable, arg>>

\* The call reports an error: nothing is known about its effect.
Fail(p) ==
  /\ status[p] \in {"writing", "committed", "safe"}
  /\ status' = [status EXCEPT ![p] = "error"]
  /\ UNCHANGED <<visible, durable, arg>>

\* The caller goes on, or its process is killed.
Leave(p) ==
  /\ status' = [status EXCEPT ![p] = "idle"]
  /\ arg' = [arg EXCEPT ![p] = NoValue]
  /\ UNCHANGED <<visible, durable>>

PowerLoss ==
  /\ visible' = durable
  /\ status' = [p \in Procs |-> "idle"]
  /\ arg' = [p \in Procs |-> NoValue]
  /\ UNCHANGED durable

Next ==
  \/ \E p \in Procs : \/ \E v \in Values : Invoke(p, v)
                      \/ Commit(p) \/ Succeed(p) \/ Fail(p) \/ Leave(p)
  \/ Sync \/ PowerLoss

Spec == Init /\ [][Next]_vars
=============================================================================
