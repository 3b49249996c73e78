------------------------------ MODULE Severity ------------------------------
(***************************************************************************)
(* The severity lattice shared by the aggregator, the D-Bus manager and    *)
(* the web UI: six severities ranked from "never observed" to "critical".  *)
(***************************************************************************)
EXTENDS Integers, Sequences

Severities == {"unknown", "ok", "stale", "unavailable", "warn", "crit"}

\* The rank table of is_degradation and of worst_of (they are two copies of
\* the same switch).
Rank == [s \in Severities |->
           CASE s = "unknown" -> 0
             [] s = "ok" -> 1
             [] s = "stale" -> 2
             [] s = "unavailable" -> 3
             [] s = "warn" -> 4
             [] s = "crit" -> 5]

\* One turn of worst_of's loop: a later severity wins only if strictly worse.
Worse(a, b) == IF Rank[b] > Rank[a] THEN b ELSE a

\* worst_of, what its loop comes to: the order of the list does not matter
worst_of(S) ==
  CHOOSE worst \in S \cup {"unknown"} : \A s \in S : Rank[s] <= Rank[worst]

\* HealthManager's test for emitting HealthAlarm("overall").
is_degradation(prev_sev, new_sev) == Rank[new_sev] > Rank[prev_sev]
=============================================================================
