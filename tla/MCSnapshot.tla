----------------------------- MODULE MCSnapshot -----------------------------
(***************************************************************************)
(* A small instance of Snapshot for TLC: the default thresholds, and the   *)
(* answers on either side of each of them, with the failures of each call. *)
(***************************************************************************)
EXTENDS Snapshot, FiniteSetsExt, TLC

\* worst_of is what its loop computes, in any order.
ASSUME WorstOfLoop ==
  \A S \in SUBSET Severities : worst_of(S) = FoldSet(Worse, "unknown", S)

MCT ==
  [cpu_load_warn |-> 80, cpu_load_crit |-> 95, mem_used_warn |-> 80, mem_used_crit |-> 95,
   disk_used_warn |-> 80, disk_used_crit |-> 95, temp_warn_c |-> 70, temp_crit_c |-> 85,
   service_restart_warn |-> 3, service_restart_crit |-> 10,
   boot_fail_warn |-> 1, boot_fail_crit |-> 3,
   rtc_voltage_warn_mv |-> 2700, rtc_voltage_crit_mv |-> 2500]

UnitAnswer(active, socket, restarts) ==
  [active |-> active, socket |-> socket, restarts |-> restarts]
UnitAnswers ==
  {UnitAnswer("error", FALSE, 0), UnitAnswer("active", FALSE, 0), UnitAnswer("activating", FALSE, 3),
   UnitAnswer("inactive", FALSE, 10), UnitAnswer("inactive", TRUE, 0), UnitAnswer("failed", FALSE, 2)}

Stat(ok, blocks, bfree) == [ok |-> ok, blocks |-> blocks, bfree |-> bfree]
Heat(ok, degrees) == [ok |-> ok, degrees |-> degrees]
Mem(available) == [total_kb |-> 102400, available_kb |-> available]

UsualResources ==
  [cpu |-> [ok |-> TRUE, load_pct |-> 10], memory |-> Mem(81920),
   storage |-> [m \in Mounts |-> Stat(TRUE, 100, 50)], thermal |-> [cpu |-> Heat(TRUE, 45)]]

Cpus == {[ok |-> FALSE, load_pct |-> 0]} \cup [ok : {TRUE}, load_pct : {80, 95}]
Mems == {Mem(20480), Mem(0), Mem(200000), [total_kb |-> 1000, available_kb |-> 0]}
Stats == {Stat(FALSE, 0, 0), Stat(TRUE, 0, 0), Stat(TRUE, 1000, 200), Stat(TRUE, 100, 0)}
Heats == {Heat(FALSE, 0), Heat(TRUE, 151), Heat(TRUE, 70), Heat(TRUE, 85)}

\* One or two parts of the section at a time
ResourceAnswers ==
  LET one(R) == UNION {{[r EXCEPT !.cpu = c] : c \in Cpus} \cup {[r EXCEPT !.memory = m] : m \in Mems}
                       \cup {[r EXCEPT !.storage = [m \in Mounts |-> st]] : st \in Stats}
                       \cup {[r EXCEPT !.thermal = [cpu |-> h]] : h \in Heats}
                       \cup {[r EXCEPT !.thermal = <<>>]} : r \in R}
  IN  one(one({UsualResources}))

MCUsual ==
  [boot |-> [failures |-> 0],
   services |-> [bus |-> TRUE, units |-> [u \in Units |-> UnitAnswer("active", FALSE, 0)]],
   resources |-> UsualResources,
   time_sync |-> [ok |-> TRUE, enabled |-> TRUE, synced |-> TRUE, voltage_mv |-> NoValue],
   update |-> [rauc |-> [ok |-> TRUE, booted |-> TRUE, good |-> TRUE, bootname |-> "A"], file |-> "none"],
   journal |-> [overall |-> "ok"],
   crash |-> Default["crash"]]

MCAnswers ==
  [boot |-> [failures : 0 .. 3],
   services |-> [bus : {TRUE}, units : [Units -> UnitAnswers]]
                  \cup {[bus |-> FALSE, units |-> [u \in Units |-> UnitAnswer("error", FALSE, 0)]]},
   resources |-> ResourceAnswers,
   time_sync |-> [ok : {TRUE}, enabled : BOOLEAN, synced : BOOLEAN, voltage_mv : {NoValue, 2499, 2699, 2700}]
                   \cup [ok : {FALSE}, enabled : {FALSE}, synced : {FALSE}, voltage_mv : {NoValue, 2499, 2699}],
   update |-> [rauc : [ok : {TRUE}, booted : {TRUE}, good : BOOLEAN, bootname : {"A", ""}]
                        \cup [ok : BOOLEAN, booted : {FALSE}, good : {FALSE}, bootname : {"B"}],
               file : {"none", "success", "failed", "unknown"}],
   journal |-> [overall : {"ok", "warn", "crit"}],
   crash |-> {c \in [present : BOOLEAN, panic_count : 0 .. 1, panic_current_boot : BOOLEAN, acknowledged : BOOLEAN] :
                /\ c.panic_count > 0 => c.present
                /\ c.panic_current_boot \/ c.acknowledged => c.panic_count > 0}]
=============================================================================
