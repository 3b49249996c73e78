--------------------------- MODULE SectionProbes ---------------------------
(***************************************************************************)
(* The probes that ask the system and turn its answer into a section of    *)
(* the snapshot: boot, services, resources, time synchronisation and       *)
(* updates (src/probes.cpp, src/probes_dbus.cpp).  An answer is what the   *)
(* D-Bus calls, system calls and files yielded, failures included.  A      *)
(* value that a section leaves out (std::nullopt) is NoValue; it is below  *)
(* every threshold, as in the comparisons of std::optional.                *)
(***************************************************************************)
EXTENDS Integers, Severity

CONSTANTS
  Units, Mounts,            \* what the configuration monitors
  T,                        \* Config::thresholds
  enable_ntp, enable_rtc, enable_thermal, enable_update_tracking

NoValue == -1000000
-----------------------------------------------------------------------------
\* BootProbe::collect, of the consecutive failures it finds (see BootState)
Boot(answer) ==
  [boot_fail_count |-> answer.failures, boot_ok |-> answer.failures = 0]
-----------------------------------------------------------------------------
\* query_unit.  answer.active is the ActiveState, "error" when systemd did
\* not give it; an inactive service whose .socket unit is active counts as
\* active.  NRestarts that cannot be read are 0.
query_unit(answer) ==
  [state |-> CASE answer.active = "error" -> "unknown"
               [] answer.active = "inactive" /\ answer.socket -> "active"
               [] OTHER -> answer.active,
   restart_count |-> IF answer.active = "error" THEN 0 ELSE answer.restarts]

evaluate_unit_severity(unit) ==
  IF unit.state = "failed" \/ unit.restart_count >= T.service_restart_crit THEN "crit"
  ELSE IF unit.restart_count >= T.service_restart_warn \/ unit.state = "inactive" THEN "warn"
  ELSE IF unit.state = "active" THEN "ok" ELSE "unknown"

\* ServicesProbe::collect.  answer.bus: there is a D-Bus connection.  A unit
\* of unknown severity leaves the overall severity as it is.
Services(answer) ==
  LET units == [u \in Units |-> IF answer.bus THEN query_unit(answer.units[u])
                                ELSE [state |-> "unknown", restart_count |-> 0]]
      severity == {evaluate_unit_severity(units[u]) : u \in Units}
  IN  [units |-> units,
       overall |-> IF answer.bus THEN worst_of({"ok"} \cup severity) ELSE "unknown"]
-----------------------------------------------------------------------------
\* collect_memory, when /proc/meminfo or sysinfo answered
Memory(answer) ==
  [mem_total_mb |-> answer.total_kb \div 1024,
   mem_used_mb  |-> IF answer.total_kb >= answer.available_kb
                    THEN (answer.total_kb - answer.available_kb) \div 1024 ELSE 0]

\* collect_storage for one mount: statvfs may fail or report no capacity
used_pct(answer) ==
  IF answer.ok /\ answer.blocks > 0
  THEN ((answer.blocks - answer.bfree) * 100) \div answer.blocks ELSE NoValue

\* collect_thermal for one sensor: only a plausible reading counts
temp_c(answer) ==
  IF answer.ok /\ answer.degrees \in -40 .. 150 THEN answer.degrees ELSE NoValue

\* ResourcesProbe::collect, when memory could be read (otherwise it fails).
\* A load average that cannot be read is 0.  The sensors are those there are.
Resources(answer) ==
  [cpu     |-> IF answer.cpu.ok THEN answer.cpu.load_pct ELSE 0,
   memory  |-> Memory(answer.memory),
   storage |-> [m \in Mounts |-> used_pct(answer.storage[m])],
   thermal |-> IF enable_thermal
               THEN [s \in DOMAIN answer.thermal |-> temp_c(answer.thermal[s])]
               ELSE <<>>]
-----------------------------------------------------------------------------
\* collect_ntp, of which the source counts: timedated may not answer
Source(answer) ==
  IF enable_ntp /\ answer.ok /\ answer.enabled /\ answer.synced THEN "ntp" ELSE "none"

\* collect_rtc, of which the battery voltage counts
voltage_mv(answer) == IF enable_rtc THEN answer.voltage_mv ELSE NoValue

evaluate_sync_severity(source, mv) ==
  LET sev == IF enable_ntp /\ source = "none" THEN "warn" ELSE "ok"
  IN  IF mv # NoValue /\ mv < T.rtc_voltage_crit_mv THEN "crit"
      ELSE IF mv # NoValue /\ mv < T.rtc_voltage_warn_mv /\ sev = "ok" THEN "warn" ELSE sev

\* TimeSyncProbe::collect
TimeSync(answer) ==
  [source     |-> Source(answer),
   voltage_mv |-> voltage_mv(answer),
   overall    |-> evaluate_sync_severity(Source(answer), voltage_mv(answer))]
-----------------------------------------------------------------------------
\* collect_rauc_update: RAUC may not answer, and may know no booted slot
collect_rauc_update(answer) ==
  IF answer.ok /\ answer.booted
  THEN [slot |-> answer.bootname,
        last |-> {[from |-> "rauc", result |-> IF answer.good THEN "success" ELSE "failed"]}]
  ELSE [slot |-> "", last |-> {}]

\* load_last_update: there may be no such file, or not a usable one
load_last_update(answer) ==
  IF answer = "none" THEN {} ELSE {[from |-> "file", result |-> answer]}

\* UpdateProbe::collect: the file counts only when RAUC has nothing
Update(answer) ==
  LET rauc == collect_rauc_update(answer.rauc)
      last == IF rauc.last # {} THEN rauc.last ELSE load_last_update(answer.file)
  IN  IF ~enable_update_tracking
      THEN [active_slot |-> "", last_update |-> {}, overall |-> "ok"]
      ELSE [active_slot |-> rauc.slot,
            last_update |-> last,
            overall |-> IF last = {} THEN "unknown"
                        ELSE IF \E u \in last : u.result = "failed" THEN "warn" ELSE "ok"]
=============================================================================
