----------------------------- MODULE Aggregator -----------------------------
(***************************************************************************)
(* The roll-up of the sections into the summary (src/aggregator.cpp).      *)
(***************************************************************************)
EXTENDS SectionProbes

Domains ==
  {"boot", "services", "resources", "time_sync", "update", "journal", "crash"}

evaluate_boot(boot) ==
  IF boot.boot_fail_count >= T.boot_fail_crit THEN "crit"
  ELSE IF boot.boot_fail_count >= T.boot_fail_warn \/ ~boot.boot_ok THEN "warn"
  ELSE "ok"

\* evaluate_cpu, and the two comparisons of the evaluations below
Level(value, warn, crit) ==
  IF value >= crit THEN "crit" ELSE IF value >= warn THEN "warn" ELSE "ok"

mem_pct(memory) == (memory.mem_used_mb * 100) \div memory.mem_total_mb

\* Mutant of evaluate_memory: no reading is a lost reading.
evaluate_memory_lost(memory) ==
  IF memory.mem_total_mb = 0 THEN "unavailable"
  ELSE Level(mem_pct(memory), T.mem_used_warn, T.mem_used_crit)

evaluate_memory(memory) ==
  IF memory.mem_total_mb = 0 THEN "unknown"
  ELSE Level(mem_pct(memory), T.mem_used_warn, T.mem_used_crit)

\* Mutant of Readings: what cannot be read is as good as never observed.
ReadingsForgiving(values, warn, crit) ==
  worst_of({"ok"} \cup {Level(values[x], warn, crit) : x \in DOMAIN values})

\* evaluate_disk and evaluate_thermal
Readings(values, warn, crit) ==
  worst_of({"ok"} \cup {IF values[x] = NoValue THEN "unavailable"
                        ELSE Level(values[x], warn, crit) : x \in DOMAIN values})

evaluate_resources(resources) ==
  worst_of({Level(resources.cpu, T.cpu_load_warn, T.cpu_load_crit),
            evaluate_memory(resources.memory),
            Readings(resources.storage, T.disk_used_warn, T.disk_used_crit),
            Readings(resources.thermal, T.temp_warn_c, T.temp_crit_c)})

evaluate_crash(crash) ==
  IF crash.panic_count = 0 \/ crash.acknowledged THEN "ok"
  ELSE IF crash.panic_current_boot THEN "crit" ELSE "warn"

\* evaluate_services, evaluate_time_sync, evaluate_update, evaluate_journal
evaluate_own(section) == section.overall

Evaluate(d, section) ==
  CASE d = "boot" -> evaluate_boot(section)
    [] d = "resources" -> evaluate_resources(section)
    [] d = "crash" -> evaluate_crash(section)
    [] OTHER -> evaluate_own(section)

When(cond, reason) == IF cond THEN {<<reason, "">>} ELSE {}
About(reason, S) == {<<reason, x>> : x \in S}

\* Mutant of crash_reasons: the artifacts hide the panic.
crash_reasons_quiet(crash) ==
  IF crash.present THEN {<<"pstore_records_present", "">>}
  ELSE When(crash.panic_count > 0, "historical_crash_artifacts")

\* The crash part of generate_reasons
crash_reasons(crash) ==
  LET active == crash.panic_count > 0 /\ ~crash.acknowledged /\ crash.panic_current_boot
  IN  UNION {When(active, "kernel_panic_detected"),
             When(crash.panic_count > 0 /\ ~active, "historical_crash_artifacts"),
             When(crash.present, "pstore_records_present")}

\* generate_reasons: each reason with what it is about; the order is left out
generate_reasons(section) ==
  LET services == section["services"]
      resources == section["resources"]
      time_sync == section["time_sync"]
  IN  UNION {
        When(section["boot"].boot_fail_count > 0, "boot_failures"),
        About("svc_failed", {u \in DOMAIN services.units : services.units[u].state = "failed"}),
        When(/\ resources.memory.mem_total_mb > 0
             /\ mem_pct(resources.memory) >= T.mem_used_warn, "mem_used_high"),
        About("disk_used_high",
              {m \in DOMAIN resources.storage : resources.storage[m] >= T.disk_used_warn}),
        About("temp_high",
              {s \in DOMAIN resources.thermal : resources.thermal[s] >= T.temp_warn_c}),
        When(time_sync.source = "none", "time_unsynced"),
        When(/\ time_sync.voltage_mv # NoValue
             /\ time_sync.voltage_mv < T.rtc_voltage_warn_mv, "rtc_battery_low"),
        When(\E u \in section["update"].last_update : u.result = "failed", "update_failed"),
        When(section["journal"].overall \in {"warn", "crit"}, "journal_errors"),
        crash_reasons(section["crash"])}

\* Mutant of DomainSeverities: a stale section is stale, whatever it showed.
DomainSeveritiesForget(section, stale) ==
  [d \in Domains |-> IF stale[d] THEN "stale" ELSE Evaluate(d, section[d])]

\* aggregate, up to summary.domains
DomainSeverities(section, stale) ==
  [d \in Domains |-> IF stale[d] THEN worst_of({Evaluate(d, section[d]), "stale"})
                     ELSE Evaluate(d, section[d])]

compute_overall(domains) == worst_of({domains[d] : d \in Domains})

aggregate(section, stale) ==
  LET domains == DomainSeverities(section, stale)
  IN  [domains  |-> domains,
       severity |-> compute_overall(domains),
       reasons  |-> generate_reasons(section)]

degraded_domains(domains) == {d \in Domains : domains[d] \notin {"ok", "unknown"}}
=============================================================================
