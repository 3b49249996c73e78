------------------------------ MODULE Snapshot ------------------------------
(***************************************************************************)
(* last_known_good_ of the daemon and the summary made of it: what each    *)
(* collection cycle keeps, replaces and marks stale, over the answers the  *)
(* system gives (src/daemon.cpp, collection_cycle).  When probes are due   *)
(* is CollectionSchedule's subject; here a cycle may or may not reach the  *)
(* sections with a longer interval.  Only the resources probe can fail.    *)
(***************************************************************************)
EXTENDS Aggregator, FiniteSets

CONSTANTS
  Answers,      \* [Domains -> the answers the system may give]
  Usual,        \* [Domains -> the answer of a healthy system]
  MaxUnusual    \* sections that may hold an unusual answer at a time

Never == [never |-> TRUE]   \* no answer yet

\* The types of an answer
AnswerOK(d, a) ==
  /\ a # Never
  /\ d = "boot" => a.failures \in Nat
  /\ d = "services" => \A u \in Units : a.units[u].restarts \in Nat
  /\ d = "resources" =>
       /\ a.cpu.load_pct \in Nat
       /\ a.memory.total_kb \in Nat /\ a.memory.available_kb \in Nat
       /\ \A m \in Mounts : a.storage[m].blocks \in Nat /\ a.storage[m].bfree \in Nat
       /\ \A x \in DOMAIN a.thermal : a.thermal[x].degrees \in Int
  /\ d = "time_sync" => a.voltage_mv \in Int
  /\ d = "journal" => a.overall \in Severities
  /\ d = "crash" => a.panic_count \in Nat

\* What Config::validate guarantees of the thresholds, and that a value left
\* out is below them
ASSUME SnapshotAssumption ==
  /\ \A t \in DOMAIN T : T[t] \in Int
  /\ {"boot_fail_warn", "boot_fail_crit", "cpu_load_warn", "cpu_load_crit", "mem_used_warn",
      "mem_used_crit", "disk_used_warn", "disk_used_crit", "temp_warn_c", "temp_crit_c",
      "service_restart_warn", "service_restart_crit", "rtc_voltage_warn_mv", "rtc_voltage_crit_mv"}
     \subseteq DOMAIN T
  /\ T.cpu_load_warn < T.cpu_load_crit /\ T.mem_used_warn < T.mem_used_crit
  /\ T.disk_used_warn < T.disk_used_crit /\ T.temp_warn_c < T.temp_crit_c
  /\ NoValue < T.disk_used_warn /\ NoValue < T.temp_warn_c
  /\ \A d \in Domains : AnswerOK(d, Usual[d]) /\ \A a \in Answers[d] : AnswerOK(d, a)

\* What Config::validate lets through, but makes a section look bad that was
\* never collected, or bad without a reason: thresholds of zero, and a battery
\* that is critical before it is low.
Sensible ==
  /\ T.boot_fail_warn > 0 /\ T.boot_fail_crit > 0 /\ T.cpu_load_warn > 0
  /\ T.rtc_voltage_crit_mv <= T.rtc_voltage_warn_mv

VARIABLES
  section,      \* last_known_good_
  stale,        \* freshness.stale of each section
  seen          \* the answer each section was made from, or Never

snapshotVars == <<section, stale, seen>>

Slow == {"time_sync", "update"}

\* The sections as constructed (types.hpp)
Default ==
  [boot      |-> [boot_fail_count |-> 0, boot_ok |-> TRUE],
   services  |-> [units |-> <<>>, overall |-> "unknown"],
   resources |-> [cpu |-> 0, memory |-> [mem_total_mb |-> 0, mem_used_mb |-> 0],
                  storage |-> <<>>, thermal |-> <<>>],
   time_sync |-> [source |-> "none", voltage_mv |-> NoValue, overall |-> "unknown"],
   update    |-> [active_slot |-> "", last_update |-> {}, overall |-> "unknown"],
   journal   |-> [overall |-> "unknown"],
   crash     |-> [present |-> FALSE, panic_count |-> 0,
                  panic_current_boot |-> FALSE, acknowledged |-> FALSE]]

\* The collect() of each probe; JournalReader and Daemon model the last two.
Collect(d, answer) ==
  CASE d = "boot" -> Boot(answer)
    [] d = "services" -> Services(answer)
    [] d = "resources" -> Resources(answer)
    [] d = "time_sync" -> TimeSync(answer)
    [] d = "update" -> Update(answer)
    [] OTHER -> answer

SnapshotInit ==
  /\ section = Default
  /\ stale = [d \in Domains |-> FALSE]
  /\ seen = [d \in Domains |-> Never]

\* mark_stale: a section seen before whose collection failed is stale once the
\* cycle comes late enough; it was so in the cycle before, it is so now.
mark_stale(d, failed, late) == seen[d] # Never /\ failed /\ (late \/ stale[d])

\* collection_cycle: maybe_collect of the probes due, then mark_stale.
collection_cycle(due, got, failing, late) ==
  LET fresh == due \ failing
  IN  /\ section' = [d \in Domains |-> IF d \in fresh THEN Collect(d, got[d]) ELSE section[d]]
      /\ seen' = [d \in Domains |-> IF d \in fresh THEN got[d] ELSE seen[d]]
      /\ stale' = [d \in Domains |-> mark_stale(d, d \in due \cap failing, late)]

Unusual == {d \in Domains : seen[d] \notin {Never, Usual[d]}}

\* Between two cycles the answer of one section becomes unusual or usual again;
\* memory may be unreadable.
Cycle ==
  \E d \in Domains, failing \in SUBSET {"resources"}, late \in BOOLEAN :
    /\ late => failing # {}
    /\ d \in Unusual \/ Cardinality(Unusual) < MaxUnusual
    /\ \E answer \in IF d \in Unusual THEN {Usual[d]} ELSE Answers[d] :
         collection_cycle(
           IF d \in Slow \/ seen["boot"] = Never THEN Domains ELSE Domains \ Slow,
           [x \in Domains |-> IF x = d THEN answer
                              ELSE IF seen[x] = Never THEN Usual[x] ELSE seen[x]],
           failing, late)

SnapshotNext == Cycle

SnapshotSpec == SnapshotInit /\ [][SnapshotNext]_snapshotVars
-----------------------------------------------------------------------------
summary == aggregate(section, stale)

Sighted(r) ==
  /\ \A m \in Mounts : r.storage[m].ok /\ r.storage[m].blocks > 0
  /\ enable_thermal => \A x \in DOMAIN r.thermal : r.thermal[x].ok /\ r.thermal[x].degrees \in -40 .. 150

\* The resources section never looks healthy blindly: with a mount or a sensor
\* that gives no usable reading, or when it could not be collected for too
\* long, the summary is worse than ok and names resources among the degraded
\* domains.
LossOfSightSurfaces ==
  /\ seen["resources"] # Never
  /\ ~Sighted(seen["resources"]) \/ stale["resources"]
  => /\ summary.severity \notin {"ok", "unknown"}
     /\ "resources" \in degraded_domains(summary.domains)

\* A section that ages is never shown better than it was: whatever warning the
\* last good collection gave stays until a collection succeeds.
AgeNeverHeals ==
  [][\A d \in Domains :
       stale'[d] => Rank[summary'.domains[d]] >= Rank[summary.domains[d]]]_snapshotVars

\* Until its first successful collection a section does not raise the summary
\* and names no reason but time_unsynced, if the thresholds are sensible.
WarmUpSafe ==
  LET s == summary
  IN  \A d \in Domains : Sensible /\ seen[d] = Never =>
        /\ Rank[s.domains[d]] <= Rank["ok"]
        /\ d # "resources" \/ \A r \in s.reasons :
             r[1] \notin {"mem_used_high", "disk_used_high", "temp_high"}

ReasonsOf ==
  [boot      |-> {"boot_failures"},
   services  |-> {"svc_failed"},
   resources |-> {"mem_used_high", "disk_used_high", "temp_high"},
   time_sync |-> {"time_unsynced", "rtc_battery_low"},
   update    |-> {"update_failed"},
   journal   |-> {"journal_errors"},
   crash     |-> {"kernel_panic_detected", "historical_crash_artifacts"}]

\* The degradations generate_reasons has no word for: restarts and inactive
\* units, and the load average.
Silent(d) ==
  \/ /\ d = "services"
     /\ \A u \in DOMAIN section[d].units : section[d].units[u].state # "failed"
  \/ /\ d = "resources"
     /\ Level(section[d].cpu, T.cpu_load_warn, T.cpu_load_crit) # "ok"

\* The reasons explain the severities: a domain at warn or crit gives one of
\* its reasons unless it is one of the silent degradations, and a domain that
\* is not degraded gives none but the informational ones.  The thresholds are
\* sensible.
ReasonsNameDrivers ==
  LET s == summary
      named(d) == \E r \in s.reasons : r[1] \in ReasonsOf[d]
  IN  \A d \in Domains : Sensible =>
        /\ s.domains[d] \in {"warn", "crit"} => named(d) \/ Silent(d)
        /\ named(d) => \/ s.domains[d] \in {"warn", "crit"}
                       \/ d = "time_sync" /\ (seen[d] = Never \/ ~enable_ntp)
                       \/ d = "crash" /\ section[d].acknowledged

\* The roll-up and the list of degraded domains that the daemon logs with a
\* degradation are computed apart (compute_overall, degraded_domains) and agree:
\* the device looks degraded exactly if a domain is listed, and the overall
\* severity is that of a listed one.
SummaryNamesDomains ==
  LET s == summary
      listed == degraded_domains(s.domains)
  IN  IF listed = {} THEN s.severity \in {"ok", "unknown"}
                     ELSE \E d \in listed : s.severity = s.domains[d]

\* A section that was never collected is of unknown severity, as the comments
\* on SectionFreshness and on mark_stale say.  It does not hold: resources
\* evaluate to ok before their first collection.
NeverObservedUnknown ==
  \A d \in Domains :
    seen[d] = Never /\ seen["boot"] # Never => summary.domains[d] = "unknown"
=============================================================================
