-------------------------- MODULE CollectionSchedule --------------------------
(***************************************************************************)
(* When edge-healthd collects (src/daemon.cpp): the ProbeSchedule of every *)
(* probe, maybe_collect and mark_stale of collection_cycle, the wait       *)
(* between cycles, the TriggerSnapshot rate limiter and the forced runs of *)
(* the update and crash probes, on a discrete steady clock.                *)
(*                                                                         *)
(* Daemon has the interleavings of the threads and no clock; here a        *)
(* callback is one step and time passes only where the code takes time:    *)
(* while a cycle runs, at most MaxCycle in all, and while the loop sleeps. *)
(* A probe is named by its position in collection_cycle.                   *)
(***************************************************************************)
EXTENDS Integers

CONSTANTS
  NumProbes,           \* probes are 1..NumProbes, in order of collection
  Interval,            \* ProbeSchedule::interval of each probe; 0: only once
  CanFail,             \* probes whose collect() may return an error
  Forcible,            \* probes a D-Bus callback may force (update, crash)
  CollectInterval,     \* collect_interval
  TriggerMinInterval,  \* trigger_min_interval; 0 disables the rate limiter
  MinGrace,            \* the 30 s floor of mark_stale
  MaxCycle,            \* bound: the longest a collection_cycle takes
  MaxForces,           \* bound: forced runs
  MaxTime              \* bound: where the clock stops

Probes == 1..NumProbes
Never == -1            \* an instant not set: time_point::min(), no optional

ASSUME ScheduleAssumption ==
  /\ NumProbes \in Nat
  /\ Interval \in [Probes -> Nat]
  /\ CanFail \subseteq Probes
  \* UpdateProbe::collect and CrashProbe::collect never return an error
  /\ Forcible \subseteq {p \in Probes : Interval[p] > 0} \ CanFail
  /\ CollectInterval \in Nat \ {0}
  /\ TriggerMinInterval \in Nat
  /\ MinGrace \in Nat
  /\ MaxCycle \in Nat
  /\ MaxForces \in Nat
  /\ MaxTime \in Nat

VARIABLES
  clock,         \* steady_clock
  pc,            \* "cycle" (about to sample the clock), "collect", "wait"
  now, i,        \* locals of collection_cycle: sampled clock, next probe
  next_run, has_result,    \* the schedules; the probes with has_result set
  collected_at, stale,     \* freshness of last_known_good_'s sections; the
                           \* sections marked stale
  deadline,      \* when poll() times out
  wake,          \* the eventfd is readable
  pending,       \* probes with their pending flag set
  last_trigger,  \* last_trigger_time_
  ready,         \* the first cycle is over, callbacks are served
  file_at, file_stale,     \* collected_at and stale in the snapshot file
  \* --- history
  failed,        \* probes whose collect() failed in this or the last cycle
  forced_at,     \* since when a pending flag is set
  cycles, forces \* how many cycles were run, runs forced

schedule == <<next_run, has_result>>
freshness == <<collected_at, stale>>
loop == <<pc, now, i, deadline, ready>>
file == <<file_at, file_stale>>
counts == <<cycles, forces>>
requests == <<pending, forced_at, last_trigger>>
vars == <<clock, loop, schedule, freshness, wake, requests, file, failed, counts>>

Grace(p) == IF Interval[p] > MinGrace THEN Interval[p] ELSE MinGrace

Init ==
  /\ clock = 0
  /\ pc = "cycle" /\ now = 0 /\ i = 1
  /\ next_run = [p \in Probes |-> 0]
  /\ has_result = {}
  /\ collected_at = [p \in Probes |-> Never]
  /\ stale = {}
  /\ deadline = 0
  /\ wake = FALSE
  /\ pending = {}
  /\ last_trigger = Never
  /\ ready = FALSE
  /\ file_at = collected_at /\ file_stale = stale
  /\ failed = {}
  /\ forced_at = [p \in Probes |-> 0]
  /\ cycles = 0 /\ forces = 0
-----------------------------------------------------------------------------
\* Time passes inside a cycle and while poll() blocks.
Tick ==
  /\ clock < MaxTime
  /\ \/ pc = "collect" /\ clock < now + MaxCycle
     \/ pc = "wait" /\ ~wake /\ clock < deadline
  /\ clock' = clock + 1
  /\ UNCHANGED <<loop, schedule, freshness, wake, requests, file, failed, counts>>

\* collection_cycle samples the clock.
CycleBegin ==
  /\ pc = "cycle"
  /\ now' = clock
  /\ i' = 1
  /\ failed' = {}
  /\ cycles' = cycles + 1
  /\ pc' = "collect"
  /\ UNCHANGED <<clock, deadline, ready, schedule, freshness, wake, requests,
                 file, forces>>

\* next_run of the probe at hand: a forced one is moved to now.
ForcedNextRun(p) == IF p \in pending THEN now ELSE next_run[p]

\* Mutant: a probe is due only after next_run.
DueLate(p) ==
  \/ p \notin has_result
  \/ Interval[p] > 0 /\ now > ForcedNextRun(p)

\* due of maybe_collect
Due(p) ==
  \/ p \notin has_result
  \/ Interval[p] > 0 /\ now >= ForcedNextRun(p)

\* maybe_collect for a probe that is not due
SkipProbe ==
  /\ pc = "collect" /\ i \in Probes
  /\ ~Due(i)
  /\ pending' = pending \ {i}
  /\ next_run' = [next_run EXCEPT ![i] = ForcedNextRun(i)]
  /\ i' = i + 1
  /\ UNCHANGED <<clock, pc, now, deadline, ready, has_result, freshness, wake,
                 forced_at, last_trigger, file, failed, counts>>

\* Mutant: next_run advances from its old value instead of from now.
CollectProbeByStep ==
  /\ pc = "collect" /\ i \in Probes
  /\ Due(i)
  /\ pending' = pending \ {i}
  /\ next_run' = [next_run EXCEPT ![i] = @ + Interval[i]]
  /\ has_result' = has_result \cup {i}
  /\ collected_at' = [collected_at EXCEPT ![i] = clock]
  /\ stale' = stale \ {i}
  /\ i' = i + 1
  /\ UNCHANGED <<clock, pc, now, deadline, ready, wake, forced_at,
                 last_trigger, file, failed, counts>>

\* maybe_collect, collect() succeeds: freshness is stamped with the time at
\* the end of the collection, the schedule with the sampled one.
CollectProbe ==
  /\ pc = "collect" /\ i \in Probes
  /\ Due(i)
  /\ pending' = pending \ {i}
  /\ next_run' = [next_run EXCEPT ![i] = now + Interval[i]]
  /\ has_result' = has_result \cup {i}
  /\ collected_at' = [collected_at EXCEPT ![i] = clock]
  /\ stale' = stale \ {i}
  /\ i' = i + 1
  /\ UNCHANGED <<clock, pc, now, deadline, ready, wake, forced_at,
                 last_trigger, file, failed, counts>>

\* maybe_collect, collect() fails: the cached section and next_run stay.
FailProbe ==
  /\ pc = "collect" /\ i \in CanFail
  /\ Due(i)
  /\ pending' = pending \ {i}
  /\ next_run' = [next_run EXCEPT ![i] = ForcedNextRun(i)]
  /\ failed' = failed \cup {i}
  /\ i' = i + 1
  /\ UNCHANGED <<clock, pc, now, deadline, ready, has_result, freshness, wake,
                 forced_at, last_trigger, file, counts>>

\* mark_stale on every section, the snapshot is written, and the loop goes to
\* sleep for collect_interval.
CycleEnd ==
  /\ pc = "collect" /\ i = NumProbes + 1
  /\ stale' = {p \in has_result :
                  Interval[p] > 0 /\ now > next_run[p] + Grace(p)}
  /\ file_at' = collected_at /\ file_stale' = stale'
  /\ ready' = TRUE
  /\ deadline' = clock + CollectInterval
  /\ pc' = "wait"
  /\ UNCHANGED <<clock, now, i, schedule, collected_at, wake, requests, failed,
                 counts>>

\* poll() times out ...
Timeout ==
  /\ pc = "wait" /\ ~wake /\ clock >= deadline
  /\ pc' = "cycle"
  /\ UNCHANGED <<clock, now, i, deadline, ready, schedule, freshness, wake,
                 requests, file, failed, counts>>

\* ... or the eventfd becomes readable and is drained.
Wakeup ==
  /\ pc = "wait" /\ wake
  /\ wake' = FALSE
  /\ pc' = "cycle"
  /\ UNCHANGED <<clock, now, i, deadline, ready, schedule, freshness, requests,
                 file, failed, counts>>

\* Mutant: the time of an accepted trigger is not kept.
TriggerNotRecorded ==
  /\ ready
  /\ ~ /\ TriggerMinInterval > 0
       /\ last_trigger # Never
       /\ clock - last_trigger < TriggerMinInterval
  /\ wake' = TRUE
  /\ UNCHANGED <<clock, loop, schedule, freshness, requests, file, failed,
                 counts>>

\* The TriggerSnapshot callback; when it refuses, nothing changes.
TriggerSnapshot ==
  /\ ready
  /\ ~ /\ TriggerMinInterval > 0
       /\ last_trigger # Never
       /\ clock - last_trigger < TriggerMinInterval
  /\ last_trigger' = clock
  /\ wake' = TRUE
  /\ UNCHANGED <<clock, loop, schedule, freshness, pending, forced_at, file,
                 failed, counts>>

\* Mutant: the flag is set but the loop is not woken.
ForceProbeWithoutWake(p) ==
  /\ ready
  /\ forces < MaxForces
  /\ forces' = forces + 1
  /\ pending' = pending \cup {p}
  /\ forced_at' = IF p \in pending THEN forced_at
                                   ELSE [forced_at EXCEPT ![p] = clock]
  /\ UNCHANGED <<clock, loop, schedule, freshness, wake, last_trigger, file,
                 failed, cycles>>

\* The RAUC Completed and AcknowledgeCrash callbacks
ForceProbe(p) ==
  /\ ready
  /\ forces < MaxForces
  /\ forces' = forces + 1
  /\ pending' = pending \cup {p}
  /\ forced_at' = IF p \in pending THEN forced_at
                                   ELSE [forced_at EXCEPT ![p] = clock]
  /\ wake' = TRUE
  /\ UNCHANGED <<clock, loop, schedule, freshness, last_trigger, file, failed,
                 cycles>>

\* Behaviours are followed up to MaxTime.
TimeIsUp == clock = MaxTime /\ UNCHANGED vars

Next ==
  \/ Tick \/ CycleBegin \/ SkipProbe \/ CollectProbe \/ FailProbe \/ CycleEnd
  \/ Timeout \/ Wakeup \/ TriggerSnapshot
  \/ \E p \in Forcible : ForceProbe(p)
  \/ TimeIsUp

Spec == Init /\ [][Next]_vars
-----------------------------------------------------------------------------
(* Properties.                                                             *)

\* Types; a section is stale only if it has been collected, as the schema
\* says ("a never-collected section omits collected_at and is not stale").
TypeOK ==
  /\ clock \in Nat /\ now \in Nat /\ deadline \in Nat
  /\ pc \in {"cycle", "collect", "wait"}
  /\ i \in 1..(NumProbes + 1)
  /\ next_run \in [Probes -> Nat]
  /\ has_result \subseteq Probes
  /\ collected_at \in [Probes -> Nat \cup {Never}]
  /\ stale \subseteq Probes
  /\ wake \in BOOLEAN /\ ready \in BOOLEAN
  /\ pending \subseteq Forcible
  /\ last_trigger \in Nat \cup {Never}
  /\ file_at \in [Probes -> Nat \cup {Never}] /\ file_stale \subseteq Probes
  /\ failed \subseteq CanFail
  /\ forced_at \in [Probes -> Nat]
  /\ cycles \in Nat /\ forces \in Nat
  /\ \A p \in file_stale : file_at[p] # Never

\* A section is reported stale only because its probe failed in the very cycle
\* that wrote the report: late cycles, triggers and forced runs never make a
\* probe that works look stale.
StaleMeansFailing ==
  pc = "wait" => file_stale \subseteq failed

\* A reader of the snapshot file may trust a section that is not stale: at any
\* time until the next write it is no older than its interval, the grace
\* period, the sleep and two cycles.
FreshSectionIsRecent ==
  \A p \in Probes :
    Interval[p] > 0 /\ file_at[p] # Never /\ p \notin file_stale =>
      clock - file_at[p] <=
        Interval[p] + Grace(p) + CollectInterval + 2 * MaxCycle

\* A periodic probe that does not fail is never as old in the file as its
\* interval, one sleep and two cycles: an early wake-up just before next_run
\* costs one more sleep, but no sequence of triggers and forced runs adds up.
AgeBound ==
  \A p \in Probes \ CanFail :
    Interval[p] > 0 /\ file_at[p] # Never =>
      clock - file_at[p] < Interval[p] + CollectInterval + 2 * MaxCycle

\* A probe that failed is tried again in the next cycle, however early that
\* cycle comes (daemon.hpp: "next_run is not updated so the probe is retried
\* next cycle").
FailedIsRetried ==
  pc \in {"wait", "cycle"} =>
    \A p \in failed : p \notin has_result \/ (Interval[p] > 0 /\ clock >= next_run[p])

\* A forced probe runs without waiting for any interval: its pending flag is
\* consumed within two cycles, the one it may just have missed and the next.
ForcedIsPrompt ==
  \A p \in pending : clock - forced_at[p] <= 2 * MaxCycle

\* The rate limiter bounds the cycles that clients can cause ("Protects
\* against unbounded wakeup floods"): over the whole run there are no more
\* cycles than timeouts and triggers spaced by their intervals, plus the
\* forced runs, allow.
CyclesBounded ==
  TriggerMinInterval > 0 =>
    cycles <= 2 + clock \div CollectInterval + clock \div TriggerMinInterval
                + forces

\* No probe runs more often than its interval says because of triggers: a
\* collection replaces one that was sampled a whole interval before, unless
\* the probe was forced; a collect-once probe never runs again.
SpacedCollections ==
  [][\A p \in Probes :
       collected_at[p] # Never /\ collected_at'[p] # collected_at[p]
         /\ p \notin pending =>
         Interval[p] > 0 /\ next_run'[p] >= next_run[p] + Interval[p]]_vars

\* A stale mark in the file goes away only with a success: until a cycle in
\* which its probe delivers, the section stays marked, however the cycles are
\* spaced and although mark_stale computes every mark anew.
StaleUntilCollected ==
  [][\A p \in file_stale :
       p \in file_stale' \/ next_run'[p] = now + Interval[p]]_vars
=============================================================================
