------------------------------- MODULE Daemon -------------------------------
(***************************************************************************)
(* The concurrency core of edge-healthd (src/daemon.cpp): the collection   *)
(* thread that runs SnapshotDaemon::run() and collection_cycle(), the      *)
(* sdbus-c++ event-loop thread that runs the TriggerSnapshot,              *)
(* AcknowledgeCrash and RAUC Completed callbacks, and the SIGTERM/SIGINT   *)
(* handler.  They meet in the eventfd, three atomic flags, the published   *)
(* panic fingerprint and crash_state.json.                                 *)
(*                                                                         *)
(* Time is abstracted: which probes have reached next_run when a cycle     *)
(* samples the clock is a free choice (CollectionSchedule has the clock).  *)
(* The six domains other than crash are abstracted to the worst severity   *)
(* they contribute, except that the update probe records which RAUC        *)
(* installation it has looked at.                                          *)
(***************************************************************************)
EXTENDS Severity, FiniteSets

CONSTANTS
  Fingerprints,      \* fingerprints of possible sets of kernel-panic dumps
  NoFp,              \* std::nullopt
  OtherSeverities,   \* what the six other domains may roll up to
  HasEventFd,        \* eventfd() succeeded in the constructor
  HasBus,            \* initialize() got a system bus connection
  HandlerThreads,    \* threads the kernel may run the signal handler on
  WriteOutcomes,     \* what a write of the snapshot file may come to
  MaxInstalls,       \* bound: RAUC installations
  MaxPstoreChanges,  \* bound: changes of the pstore directory
  MaxKills           \* bound: abnormal deaths of the process

ASSUME ConstantsAssumption ==
  /\ NoFp \notin Fingerprints
  /\ OtherSeverities \subseteq Severities
  /\ HasEventFd \in BOOLEAN /\ HasBus \in BOOLEAN
  /\ HandlerThreads \subseteq {"collector", "other"}
  /\ WriteOutcomes \subseteq {"ok", "failed"}
  /\ MaxInstalls \in Nat /\ MaxPstoreChanges \in Nat /\ MaxKills \in Nat

VARIABLES
  \* --- collection thread
  pc,                \* where run() / collection_cycle() is
  ready,             \* READY=1 sent: the first cycle is over
  due,               \* probes (of "update", "crash") that are due
  other,             \* worst severity of the other domains in this cycle
  scan,              \* local of CrashProbe::collect: what the pstore scan saw
  crash,             \* last_known_good_.crash
  state,             \* current_state_: its crash section and its severity
  prev_sev,          \* local prev_sev of collection_cycle
  last_alarmed_crash_fp,
  \* --- shared between threads
  wakeup_fd,         \* the eventfd: "none", "empty", "readable", "closed"
  trigger_requested, rauc_update_pending, crash_ack_pending,
  current_panic_fingerprint,
  event_loop,        \* enterEventLoopAsync() done, leaveEventLoop() not
  \* --- event-loop thread
  dpc, darg,         \* where its callback is; the fingerprint being acked
  \* --- signal handler
  g_shutdown_signal, g_wakeup_fd,
  sig,               \* [pc, thread, fd]: the handler's progress
  \* --- seen by the outside: the bus, the files
  severity_str,      \* HealthManager's OverallSeverity
  alarms,            \* HealthAlarms emitted by the last push
  file,              \* the snapshot on disk
  ack_file,          \* acknowledged_fingerprint in crash_state.json
  \* --- environment
  pstore,            \* the panic dumps present and whether from this boot
  installed,         \* RAUC installations completed so far
  signals,           \* Completed signals queued on the daemon's connection
  changes, kills,    \* counters for the bounds
  \* --- history
  checked,           \* installation the last run of the update probe saw
  shown,             \* fingerprints ever published for acknowledgement
  confirmed,         \* fingerprint whose ack last got the reply true
  pushed             \* crash section of the snapshot pushed last

collected == <<due, other, scan, crash>>
published == <<state, prev_sev, last_alarmed_crash_fp>>
collector == <<pc, ready, collected, published>>
flags == <<trigger_requested, rauc_update_pending, crash_ack_pending>>
dbus == <<dpc, darg>>
handler == <<g_shutdown_signal, g_wakeup_fd, sig>>
outside == <<severity_str, alarms, file, ack_file>>
env == <<pstore, installed, signals, changes, kills>>
history == <<checked, shown, confirmed, pushed>>
elsewhere == <<current_panic_fingerprint, event_loop, dbus, handler, outside,
               env, history>>
vars == <<collector, wakeup_fd, flags, elsewhere>>

Probes == {"update", "crash"}
OptFp == Fingerprints \cup {NoFp}

\* What a pstore scan can find: the fingerprint over the panic dumps (NoFp
\* when there is none) and whether one of them is from the current boot.
NoDump == [fp |-> NoFp, fresh |-> FALSE]
PstoreContents == [fp : Fingerprints, fresh : BOOLEAN] \cup {NoDump}

\* CrashStatus, reduced to fingerprint (NoFp iff panic_count = 0),
\* panic_current_boot and acknowledged.
NoCrash == [fp |-> NoFp, fresh |-> FALSE, acked |-> FALSE]
CrashStatus == [fp : Fingerprints, fresh : BOOLEAN, acked : BOOLEAN]
                 \cup {NoCrash}

Snapshot == [crash : CrashStatus, sev : Severities]
NoSnapshot == [crash |-> NoCrash, sev |-> "unknown"]

NoAlarms == [overall |-> "none", crash |-> NoFp]
-----------------------------------------------------------------------------
\* SnapshotAggregator::evaluate_crash
evaluate_crash(c) ==
  IF c.fp = NoFp \/ c.acked THEN "ok"
  ELSE IF c.fresh THEN "crit" ELSE "warn"

\* SnapshotAggregator::aggregate: crash is the last argument of worst_of
Aggregate(o, c) == [crash |-> c, sev |-> Worse(o, evaluate_crash(c))]

\* active_panic of collection_cycle
ActivePanic(c) == c.fp # NoFp /\ ~c.acked /\ c.fresh

\* HealthManager::update_severity: the alarm it emits
OverallAlarm(prev, new) == IF is_degradation(prev, new) THEN new ELSE "none"

\* SnapshotDaemon::wake and the handler's write(2): best effort
Written(fd) == IF fd = "empty" THEN "readable" ELSE fd

\* run() is entered on a constructed and initialized daemon.
Init ==
  /\ pc = "cycle"
  /\ ready = FALSE
  /\ due = Probes
  /\ other = "unknown"
  /\ scan = NoDump
  /\ crash = NoCrash
  /\ state = NoSnapshot
  /\ prev_sev = "unknown"
  /\ last_alarmed_crash_fp = NoFp
  /\ wakeup_fd = IF HasEventFd THEN "empty" ELSE "none"
  /\ trigger_requested = FALSE
  /\ rauc_update_pending = FALSE
  /\ crash_ack_pending = FALSE
  /\ current_panic_fingerprint = NoFp
  /\ event_loop = FALSE
  /\ dpc = "idle" /\ darg = NoFp
  /\ g_shutdown_signal = FALSE
  /\ g_wakeup_fd = HasEventFd
  /\ sig = [pc |-> "idle", thread |-> "other", fd |-> FALSE]
  /\ severity_str = "unknown"
  /\ alarms = NoAlarms
  /\ pushed = NoCrash
  /\ signals = 0
  /\ file = NoSnapshot
  /\ ack_file \in OptFp
  /\ pstore \in PstoreContents
  /\ installed = 0 /\ checked = 0
  /\ changes = 0 /\ kills = 0
  /\ shown = {ack_file} \ {NoFp}
  /\ confirmed = NoFp
-----------------------------------------------------------------------------
(* The collection thread.  A local variable is reset when its scope ends,  *)
(* and the record of emitted alarms when the next snapshot is published.   *)

\* A handler that runs on the collection thread suspends it.
CollectorRuns(from) ==
  /\ pc = from
  /\ sig.thread = "collector" => sig.pc \in {"idle", "done"}

\* collection_cycle samples the clock, refreshes its sources and runs the
\* probes before update.
CycleBegin ==
  /\ CollectorRuns("cycle")
  /\ \E elapsed \in SUBSET Probes : due' = due \cup elapsed
  /\ other' \in OtherSeverities
  /\ pc' = "rauc"
  /\ UNCHANGED <<ready, scan, crash, published, wakeup_fd, flags, elsewhere>>

\* rauc_update_pending_.exchange(false)
TakeRauc ==
  /\ CollectorRuns("rauc")
  /\ due' = IF rauc_update_pending THEN due \cup {"update"} ELSE due
  /\ rauc_update_pending' = FALSE
  /\ pc' = "update"
  /\ UNCHANGED <<ready, other, scan, crash, published, wakeup_fd,
                 trigger_requested, crash_ack_pending, elsewhere>>

\* Mutant: the pending flag is cleared after the collection.
CollectUpdateThenClear ==
  /\ CollectorRuns("update")
  /\ checked' = IF "update" \in due THEN installed ELSE checked
  /\ due' = due \ {"update"}
  /\ rauc_update_pending' = FALSE
  /\ pc' = "ack"
  /\ UNCHANGED <<ready, other, scan, crash, published, wakeup_fd,
                 trigger_requested, crash_ack_pending,
                 current_panic_fingerprint, event_loop, dbus, handler,
                 outside, env, shown, confirmed, pushed>>

\* maybe_collect(update): UpdateProbe never returns an error
CollectUpdate ==
  /\ CollectorRuns("update")
  /\ checked' = IF "update" \in due THEN installed ELSE checked
  /\ due' = due \ {"update"}
  /\ pc' = "ack"
  /\ UNCHANGED <<ready, other, scan, crash, published, wakeup_fd, flags,
                 current_panic_fingerprint, event_loop, dbus, handler,
                 outside, env, shown, confirmed, pushed>>

\* Mutant: a bare wake, the crash probe is not made due.
TakeAckWithoutForcing ==
  /\ CollectorRuns("ack")
  /\ crash_ack_pending' = FALSE
  /\ pc' = "crash_scan"
  /\ UNCHANGED <<ready, collected, published, wakeup_fd, trigger_requested,
                 rauc_update_pending, elsewhere>>

\* crash_ack_pending_.exchange(false)
TakeAck ==
  /\ CollectorRuns("ack")
  /\ due' = IF crash_ack_pending THEN due \cup {"crash"} ELSE due
  /\ crash_ack_pending' = FALSE
  /\ pc' = "crash_scan"
  /\ UNCHANGED <<ready, other, scan, crash, published, wakeup_fd,
                 trigger_requested, rauc_update_pending, elsewhere>>

\* maybe_collect(crash), first half of CrashProbe::collect: list the pstore.
\* Without panic dumps it returns before it looks at crash_state.json.
CrashScan ==
  /\ CollectorRuns("crash_scan")
  /\ \/ /\ "crash" \notin due
        /\ pc' = "write"
        /\ UNCHANGED <<due, scan, crash>>
     \/ /\ "crash" \in due /\ pstore.fp = NoFp
        /\ crash' = NoCrash
        /\ due' = due \ {"crash"}
        /\ pc' = "write"
        /\ UNCHANGED scan
     \/ /\ "crash" \in due /\ pstore.fp # NoFp
        /\ scan' = pstore
        /\ pc' = "crash_ack"
        /\ UNCHANGED <<due, crash>>
  /\ UNCHANGED <<ready, other, published, wakeup_fd, flags, elsewhere>>

\* Second half of CrashProbe::collect: compare with crash_state.json.
CrashReadAck ==
  /\ CollectorRuns("crash_ack")
  /\ crash' = [fp |-> scan.fp, fresh |-> scan.fresh, acked |-> ack_file = scan.fp]
  /\ scan' = NoDump
  /\ due' = due \ {"crash"}
  /\ pc' = "write"
  /\ UNCHANGED <<ready, other, published, wakeup_fd, flags, elsewhere>>

\* Aggregate and write the snapshot file; a failed write is logged and the
\* previous snapshot stays on disk.
WriteSnapshot ==
  /\ CollectorRuns("write")
  /\ \/ "ok" \in WriteOutcomes /\ file' = Aggregate(other, crash)
     \/ "failed" \in WriteOutcomes /\ UNCHANGED file
  /\ pc' = "publish"
  /\ UNCHANGED <<ready, collected, published, wakeup_fd, flags,
                 current_panic_fingerprint, event_loop, dbus, handler,
                 severity_str, alarms, ack_file, env, history>>

\* Mutant: prev_sev is captured after last_severity_ was overwritten.
PublishThenCapture ==
  /\ CollectorRuns("publish")
  /\ state' = Aggregate(other, crash)
  /\ prev_sev' = state'.sev
  /\ current_panic_fingerprint' = crash.fp
  /\ shown' = shown \cup ({crash.fp} \ {NoFp})
  /\ other' = "unknown"
  /\ alarms' = NoAlarms
  /\ pc' = "push"
  /\ UNCHANGED <<ready, due, scan, crash, last_alarmed_crash_fp, wakeup_fd,
                 flags, event_loop, dbus, handler, severity_str, file,
                 ack_file, env, checked, confirmed, pushed>>

\* current_state_, last_severity_ and current_panic_fingerprint_ (under its
\* mutex) take over from this cycle.
Publish ==
  /\ CollectorRuns("publish")
  /\ state' = Aggregate(other, crash)
  /\ prev_sev' = state.sev
  /\ current_panic_fingerprint' = crash.fp
  /\ shown' = shown \cup ({crash.fp} \ {NoFp})
  /\ other' = "unknown"
  /\ alarms' = NoAlarms
  /\ pc' = "push"
  /\ UNCHANGED <<ready, due, scan, crash, last_alarmed_crash_fp, wakeup_fd,
                 flags, event_loop, dbus, handler, severity_str, file,
                 ack_file, env, checked, confirmed, pushed>>

\* Mutant: the latch is not cleared when the panic is no longer active.
PushWithoutRearm ==
  /\ CollectorRuns("push")
  /\ severity_str' = state.sev
  /\ alarms' = [overall |-> OverallAlarm(prev_sev, state.sev),
                crash |-> IF ActivePanic(state.crash)
                               /\ last_alarmed_crash_fp # state.crash.fp
                            THEN state.crash.fp ELSE NoFp]
  /\ last_alarmed_crash_fp' = IF ActivePanic(state.crash)
                                THEN state.crash.fp ELSE last_alarmed_crash_fp
  /\ pushed' = state.crash
  /\ prev_sev' = "unknown"
  /\ pc' = IF ready THEN "loop" ELSE "ready"
  /\ UNCHANGED <<ready, collected, state, wakeup_fd, flags,
                 current_panic_fingerprint, event_loop, dbus, handler, file,
                 ack_file, env, checked, shown, confirmed>>

\* HealthManager::update_severity, then the crash alarm and its latch; all
\* skipped without a bus connection.
Push ==
  /\ CollectorRuns("push")
  /\ \/ /\ HasBus
        /\ severity_str' = state.sev
        /\ alarms' = [overall |-> OverallAlarm(prev_sev, state.sev),
                      crash |-> IF ActivePanic(state.crash)
                                     /\ last_alarmed_crash_fp # state.crash.fp
                                  THEN state.crash.fp ELSE NoFp]
        /\ last_alarmed_crash_fp' =
             IF ActivePanic(state.crash) THEN state.crash.fp ELSE NoFp
     \/ ~HasBus /\ UNCHANGED <<severity_str, alarms, last_alarmed_crash_fp>>
  /\ pushed' = state.crash
  /\ prev_sev' = "unknown"
  /\ pc' = IF ready THEN "loop" ELSE "ready"
  /\ UNCHANGED <<ready, collected, state, wakeup_fd, flags,
                 current_panic_fingerprint, event_loop, dbus, handler, file,
                 ack_file, env, checked, shown, confirmed>>

\* run() after the first cycle: READY, then the event-loop thread starts.
Ready ==
  /\ CollectorRuns("ready")
  /\ event_loop' = HasBus
  /\ ready' = TRUE
  /\ pc' = "loop"
  /\ UNCHANGED <<collected, published, wakeup_fd, flags,
                 current_panic_fingerprint, dbus, handler, outside, env,
                 history>>

\* Mutant: run() does not leave its loop after request_shutdown.
RequestShutdownKeepsLooping ==
  /\ wakeup_fd' = Written(wakeup_fd)
  /\ pc' = "loop"

\* request_shutdown up to leaveEventLoop (shutdown_requested_ is true exactly
\* from here on: run() is its only caller and leaves the loop).
RequestShutdown ==
  /\ wakeup_fd' = Written(wakeup_fd)
  /\ pc' = "leave"

\* Top of the loop in run()
LoopCheck ==
  /\ CollectorRuns("loop")
  /\ \/ g_shutdown_signal /\ RequestShutdown
     \/ ~g_shutdown_signal /\ pc' = "wait" /\ UNCHANGED wakeup_fd
  /\ UNCHANGED <<ready, collected, published, flags, elsewhere>>

\* poll() returns POLLIN
PollReadable ==
  /\ CollectorRuns("wait")
  /\ wakeup_fd = "readable"
  /\ pc' = "drain"
  /\ UNCHANGED <<ready, collected, published, wakeup_fd, flags, elsewhere>>

\* poll() returns 0 after collect_interval, or -1 with EINTR
PollTimeout ==
  /\ CollectorRuns("wait")
  /\ pc' = "woken"
  /\ UNCHANGED <<ready, collected, published, wakeup_fd, flags, elsewhere>>

\* read() resets the eventfd counter
Drain ==
  /\ CollectorRuns("drain")
  /\ wakeup_fd' = IF wakeup_fd = "readable" THEN "empty" ELSE wakeup_fd
  /\ pc' = "woken"
  /\ UNCHANGED <<ready, collected, published, flags, elsewhere>>

\* run() after the wait: forget the trigger, then leave or collect
Woken ==
  /\ CollectorRuns("woken")
  /\ trigger_requested' = FALSE
  /\ \/ g_shutdown_signal /\ RequestShutdown
     \/ ~g_shutdown_signal /\ pc' = "cycle" /\ UNCHANGED wakeup_fd
  /\ UNCHANGED <<ready, collected, published, rauc_update_pending,
                 crash_ack_pending, elsewhere>>

\* Mutant: the event-loop thread is told to exit but not joined.
LeaveWithoutJoin ==
  /\ CollectorRuns("leave")
  /\ event_loop' = FALSE
  /\ pc' = "detach"
  /\ UNCHANGED <<ready, collected, published, wakeup_fd, flags,
                 current_panic_fingerprint, dbus, handler, outside, env,
                 history>>

\* leaveEventLoop joins the event-loop thread: a callback finishes first
LeaveEventLoop ==
  /\ CollectorRuns("leave")
  /\ dpc = "idle"
  /\ event_loop' = FALSE
  /\ pc' = "detach"
  /\ UNCHANGED <<ready, collected, published, wakeup_fd, flags,
                 current_panic_fingerprint, dbus, handler, outside, env,
                 history>>

\* The destructor detaches the handler from the eventfd ...
Detach ==
  /\ CollectorRuns("detach")
  /\ g_wakeup_fd' = FALSE
  /\ pc' = "close"
  /\ UNCHANGED <<ready, collected, published, wakeup_fd, flags,
                 current_panic_fingerprint, event_loop, dbus,
                 g_shutdown_signal, sig, outside, env, history>>

\* ... and closes it; then main() returns.
Close ==
  /\ CollectorRuns("close")
  /\ wakeup_fd' = IF HasEventFd THEN "closed" ELSE "none"
  /\ pc' = "stopped"
  /\ UNCHANGED <<ready, collected, published, flags, elsewhere>>

CollectorStep ==
  \/ CycleBegin \/ TakeRauc \/ CollectUpdate \/ TakeAck
  \/ CrashScan \/ CrashReadAck \/ WriteSnapshot \/ Publish \/ Push
  \/ Ready \/ LoopCheck \/ PollReadable \/ Drain \/ Woken
  \/ LeaveEventLoop \/ Detach \/ Close
-----------------------------------------------------------------------------
(* The event-loop thread: one callback at a time.                          *)

Dispatch == event_loop /\ dpc = "idle"

\* Mutant: the request is recorded but nobody is woken.
TriggerWithoutWake ==
  /\ Dispatch
  /\ trigger_requested' = TRUE
  /\ UNCHANGED <<collector, wakeup_fd, rauc_update_pending, crash_ack_pending,
                 current_panic_fingerprint, event_loop, dbus, handler,
                 outside, env, history>>

\* TriggerSnapshot that the rate limiter lets through (a refused one changes
\* nothing): the flag is stored under cv_mutex_, the wake follows.
TriggerSnapshot ==
  /\ Dispatch
  /\ trigger_requested' = TRUE
  /\ dpc' = "wake"
  /\ UNCHANGED <<collector, wakeup_fd, rauc_update_pending, crash_ack_pending,
                 current_panic_fingerprint, event_loop, darg, handler,
                 outside, env, history>>

\* Mutant: any fingerprint is accepted.
AcknowledgeUnchecked(fp) ==
  /\ Dispatch
  /\ dpc' = "ack_write"
  /\ darg' = fp
  /\ UNCHANGED <<collector, wakeup_fd, flags, current_panic_fingerprint,
                 event_loop, handler, outside, env, history>>

\* AcknowledgeCrash: the fingerprint is checked under crash_fp_mutex_, which
\* is released before the file is written (a mismatch only replies false).
AcknowledgeCrash(fp) ==
  /\ Dispatch
  /\ current_panic_fingerprint = fp
  /\ dpc' = "ack_write"
  /\ darg' = fp
  /\ UNCHANGED <<collector, wakeup_fd, flags, current_panic_fingerprint,
                 event_loop, handler, outside, env, history>>

\* atomic_write_file(crash_state.json): done, failed with the old content
\* still in place, or failed in the directory fsync after the rename.
AckWrite ==
  /\ dpc = "ack_write"
  /\ \/ ack_file' = darg /\ confirmed' = NoFp /\ dpc' = "ack_flag"
        /\ UNCHANGED darg
     \/ /\ \/ UNCHANGED <<ack_file, confirmed>>
           \/ ack_file' = darg /\ confirmed' = NoFp
        /\ dpc' = "idle" /\ darg' = NoFp
  /\ UNCHANGED <<collector, wakeup_fd, flags, current_panic_fingerprint,
                 event_loop, handler, severity_str, alarms, file, env,
                 checked, shown, pushed>>

AckFlag ==
  /\ dpc = "ack_flag"
  /\ crash_ack_pending' = TRUE
  /\ dpc' = "set_trigger"
  /\ UNCHANGED <<collector, wakeup_fd, trigger_requested, rauc_update_pending,
                 current_panic_fingerprint, event_loop, darg, handler,
                 outside, env, history>>

\* The RAUC Completed callback takes the oldest queued signal
RaucCompleted ==
  /\ Dispatch
  /\ signals > 0
  /\ signals' = signals - 1
  /\ rauc_update_pending' = TRUE
  /\ dpc' = "set_trigger"
  /\ UNCHANGED <<collector, wakeup_fd, trigger_requested, crash_ack_pending,
                 current_panic_fingerprint, event_loop, darg, handler,
                 outside, pstore, installed, changes, kills, history>>

\* Mutant: the callback returns without wake().
SetTriggerWithoutWake ==
  /\ dpc = "set_trigger"
  /\ trigger_requested' = TRUE
  /\ dpc' = "idle"
  /\ darg' = NoFp
  /\ UNCHANGED <<collector, wakeup_fd, rauc_update_pending, crash_ack_pending,
                 current_panic_fingerprint, event_loop, handler, outside, env,
                 history>>

SetTrigger ==
  /\ dpc = "set_trigger"
  /\ trigger_requested' = TRUE
  /\ dpc' = "wake"
  /\ UNCHANGED <<collector, wakeup_fd, rauc_update_pending, crash_ack_pending,
                 current_panic_fingerprint, event_loop, darg, handler,
                 outside, env, history>>

\* wake() and return; AcknowledgeCrash replies true
WakeAndReturn ==
  /\ dpc = "wake"
  /\ wakeup_fd' = Written(wakeup_fd)
  /\ confirmed' = IF darg # NoFp THEN darg ELSE confirmed
  /\ dpc' = "idle"
  /\ darg' = NoFp
  /\ UNCHANGED <<collector, flags, current_panic_fingerprint, event_loop,
                 handler, outside, env, checked, shown, pushed>>

CallbackStep == AckWrite \/ AckFlag \/ SetTrigger \/ WakeAndReturn
-----------------------------------------------------------------------------
(* The signal handler: set the flag, load the descriptor, write to it.     *)

Running == pc \notin {"stopped", "down"}

SignalArrives(t) ==
  /\ Running
  /\ sig.pc = "idle"
  /\ g_shutdown_signal' = TRUE
  /\ sig' = [pc |-> "load", thread |-> t, fd |-> FALSE]
  /\ UNCHANGED <<collector, wakeup_fd, flags, current_panic_fingerprint,
                 event_loop, dbus, g_wakeup_fd, outside, env, history>>

SignalLoad ==
  /\ Running
  /\ sig.pc = "load"
  /\ sig' = [sig EXCEPT !.pc = "write", !.fd = g_wakeup_fd]
  /\ UNCHANGED <<collector, wakeup_fd, flags, current_panic_fingerprint,
                 event_loop, dbus, g_shutdown_signal, g_wakeup_fd, outside,
                 env, history>>

\* Mutant: the handler only sets its flag.
SignalWithoutWrite ==
  /\ Running
  /\ sig.pc = "write"
  /\ sig' = [sig EXCEPT !.pc = "done"]
  /\ UNCHANGED <<collector, wakeup_fd, flags, current_panic_fingerprint,
                 event_loop, dbus, g_shutdown_signal, g_wakeup_fd, outside,
                 env, history>>

SignalWrite ==
  /\ Running
  /\ sig.pc = "write"
  /\ wakeup_fd' = IF sig.fd THEN Written(wakeup_fd) ELSE wakeup_fd
  /\ sig' = [sig EXCEPT !.pc = "done"]
  /\ UNCHANGED <<collector, flags, current_panic_fingerprint, event_loop,
                 dbus, g_shutdown_signal, g_wakeup_fd, outside, env, history>>
-----------------------------------------------------------------------------
(* The environment.                                                        *)

\* RAUC completes an installation; the signal is queued if the daemon has
\* subscribed, which initialize() does before the first cycle if it has a bus
\* connection.
RaucInstalls ==
  /\ installed < MaxInstalls
  /\ installed' = installed + 1
  /\ signals' = IF Running /\ HasBus THEN signals + 1 ELSE signals
  /\ UNCHANGED <<collector, wakeup_fd, flags, current_panic_fingerprint,
                 event_loop, dbus, handler, outside, pstore, changes, kills,
                 history>>

PstoreChanges ==
  /\ changes < MaxPstoreChanges
  /\ changes' = changes + 1
  /\ pstore' \in PstoreContents \ {pstore}
  /\ UNCHANGED <<collector, wakeup_fd, flags, current_panic_fingerprint,
                 event_loop, dbus, handler, outside, installed, signals,
                 kills, history>>

\* SIGKILL, a watchdog kill or an abort: everything in memory is gone.
Kill ==
  /\ Running
  /\ kills < MaxKills
  /\ kills' = kills + 1
  /\ pc' = "down"
  /\ ready' = FALSE
  /\ due' = Probes
  /\ other' = "unknown"
  /\ scan' = NoDump
  /\ crash' = NoCrash
  /\ state' = NoSnapshot
  /\ prev_sev' = "unknown"
  /\ last_alarmed_crash_fp' = NoFp
  /\ wakeup_fd' = IF HasEventFd THEN "empty" ELSE "none"
  /\ trigger_requested' = FALSE
  /\ rauc_update_pending' = FALSE
  /\ crash_ack_pending' = FALSE
  /\ current_panic_fingerprint' = NoFp
  /\ event_loop' = FALSE
  /\ dpc' = "idle" /\ darg' = NoFp
  /\ g_shutdown_signal' = FALSE
  /\ g_wakeup_fd' = HasEventFd
  /\ sig' = [pc |-> "idle", thread |-> "other", fd |-> FALSE]
  /\ severity_str' = "unknown"
  /\ alarms' = NoAlarms
  /\ pushed' = NoCrash
  /\ signals' = 0
  /\ UNCHANGED <<file, ack_file, pstore, installed, changes, checked, shown,
                 confirmed>>

\* systemd starts it again (Restart=on-failure)
Restart ==
  /\ pc = "down"
  /\ pc' = "cycle"
  /\ UNCHANGED <<ready, collected, published, wakeup_fd, flags, elsewhere>>

\* After a clean exit systemd leaves the unit stopped.
Stopped == pc = "stopped" /\ UNCHANGED vars

Next ==
  \/ CollectorStep \/ PollTimeout
  \/ TriggerSnapshot \/ RaucCompleted \/ CallbackStep
  \/ \E fp \in Fingerprints : AcknowledgeCrash(fp)
  \/ \E t \in HandlerThreads : SignalArrives(t)
  \/ SignalLoad \/ SignalWrite
  \/ RaucInstalls \/ PstoreChanges \/ Kill \/ Restart
  \/ Stopped

Spec == Init /\ [][Next]_vars

\* The kernel schedules both threads and runs a delivered handler to its end;
\* sd-bus hands out queued messages in order, so a queued Completed signal is
\* not passed over for ever, and its loop looks for the exit notification of
\* leaveEventLoop between any two of them; systemd restarts a killed daemon.
\* poll() is not assumed to time out: nothing below may depend on
\* collect_interval.
Fairness ==
  /\ WF_vars(CollectorStep)
  /\ SF_vars(LeaveEventLoop)
  /\ WF_vars(CallbackStep)
  /\ SF_vars(RaucCompleted)
  /\ WF_vars(SignalLoad \/ SignalWrite)
  /\ WF_vars(Restart)

LiveSpec == Spec /\ Fairness

\* Without an eventfd only the timeout of poll() ends a wait.
TimeoutLiveSpec == LiveSpec /\ WF_vars(PollTimeout)
-----------------------------------------------------------------------------
(* Properties.                                                             *)

CyclePcs == {"cycle", "rauc", "update", "ack", "crash_scan", "crash_ack",
             "write", "publish", "push"}
LoopPcs == {"loop", "wait", "drain", "woken"}
ExitPcs == {"leave", "detach", "close", "stopped"}

\* Types of the daemon's state; in particular a crash section without panic
\* dumps is never marked fresh or acknowledged (CrashProbe's early return).
TypeOK ==
  /\ pc \in CyclePcs \cup LoopPcs \cup ExitPcs \cup {"ready", "down"}
  /\ ready \in BOOLEAN
  /\ due \subseteq Probes
  /\ other \in Severities
  /\ scan \in PstoreContents
  /\ pc = "crash_ack" => scan.fp # NoFp
  /\ crash \in CrashStatus
  /\ state \in Snapshot /\ file \in Snapshot
  /\ prev_sev \in Severities /\ severity_str \in Severities
  /\ last_alarmed_crash_fp \in OptFp
  /\ wakeup_fd \in IF HasEventFd THEN {"empty", "readable", "closed"}
                                 ELSE {"none"}
  /\ trigger_requested \in BOOLEAN
  /\ rauc_update_pending \in BOOLEAN
  /\ crash_ack_pending \in BOOLEAN
  /\ current_panic_fingerprint \in OptFp
  /\ event_loop \in BOOLEAN
  /\ dpc \in {"idle", "ack_write", "ack_flag", "set_trigger", "wake"}
  /\ darg \in OptFp
  /\ g_shutdown_signal \in BOOLEAN
  /\ g_wakeup_fd \in BOOLEAN
  /\ sig \in [pc : {"idle", "load", "write", "done"},
              thread : {"collector", "other"}, fd : BOOLEAN]
  /\ alarms \in [overall : Severities \cup {"none"}, crash : OptFp]
  /\ ack_file \in OptFp
  /\ pstore \in PstoreContents
  /\ installed \in Nat /\ signals \in Nat /\ changes \in Nat /\ kills \in Nat
  /\ checked \in Nat
  /\ shown \subseteq Fingerprints
  /\ confirmed \in OptFp
  /\ pushed \in CrashStatus

\* No lost wake-up: while run() sleeps in poll(), a trigger, a RAUC signal, a
\* crash acknowledgement or a shutdown signal whose callback or handler has
\* returned has left the eventfd readable, in every interleaving of the
\* callbacks' stores with wait_wakeup_fd's drain and the loop's checks.
NoLostWakeup ==
  HasEventFd /\ pc = "wait" =>
    /\ (trigger_requested \/ rauc_update_pending \/ crash_ack_pending)
         => wakeup_fd = "readable" \/ dpc \in {"set_trigger", "wake"}
    /\ g_shutdown_signal => wakeup_fd = "readable" \/ sig.pc \in {"load", "write"}

\* No installation is forgotten (daemon.cpp: "Clear the flag before collect so
\* a second signal that arrives during collect is not lost"): if RAUC has
\* completed an installation the update probe has not looked at, then its
\* signal is queued, or the pending flag is set, or the probe is due; also
\* across a kill and restart.
NoLostUpdate ==
  HasBus /\ Running /\ installed > checked =>
    signals > 0 \/ rauc_update_pending \/ "update" \in due

\* An acknowledgement that was answered true cannot be missed: as long as the
\* cached crash section still shows that panic as unacknowledged, the crash
\* probe is going to run again in a cycle to come.
NoLostAck ==
  Running /\ confirmed # NoFp /\ crash.fp = confirmed /\ ~crash.acked =>
    crash_ack_pending \/ "crash" \in due

\* Nobody can acknowledge a panic before it was shown: a crash section is
\* acknowledged only if its fingerprint has been published at some time
\* (the check of AcknowledgeCrash, with the file written after the mutex is
\* released and kept across restarts).
AckedOnlyIfShown ==
  \A c \in {crash, state.crash, file.crash} : c.acked => c.fp \in shown

\* Between cycles the bus, the fingerprint that can be acknowledged and the
\* alarm latch all speak of the same snapshot, the current one.
PublishedTogether ==
  ready /\ pc \in LoopPcs =>
    /\ state.crash = pushed
    /\ current_panic_fingerprint = state.crash.fp
    /\ HasBus => /\ severity_str = state.sev
                 /\ last_alarmed_crash_fp =
                      IF ActivePanic(state.crash) THEN state.crash.fp ELSE NoFp

\* HealthAlarm("crash") is emitted exactly when the pushed snapshot shows an
\* active panic that the snapshot pushed before did not: once per panic, again
\* after it was acknowledged, aged out or cleared in between.
CrashAlarmOnNewPanic ==
  [][HasBus /\ pc = "push" /\ pc' # "down" /\ pc' # "push" =>
       alarms'.crash = IF ActivePanic(state.crash)
                            /\ ~(ActivePanic(pushed) /\ pushed.fp = state.crash.fp)
                         THEN state.crash.fp ELSE NoFp]_vars

\* HealthAlarm("overall") is emitted exactly when the OverallSeverity that
\* clients read gets worse: the two copies of the previous severity (the
\* daemon's and the manager's) never drift apart.
OverallAlarmOnDegradation ==
  [][HasBus /\ pc = "push" /\ pc' # "down" /\ pc' # "push" =>
       alarms'.overall = IF Rank[severity_str'] > Rank[severity_str]
                           THEN severity_str' ELSE "none"]_vars

\* No thread is about to write to the eventfd once it is closed: the callbacks
\* because leaveEventLoop joins their thread before the destructor runs, a
\* handler on the collection thread because it finishes before the destructor
\* goes on.
NoWriteAfterClose ==
  wakeup_fd = "closed" =>
    /\ dpc # "wake"
    /\ sig.thread = "collector" => sig.pc # "write"

\* The comment in ~SnapshotDaemon: "Detach the handler from the fd before
\* closing so a late signal can't write into a closed (or recycled)
\* descriptor."
LateSignalMissesClosedFd ==
  ~(sig.pc = "write" /\ sig.fd /\ wakeup_fd = "closed")

\* types.hpp: unknown "must stay below ok so a fresh boot doesn't alarm".
HealthyBootDoesNotAlarm == alarms.overall # "ok"

\* How far the collection thread is from its end once it has to stop
StepsLeft ==
  [cycle |-> 17, rauc |-> 16, update |-> 15, ack |-> 14, crash_scan |-> 13,
   crash_ack |-> 12, write |-> 11, publish |-> 10, push |-> 9, ready |-> 8,
   loop |-> 7, wait |-> 6, drain |-> 5, woken |-> 4, leave |-> 3, detach |-> 2,
   close |-> 1, stopped |-> 0, down |-> 0]

\* After SIGTERM the collection thread only moves towards its end: it finishes
\* the cycle at hand, or the one it has just decided on, and begins no other.
\* The handler may run between any two steps of run(), which looks at its flag
\* in two places only.
ShutdownAdvances ==
  [][g_shutdown_signal => \/ UNCHANGED pc
                          \/ StepsLeft[pc'] < StepsLeft[pc]]_vars

\* SIGTERM ends run() without waiting for a poll timeout, whatever the
\* event-loop thread is doing and wherever the cycle is.
ShutdownCompletes == g_shutdown_signal ~> pc \in {"stopped", "down"}

\* Every completed RAUC installation is looked at by the update probe (or the
\* daemon is stopped), even if the daemon is killed on the way.
UpdateReflected ==
  \A n \in 1..MaxInstalls :
    installed >= n ~> checked >= n \/ pc = "stopped"

\* An acknowledgement answered true shows in the current snapshot (or that
\* panic is gone, or another one was acknowledged over it) without waiting
\* for the crash probe's interval.
AckReflected ==
  \A fp \in Fingerprints :
    confirmed = fp ~> \/ confirmed # fp
                      \/ state.crash.fp # fp
                      \/ state.crash.acked
                      \/ ~Running

\* An accepted TriggerSnapshot is followed by a new cycle (or the end of the
\* process) without a poll timeout.
TriggerServed == trigger_requested ~> pc \in {"cycle", "stopped", "down"}
=============================================================================
