------------------------------ MODULE Watchdog ------------------------------
(***************************************************************************)
(* The systemd watchdog (src/daemon.cpp): the collection thread stores a   *)
(* heartbeat at the beginning and the end of every collection cycle, the   *)
(* watchdog thread looks at its age every WatchdogSec/2 and pings systemd  *)
(* only while it is fresh, and systemd kills the service when no ping has  *)
(* come for WatchdogSec.  A cycle can take any time, also forever.         *)
(*                                                                         *)
(* systemd's timer runs from READY=1 but the watchdog thread does not: in  *)
(* between run() saves the successful boot, with an fsync of the file and  *)
(* of its directory, and nobody pings meanwhile.                           *)
(*                                                                         *)
(* Time is discrete.  The watchdog thread is late by at most Jitter; it    *)
(* loads the heartbeat and reads the clock in two steps.                   *)
(***************************************************************************)
EXTENDS Integers

CONSTANTS
  WatchdogSec,      \* WatchdogSec of the unit, timeout in the code
  WaitInterval,     \* collect_interval
  Jitter,           \* how late the watchdog thread may run
  MaxWatch          \* bound on the clock (for TLC)

\* interval = timeout / 2, at least 1
PingInterval == IF WatchdogSec \div 2 > 0 THEN WatchdogSec \div 2 ELSE 1

ASSUME WatchdogAssumption ==
  /\ WatchdogSec \in Nat \ {0} /\ WaitInterval \in Nat /\ Jitter \in Nat
  /\ MaxWatch \in Nat
  /\ PingInterval + Jitter < WatchdogSec

VARIABLES
  time,        \* the steady clock
  thread,      \* main thread: "mark" (saving the successful boot), "cycle",
               \* "wait", "leaving" or "killed"
  poll_end,    \* poll() in the wait returns no later than that
  heartbeat,   \* watchdog_heartbeat_us_
  wpc,         \* watchdog thread: "off", "sleep", "age" or "stopped"
  due,         \* when its sleep ends
  last_us,     \* the heartbeat it has loaded
  ping,        \* systemd: when the last WATCHDOG=1 (or READY=1) came
  since,       \* history: when the current cycle or wait (or the save) began
  longest,     \* history: the longest time a cycle or a wait has taken
  marking      \* history: the time that saving the successful boot has taken

history == <<since, longest, marking>>
watchdogVars ==
  <<time, thread, poll_end, heartbeat, wpc, due, last_us, ping, history>>

Alive == thread # "killed"

\* run() sends READY=1 and enters mark_boot_success.
WatchdogInit ==
  /\ time = 0
  /\ thread = "mark" /\ poll_end = 0
  /\ heartbeat = 0
  /\ wpc = "off" /\ due = 0
  /\ last_us = 0
  /\ ping = 0
  /\ since = 0 /\ longest = 0 /\ marking = 0

\* update_watchdog_heartbeat
Heartbeat == heartbeat' = time

\* mark_boot_success has returned: start_watchdog_thread, and the first wait.
StartWatchdogThread ==
  /\ thread = "mark"
  /\ thread' = "wait" /\ poll_end' = time + WaitInterval /\ since' = time
  /\ Heartbeat
  /\ wpc' = "sleep" /\ due' = time + PingInterval
  /\ UNCHANGED <<time, last_us, ping, longest, marking>>

\* poll() returns: a timeout, or earlier for a trigger; a cycle begins.
BeginCycle ==
  /\ thread = "wait"
  /\ thread' = "cycle" /\ since' = time
  /\ Heartbeat
  /\ UNCHANGED <<time, poll_end, wpc, due, last_us, ping, longest, marking>>

\* Mutant: the heartbeat is stored at the beginning of a cycle only.
EndCycleWithoutHeartbeat ==
  /\ thread = "cycle"
  /\ thread' = "wait" /\ poll_end' = time + WaitInterval /\ since' = time
  /\ UNCHANGED <<time, heartbeat, wpc, due, last_us, ping, longest, marking>>

EndCycle ==
  /\ thread = "cycle"
  /\ thread' = "wait" /\ poll_end' = time + WaitInterval /\ since' = time
  /\ Heartbeat
  /\ UNCHANGED <<time, wpc, due, last_us, ping, longest, marking>>

\* run() leaves the loop: stop_watchdog_thread, STOPPING=1 (systemd then waits
\* for TimeoutStopSec instead).
Stop ==
  /\ thread = "wait"
  /\ thread' = "leaving" /\ wpc' = "stopped"
  /\ UNCHANGED <<time, poll_end, heartbeat, due, last_us, ping, history>>

\* watchdog_sleep has timed out; the heartbeat is loaded,
WatchdogWakes ==
  /\ Alive /\ wpc = "sleep" /\ time >= due
  /\ last_us' = heartbeat
  /\ wpc' = "age"
  /\ UNCHANGED <<time, thread, poll_end, heartbeat, due, ping, history>>

\* Mutant: a ping in any case
PingAlways ==
  /\ Alive /\ wpc = "age"
  /\ ping' = time
  /\ wpc' = "sleep" /\ due' = time + PingInterval
  /\ UNCHANGED <<time, thread, poll_end, heartbeat, last_us, history>>

\* then its age is computed and decides about the ping.
PingIfFresh ==
  /\ Alive /\ wpc = "age"
  /\ ping' = IF time - last_us <= WatchdogSec THEN time ELSE ping
  /\ wpc' = "sleep" /\ due' = time + PingInterval
  /\ UNCHANGED <<time, thread, poll_end, heartbeat, last_us, history>>
-----------------------------------------------------------------------------
(* systemd and time (external).                                            *)

\* systemd kills the service when a whole WatchdogSec has passed without a ping.
SystemdKills ==
  /\ thread \in {"mark", "wait", "cycle"} /\ time >= ping + WatchdogSec
  /\ thread' = "killed"
  /\ UNCHANGED <<time, poll_end, heartbeat, wpc, due, last_us, ping, history>>

\* Time passes, not beyond what is due: poll's timeout, the watchdog thread
\* (to within its jitter), systemd's timer.
TimePasses ==
  /\ time < MaxWatch
  /\ thread \in {"mark", "wait", "cycle"}
  /\ thread = "wait" => time < poll_end
  /\ wpc # "off" => time < due + Jitter
  /\ time < ping + WatchdogSec
  /\ time' = time + 1
  /\ IF thread = "mark"
       THEN marking' = time' - since /\ UNCHANGED longest
       ELSE /\ longest' = IF time' - since > longest THEN time' - since ELSE longest
            /\ UNCHANGED marking
  /\ UNCHANGED <<thread, poll_end, heartbeat, wpc, due, last_us, ping, since>>

\* Nothing happens after the kill or the stop, or beyond the bound.
Done ==
  /\ thread \in {"leaving", "killed"} \/ time = MaxWatch
  /\ UNCHANGED watchdogVars

WatchdogNext ==
  \/ StartWatchdogThread \/ BeginCycle \/ EndCycle \/ Stop
  \/ WatchdogWakes \/ PingIfFresh
  \/ SystemdKills \/ TimePasses \/ Done

WatchdogSpec == WatchdogInit /\ [][WatchdogNext]_watchdogVars
-----------------------------------------------------------------------------
(* Properties.                                                             *)

\* Types; the clock is ahead of everything that has happened.
WatchdogTypeOK ==
  /\ time \in Nat
  /\ thread \in {"mark", "wait", "cycle", "leaving", "killed"}
  /\ wpc \in {"off", "sleep", "age", "stopped"}
  /\ poll_end \in Nat /\ due \in Nat /\ longest \in Nat /\ marking \in Nat
  /\ heartbeat \in 0..time /\ last_us \in 0..time /\ ping \in 0..time
  /\ since \in 0..time

\* The service is killed only if a cycle, or a wait, took longer than
\* WatchdogSec, less the time that the watchdog thread may lose between loading
\* the heartbeat and reading the clock, or if saving the successful boot left
\* too little of systemd's first WatchdogSec for the first ping.  Slow cycles
\* up to that are no reason, whatever the phase of the two threads, nor is a
\* collect_interval up to that: start_watchdog_thread warns from WatchdogSec / 2
\* on that systemd may restart the service, which is conservative.
KilledOnlyIfHung ==
  thread = "killed" => \/ longest > WatchdogSec - Jitter
                       \/ marking >= WatchdogSec - PingInterval - Jitter

\* A collection thread that hangs is found out and the service is killed
\* within twice WatchdogSec of its last sign of life.
HungIsKilled == Alive /\ thread # "leaving" => time - since <= 2 * WatchdogSec
=============================================================================
