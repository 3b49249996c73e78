---------------------------- MODULE TimingProofs ----------------------------
(***************************************************************************)
(* The theorems about time.  The watchdog kills a hung daemon and no       *)
(* other, for every WatchdogSec, collect_interval and jitter with          *)
(* PingInterval + Jitter < WatchdogSec.  Collections are fresh, spaced and *)
(* prompt, for any number of probes and any intervals.                     *)
(***************************************************************************)
EXTENDS CollectionSchedule, Watchdog, TLAPS
-----------------------------------------------------------------------------
(* The watchdog.                                                           *)

Running == thread \in {"wait", "cycle"}

\* Time does not pass what is due.
DueInv ==
  /\ thread = "mark" => wpc = "off" /\ time = since + marking /\ time <= ping + WatchdogSec
  /\ Running => /\ wpc \notin {"off", "stopped"}
                /\ time <= due + Jitter /\ time <= ping + WatchdogSec

\* The heartbeat is the last sign of life; a ping is not much younger.
HeartbeatInv ==
  /\ heartbeat = since /\ last_us <= since
  /\ ping <= since + WatchdogSec
  /\ Running => time - since <= longest

\* As long as nothing took too long, every look at the heartbeat was a ping, and
\* the next one comes in time.
PingInv ==
  /\ thread = "mark" => ping = since
  /\ Running => /\ wpc = "age" => due - last_us <= longest
                /\ \/ longest > WatchdogSec - Jitter
                   \/ marking >= WatchdogSec - PingInterval - Jitter
                   \/ due + Jitter < ping + WatchdogSec

WatchdogInv == WatchdogTypeOK /\ DueInv /\ HeartbeatInv /\ PingInv /\ KilledOnlyIfHung

USE WatchdogAssumption

\* The sleep of the watchdog thread is not zero.
LEMMA IntervalType == PingInterval \in Nat \ {0}
BY DEF PingInterval

\* Every step keeps the invariant.
LEMMA WatchdogStep == WatchdogInv /\ [WatchdogNext]_watchdogVars => WatchdogInv'
<1> SUFFICES ASSUME WatchdogInv, [WatchdogNext]_watchdogVars PROVE WatchdogInv'
  OBVIOUS
<1> USE IntervalType DEF WatchdogInv, WatchdogTypeOK, DueInv, HeartbeatInv, PingInv,
                         KilledOnlyIfHung, Running, Alive, history
<1>1. CASE BeginCycle
  BY <1>1 DEF BeginCycle, Heartbeat
<1>2. CASE EndCycle
  BY <1>2 DEF EndCycle, Heartbeat
<1>3. CASE Stop
  BY <1>3 DEF Stop
<1>4. CASE WatchdogWakes
  BY <1>4 DEF WatchdogWakes
<1>5. CASE PingIfFresh
  BY <1>5 DEF PingIfFresh
<1>6. CASE SystemdKills
  BY <1>6 DEF SystemdKills
<1>7. CASE TimePasses
  BY <1>7 DEF TimePasses
<1>8. CASE StartWatchdogThread
  BY <1>8 DEF StartWatchdogThread, Heartbeat
<1>9. CASE UNCHANGED watchdogVars
  BY <1>9 DEF watchdogVars
<1> QED
  BY <1>1, <1>2, <1>3, <1>4, <1>5, <1>6, <1>7, <1>8, <1>9 DEF WatchdogNext, Done

\* The invariant holds in every reachable state.
LEMMA WatchdogAlways == WatchdogSpec => []WatchdogInv
<1>1. WatchdogInit => WatchdogInv
  BY IntervalType DEF WatchdogInit, WatchdogInv, WatchdogTypeOK, DueInv, HeartbeatInv, PingInv,
                      KilledOnlyIfHung, Running
<1> QED
  BY <1>1, WatchdogStep, PTL DEF WatchdogSpec

\* The types hold, and nothing has happened after the present.
THEOREM WatchdogTypeCorrect == WatchdogSpec => []WatchdogTypeOK
BY WatchdogAlways, PTL DEF WatchdogInv

\* systemd kills the service only if a cycle or a wait took longer than
\* WatchdogSec, less the jitter, or if saving the successful boot between READY=1
\* and start_watchdog_thread left no time for the first ping.
THEOREM OnlyHungIsKilled == WatchdogSpec => []KilledOnlyIfHung
BY WatchdogAlways, PTL DEF WatchdogInv

\* A collection thread that hangs is killed within twice WatchdogSec.
THEOREM EveryHangIsFound == WatchdogSpec => []HungIsKilled
<1>1. WatchdogInv => HungIsKilled
  BY DEF WatchdogInv, WatchdogTypeOK, DueInv, HeartbeatInv, HungIsKilled, Alive, Running
<1> QED
  BY <1>1, WatchdogAlways, PTL
-----------------------------------------------------------------------------
(* The collection schedule.                                                *)

USE DEF schedule, freshness, loop, requests, file, counts, Never

\* How far the clock can be from the sample the last cycle took.
ClockInv ==
  /\ now <= clock
  /\ pc = "collect" => clock <= now + MaxCycle
  /\ pc = "wait" => /\ clock <= deadline
                    /\ deadline <= now + MaxCycle + CollectInterval
                    /\ i = NumProbes + 1
  /\ pc = "cycle" => clock <= now + MaxCycle + CollectInterval

\* The current cycle, or the last one if none is running, is through with p.
Through(p) == p < i /\ pc # "cycle"

\* What the schedule of a probe says about its section, and what a failure or
\* a success in the current cycle says about its schedule.
ProbeOK(p) ==
  /\ p \in has_result <=> collected_at[p] # Never
  /\ collected_at[p] <= clock
  /\ p \in stale => p \in has_result /\ Interval[p] > 0
  /\ p \in has_result => next_run[p] <= collected_at[p] + Interval[p]
  /\ p \in failed => /\ p < i
                     /\ p \notin has_result \/ (Interval[p] > 0 /\ now >= next_run[p])
  /\ Through(p) /\ p \notin failed =>
       p \in has_result /\ (Interval[p] > 0 => now < next_run[p])

ProbeInv == \A p \in Probes : ProbeOK(p)

\* What was true of the file's sections when they were written, relative to
\* the sample of that cycle or of the one running since.
Slack == IF pc = "collect" THEN MaxCycle + CollectInterval ELSE 0

FileOK(p) ==
  Interval[p] > 0 /\ file_at[p] # Never =>
    /\ p \notin file_stale => now <= file_at[p] + Interval[p] + Grace(p) + Slack
    /\ p \notin CanFail => now < file_at[p] + Interval[p] + Slack

FileInv == \A p \in Probes : FileOK(p)

\* How long ago a flag that is still pending can have been set.
ForceOK(p) ==
  /\ forced_at[p] <= clock
  /\ pc = "collect" /\ p < i => forced_at[p] >= now /\ wake
  /\ pc = "collect" /\ p >= i => forced_at[p] + MaxCycle >= now
  /\ pc # "collect" => forced_at[p] + MaxCycle >= clock
  /\ pc = "wait" => wake

ForceInv == \A p \in pending : ForceOK(p)

-----------------------------------------------------------------------------
(* The inductive invariant, one lemma per conjunct.                         *)

IInv == TypeOK /\ ClockInv /\ ProbeInv /\ FileInv /\ ForceInv /\ StaleMeansFailing

\* Initially all of it holds.
LEMMA IInvInit == Init => IInv
<1> SUFFICES ASSUME Init PROVE IInv
  OBVIOUS
<1> USE ScheduleAssumption DEF Init
<1>1. TypeOK
  <2>1. /\ collected_at \in [Probes -> Nat \cup {Never}]
        /\ next_run \in [Probes -> Nat] /\ forced_at \in [Probes -> Nat]
    OBVIOUS
  <2>2. /\ file_at = collected_at /\ stale = {} /\ file_stale = {}
        /\ i \in 1..(NumProbes + 1)
    OBVIOUS
  <2>3. /\ clock = 0 /\ now = 0 /\ deadline = 0 /\ pc = "cycle"
        /\ has_result = {} /\ failed = {} /\ pending = {}
        /\ wake = FALSE /\ ready = FALSE
        /\ last_trigger = Never /\ cycles = 0 /\ forces = 0
    OBVIOUS
  <2> HIDE DEF Init
  <2> QED
    BY Zenon, <2>1, <2>2, <2>3 DEF TypeOK
<1>2. ClockInv /\ FileInv /\ ForceInv /\ StaleMeansFailing
  BY DEF ClockInv, FileInv, FileOK, ForceInv, ForceOK, StaleMeansFailing, Probes
<1>3. ProbeInv
  BY DEF ProbeInv, ProbeOK, Through, Probes
<1> QED
  BY <1>1, <1>2, <1>3 DEF IInv

\* Every step keeps the types; a stale section has been collected.
LEMMA TypeStep ==
  TypeOK /\ ProbeInv /\ [Next]_vars
    => TypeOK'
<1> SUFFICES ASSUME TypeOK, ProbeInv, [Next]_vars
             PROVE  TypeOK'
  OBVIOUS
<1> USE ScheduleAssumption DEF TypeOK
<1>1. CASE Tick
  BY <1>1 DEF Tick
<1>2. CASE CycleBegin
  BY <1>2 DEF CycleBegin
<1>3. CASE SkipProbe
  <2>1. i \in Probes /\ ForcedNextRun(i) \in Nat
    BY <1>3 DEF SkipProbe, ForcedNextRun
  <2>2. i' \in 1..(NumProbes + 1)
    BY <1>3, <2>1 DEF SkipProbe, Probes
  <2> QED
    BY <1>3, <2>1, <2>2 DEF SkipProbe
<1>4. CASE CollectProbe
  <2>1. i \in Probes /\ now + Interval[i] \in Nat
    BY <1>4 DEF CollectProbe
  <2>2. i' \in 1..(NumProbes + 1)
    BY <1>4, <2>1 DEF CollectProbe, Probes
  <2> QED
    BY <1>4, <2>1, <2>2 DEF CollectProbe
<1>5. CASE FailProbe
  <2>1. i \in Probes /\ ForcedNextRun(i) \in Nat
    BY <1>5 DEF FailProbe, ForcedNextRun
  <2>2. i' \in 1..(NumProbes + 1)
    BY <1>5, <2>1 DEF FailProbe, Probes
  <2> QED
    BY <1>5, <2>1, <2>2 DEF FailProbe
<1>6. CASE CycleEnd
  <2>1. stale' \subseteq Probes /\ file_at' = collected_at /\ file_stale' = stale'
    BY <1>6 DEF CycleEnd
  <2>2. \A p \in stale' : collected_at[p] # Never
    BY <1>6 DEF CycleEnd, ProbeInv, ProbeOK
  <2> QED
    BY <1>6, <2>1, <2>2 DEF CycleEnd
<1>7. CASE Timeout \/ Wakeup \/ TriggerSnapshot
  BY Zenon, <1>7 DEF Timeout, Wakeup, TriggerSnapshot
<1>8. ASSUME NEW q \in Forcible, ForceProbe(q) PROVE TypeOK'
  BY <1>8 DEF ForceProbe
<1>9. CASE TimeIsUp \/ UNCHANGED vars
  BY <1>9 DEF TimeIsUp, vars
<1> QED
  BY <1>1, <1>2, <1>3, <1>4, <1>5, <1>6, <1>7, <1>8, <1>9
     DEF Next

\* The clock stays within a cycle and a sleep of the sample.
LEMMA ClockStep ==
  TypeOK /\ ClockInv /\ [Next]_vars
    => ClockInv'
<1> SUFFICES ASSUME TypeOK, ClockInv, [Next]_vars
             PROVE  ClockInv'
  OBVIOUS
<1> USE ScheduleAssumption DEF TypeOK, ClockInv
<1>1. CASE Tick
  BY <1>1 DEF Tick
<1>2. CASE CycleBegin
  BY <1>2 DEF CycleBegin
<1>3. CASE SkipProbe
  BY <1>3 DEF SkipProbe, ForcedNextRun, Due
<1>4. CASE CollectProbe
  BY <1>4 DEF CollectProbe, ForcedNextRun, Due
<1>5. CASE FailProbe
  BY <1>5 DEF FailProbe, ForcedNextRun, Due
<1>6. CASE CycleEnd
  BY <1>6 DEF CycleEnd
<1>7. CASE Timeout
  BY <1>7 DEF Timeout
<1>8. CASE Wakeup
  BY <1>8 DEF Wakeup
<1>9. CASE TriggerSnapshot
  BY <1>9 DEF TriggerSnapshot
<1>10. ASSUME NEW q \in Forcible, ForceProbe(q) PROVE ClockInv'
  BY <1>10 DEF ForceProbe
<1>11. CASE TimeIsUp \/ UNCHANGED vars
  BY <1>11 DEF TimeIsUp, vars
<1> QED
  BY <1>1, <1>2, <1>3, <1>4, <1>5, <1>6, <1>7, <1>8, <1>9, <1>10, <1>11
     DEF Next

\* The schedules stay true to the sections.
LEMMA ProbeStep ==
  TypeOK /\ ClockInv /\ ProbeInv /\ [Next]_vars
    => ProbeInv'
<1> SUFFICES ASSUME TypeOK, ClockInv, ProbeInv, [Next]_vars
             PROVE  ProbeInv'
  OBVIOUS
<1> USE ScheduleAssumption DEF TypeOK, ClockInv
<1> SUFFICES ASSUME NEW p \in Probes PROVE ProbeOK(p)'
  BY DEF ProbeInv
<1>0. ProbeOK(p) /\ p \in Nat \ {0} /\ i \in Nat /\ Interval[p] \in Nat
  BY DEF ProbeInv, Probes
<1> USE <1>0 DEF ProbeOK, Through
<1>1. CASE Tick
  BY <1>1 DEF Tick
<1>2. CASE CycleBegin
  BY <1>2 DEF CycleBegin
<1>3. CASE SkipProbe
  <2>0. i \in Probes /\ next_run[i] \in Nat
    BY <1>3 DEF SkipProbe
  <2>1. i \notin pending /\ i \in has_result /\ (Interval[i] > 0 => now < next_run[i])
    BY <1>3, <2>0 DEF SkipProbe, Due, ForcedNextRun
  <2>2. next_run' = next_run
    BY <1>3, <2>1 DEF SkipProbe, ForcedNextRun
  <2> QED
    BY <1>3, <2>1, <2>2 DEF SkipProbe
<1>4. CASE CollectProbe
  <2>1. CASE p = i
    BY <1>4, <2>1 DEF CollectProbe
  <2>2. CASE p # i
    <3>1. UNCHANGED <<next_run[p], collected_at[p], now, clock, failed, pc>>
      BY <1>4, <2>2 DEF CollectProbe
    <3>2. /\ p \in has_result' <=> p \in has_result
          /\ p \in stale' => p \in stale
          /\ p < i' <=> p < i
      BY <1>4, <2>2 DEF CollectProbe
    <3> QED
      BY <3>1, <3>2
  <2> QED
    BY <2>1, <2>2
<1>5. CASE FailProbe
  <2>1. i \notin pending /\ i \in Probes
    BY <1>5 DEF FailProbe
  <2>2. next_run' = next_run
    BY <1>5, <2>1 DEF FailProbe, ForcedNextRun
  <2>3. i \notin has_result \/ (Interval[i] > 0 /\ now >= next_run[i])
    BY <1>5, <2>1 DEF FailProbe, Due, ForcedNextRun
  <2> QED
    BY <1>5, <2>1, <2>2, <2>3 DEF FailProbe
<1>6. CASE CycleEnd
  BY <1>6 DEF CycleEnd
<1>7. CASE Timeout \/ Wakeup \/ TriggerSnapshot
  BY <1>7 DEF Timeout, Wakeup, TriggerSnapshot
<1>8. ASSUME NEW q \in Forcible, ForceProbe(q) PROVE ProbeOK(p)'
  BY <1>8 DEF ForceProbe
<1>9. CASE TimeIsUp \/ UNCHANGED vars
  BY <1>9 DEF TimeIsUp, vars
<1> QED
  BY Zenon, <1>1, <1>2, <1>3, <1>4, <1>5, <1>6, <1>7, <1>8, <1>9
     DEF Next

\* The file's sections keep their age bounds.
LEMMA FileStep ==
  TypeOK /\ ClockInv /\ ProbeInv /\ FileInv /\ [Next]_vars
    => FileInv'
<1> SUFFICES ASSUME TypeOK, ClockInv, ProbeInv, FileInv, [Next]_vars
             PROVE  FileInv'
  OBVIOUS
<1> USE ScheduleAssumption DEF TypeOK, ClockInv
<1> SUFFICES ASSUME NEW p \in Probes PROVE FileOK(p)'
  BY DEF FileInv
<1>0. FileOK(p) /\ Grace(p) \in Nat
  BY DEF FileInv, Grace
<1> USE <1>0 DEF FileOK, Slack
<1>1. CASE Tick
  BY <1>1 DEF Tick
<1>2. CASE CycleBegin
  BY <1>2 DEF CycleBegin
<1>3. CASE SkipProbe
  BY <1>3 DEF SkipProbe, ForcedNextRun, Due
<1>4. CASE CollectProbe
  BY <1>4 DEF CollectProbe, ForcedNextRun, Due
<1>5. CASE FailProbe
  BY <1>5 DEF FailProbe, ForcedNextRun, Due
<1>6. CASE CycleEnd
  <2>1. ProbeOK(p) /\ p < i
    BY <1>6 DEF CycleEnd, ProbeInv, Probes
  <2>2. /\ next_run[p] \in Nat /\ Interval[p] \in Nat
        /\ collected_at[p] \in Nat \cup {Never}
    OBVIOUS
  <2>3. /\ file_at'[p] = collected_at[p] /\ pc' = "wait" /\ now' = now
        /\ p \notin file_stale' /\ p \in has_result /\ Interval[p] > 0 =>
             now <= next_run[p] + Grace(p)
    BY <1>6 DEF CycleEnd
  <2>4. p \notin CanFail => p \notin failed
    OBVIOUS
  <2>5. pc = "collect"
    BY <1>6 DEF CycleEnd
  <2> QED
    BY <2>1, <2>2, <2>3, <2>4, <2>5 DEF ProbeOK, Through
<1>7. CASE Timeout \/ Wakeup \/ TriggerSnapshot
  BY <1>7 DEF Timeout, Wakeup, TriggerSnapshot
<1>8. ASSUME NEW q \in Forcible, ForceProbe(q) PROVE FileOK(p)'
  BY <1>8 DEF ForceProbe
<1>9. CASE TimeIsUp \/ UNCHANGED vars
  BY <1>9 DEF TimeIsUp, vars
<1> QED
  BY Zenon, <1>1, <1>2, <1>3, <1>4, <1>5, <1>6, <1>7, <1>8, <1>9
     DEF Next

\* A pending flag is young.
LEMMA ForceStep ==
  TypeOK /\ ClockInv /\ ForceInv /\ [Next]_vars
    => ForceInv'
<1> SUFFICES ASSUME TypeOK, ClockInv, ForceInv, [Next]_vars
             PROVE  ForceInv'
  OBVIOUS
<1> USE ScheduleAssumption DEF TypeOK, ClockInv
<1> SUFFICES ASSUME NEW p \in pending' PROVE ForceOK(p)'
  BY DEF ForceInv
<1>a. p \in pending => ForceOK(p)
  BY DEF ForceInv
<1>b. i \in Nat /\ NumProbes \in Nat
  OBVIOUS
<1>c. p \in Forcible => p \in 1..NumProbes /\ forced_at[p] \in Nat
  BY DEF Probes
<1> USE <1>a, <1>b, <1>c DEF ForceOK
<1>1. CASE Tick
  BY <1>1 DEF Tick
<1>2. CASE CycleBegin
  BY <1>2 DEF CycleBegin
<1>3. CASE SkipProbe
  BY <1>3 DEF SkipProbe, ForcedNextRun, Due
<1>4. CASE CollectProbe
  BY <1>4 DEF CollectProbe, ForcedNextRun, Due
<1>5. CASE FailProbe
  BY <1>5 DEF FailProbe, ForcedNextRun, Due
<1>6. CASE CycleEnd
  BY <1>6 DEF CycleEnd
<1>7. CASE Timeout \/ Wakeup \/ TriggerSnapshot
  BY <1>7 DEF Timeout, Wakeup, TriggerSnapshot
<1>8. ASSUME NEW q \in Forcible, ForceProbe(q) PROVE ForceOK(p)'
  BY <1>8 DEF ForceProbe
<1>9. CASE TimeIsUp \/ UNCHANGED vars
  BY Zenon, <1>9 DEF TimeIsUp, vars
<1> QED
  BY Zenon, <1>1, <1>2, <1>3, <1>4, <1>5, <1>6, <1>7, <1>8, <1>9
     DEF Next

\* A cycle marks stale only what failed in it.
LEMMA StaleStep ==
  TypeOK /\ ClockInv /\ ProbeInv /\ StaleMeansFailing /\ [Next]_vars
    => StaleMeansFailing'
<1> SUFFICES ASSUME TypeOK, ClockInv, ProbeInv, StaleMeansFailing, [Next]_vars
             PROVE  StaleMeansFailing'
  OBVIOUS
<1> USE ScheduleAssumption DEF TypeOK, StaleMeansFailing
<1>1. CASE Tick
  BY <1>1 DEF Tick
<1>2. CASE CycleBegin
  BY <1>2 DEF CycleBegin
<1>3. CASE SkipProbe
  BY <1>3 DEF SkipProbe, ForcedNextRun, Due
<1>4. CASE CollectProbe
  BY <1>4 DEF CollectProbe, ForcedNextRun, Due
<1>5. CASE FailProbe
  BY <1>5 DEF FailProbe, ForcedNextRun, Due
<1>6. CASE CycleEnd
  <2> SUFFICES ASSUME NEW p \in stale', p \notin failed PROVE FALSE
    BY <1>6 DEF CycleEnd
  <2>1. p \in Probes /\ Interval[p] > 0 /\ now > next_run[p] + Grace(p) /\ p < i
    BY <1>6 DEF CycleEnd, Probes
  <2>2. Grace(p) \in Nat /\ next_run[p] \in Nat
    BY <2>1 DEF Grace
  <2>3. now < next_run[p]
    BY <1>6, <2>1 DEF CycleEnd, ProbeInv, ProbeOK, Through
  <2> QED
    BY <2>1, <2>2, <2>3
<1>7. CASE Timeout \/ Wakeup \/ TriggerSnapshot
  BY <1>7 DEF Timeout, Wakeup, TriggerSnapshot
<1>8. ASSUME NEW q \in Forcible, ForceProbe(q) PROVE StaleMeansFailing'
  BY <1>8 DEF ForceProbe
<1>9. CASE TimeIsUp \/ UNCHANGED vars
  BY <1>9 DEF TimeIsUp, vars
<1> QED
  BY <1>1, <1>2, <1>3, <1>4, <1>5, <1>6, <1>7, <1>8, <1>9
     DEF Next

\* Every step preserves the whole invariant.
LEMMA IInvStep == IInv /\ [Next]_vars => IInv'
BY TypeStep, ClockStep, ProbeStep, FileStep, ForceStep, StaleStep DEF IInv

\* It holds in every behaviour.
LEMMA IInvAlways == Spec => []IInv
BY IInvInit, IInvStep, PTL DEF Spec
-----------------------------------------------------------------------------
(* What it implies.                                                        *)

\* The types are right in every behaviour, and no section that was never
\* collected is reported stale.
THEOREM TypeCorrect == Spec => []TypeOK
<1>1. IInv => TypeOK
  BY DEF IInv
<1> QED
  BY <1>1, IInvAlways, PTL

\* mark_stale blames only probes that failed in the cycle of the report.
THEOREM StaleIsDeserved == Spec => []StaleMeansFailing
<1>1. IInv => StaleMeansFailing
  BY DEF IInv
<1> QED
  BY <1>1, IInvAlways, PTL

\* A section not marked stale is young, whatever the intervals are.
THEOREM FreshIsRecent == Spec => []FreshSectionIsRecent
<1>1. IInv => FreshSectionIsRecent
  <2> SUFFICES ASSUME IInv PROVE FreshSectionIsRecent
    OBVIOUS
  <2>1. clock <= now + 2 * MaxCycle + CollectInterval
    BY ScheduleAssumption DEF IInv, TypeOK, ClockInv
  <2> QED
    BY <2>1, ScheduleAssumption
       DEF IInv, TypeOK, ClockInv, FileInv, FileOK, Slack, FreshSectionIsRecent, Grace
<1> QED
  BY <1>1, IInvAlways, PTL

\* Probes that do not fail keep their cadence under any triggers.
THEOREM AgeIsBounded == Spec => []AgeBound
<1>1. IInv => AgeBound
  BY ScheduleAssumption DEF IInv, TypeOK, ClockInv, FileInv, FileOK, Slack, AgeBound
<1> QED
  BY <1>1, IInvAlways, PTL

\* A failed probe is due again at once.
THEOREM FailuresAreRetried == Spec => []FailedIsRetried
<1>1. IInv => FailedIsRetried
  BY ScheduleAssumption DEF IInv, TypeOK, ClockInv, ProbeInv, ProbeOK, FailedIsRetried
<1> QED
  BY <1>1, IInvAlways, PTL

\* A forced run happens within two cycles.
THEOREM ForcedRunsArePrompt == Spec => []ForcedIsPrompt
<1>1. IInv => ForcedIsPrompt
  <2> SUFFICES ASSUME IInv, NEW p \in pending
               PROVE clock - forced_at[p] <= 2 * MaxCycle
    BY DEF ForcedIsPrompt
  <2>1. forced_at[p] \in Nat /\ p \in Nat /\ i \in Nat
    BY ScheduleAssumption DEF IInv, TypeOK, Probes
  <2> QED
    BY <2>1, ScheduleAssumption DEF IInv, TypeOK, ClockInv, ForceInv, ForceOK
<1> QED
  BY <1>1, IInvAlways, PTL

\* Collections of a probe are an interval apart unless it was forced.
THEOREM CollectionsAreSpaced == Spec => SpacedCollections
<1> DEFINE Spaced ==
      \A p \in Probes :
        collected_at[p] # Never /\ collected_at'[p] # collected_at[p]
          /\ p \notin pending =>
          Interval[p] > 0 /\ next_run'[p] >= next_run[p] + Interval[p]
<1>1. IInv /\ [Next]_vars => [Spaced]_vars
  <2> SUFFICES ASSUME IInv, Next PROVE Spaced
    OBVIOUS
  <2>1. CASE CollectProbe
    <3> SUFFICES ASSUME NEW p \in Probes, collected_at[p] # Never,
                        collected_at'[p] # collected_at[p], p \notin pending
                 PROVE  Interval[p] > 0 /\ next_run'[p] >= next_run[p] + Interval[p]
      OBVIOUS
    <3>1. p = i /\ next_run'[p] = now + Interval[p] /\ Due(p)
      BY <2>1 DEF CollectProbe, IInv, TypeOK
    <3>2. Interval[p] > 0 /\ now >= next_run[p]
      BY <3>1 DEF Due, ForcedNextRun, IInv, ProbeInv, ProbeOK
    <3> QED
      BY <3>1, <3>2, ScheduleAssumption DEF IInv, TypeOK
  <2>2. CASE UNCHANGED collected_at
    BY <2>2
  <2> QED
    BY Zenon, <2>1, <2>2 DEF Next, Tick, CycleBegin, SkipProbe, FailProbe, CycleEnd, Timeout,
       Wakeup, TriggerSnapshot, ForceProbe, TimeIsUp, vars
<1> QED
  BY <1>1, IInvAlways, PTL DEF Spec, SpacedCollections
-----------------------------------------------------------------------------
(* How many cycles there can be.                                           *)

\* t timeouts and g accepted triggers account for the cycles that were run and
\* the ones that are certain to follow, with the first and the forced ones.
\* Timeouts are a sleep apart and triggers a rate limit.
Accounts(t, g) ==
  /\ cycles + (IF pc = "cycle" THEN 1 ELSE 0) + (IF wake THEN 1 ELSE 0) <= 1 + t + g + forces
  /\ t * CollectInterval <= clock
  /\ pc = "wait" => t * CollectInterval + CollectInterval <= deadline
  /\ g = 0 \/ (last_trigger # Never /\ g * TriggerMinInterval <= last_trigger + TriggerMinInterval)
  /\ last_trigger <= clock

CountInv == \E t, g \in Nat : Accounts(t, g)

\* How often a whole b fits into a.
LEMMA Quotient ==
  ASSUME NEW a \in Nat, NEW b \in Nat \ {0}, NEW t \in Nat, t * b <= a
  PROVE  t <= a \div b
<1> DEFINE q == a \div b
<1>1. q \in Nat /\ a < q * b + b
  OBVIOUS
<1> HIDE DEF q
<1>2. ASSUME t > q PROVE FALSE
  <2>1. PICK d \in Nat : t = q + 1 + d
    <3>1. t - q - 1 \in Nat /\ t = q + 1 + (t - q - 1)
      BY <1>1, <1>2
    <3> QED BY <3>1
  <2>2. t * b = q * b + b + d * b /\ d * b >= 0
    BY <1>1, <2>1
  <2> QED BY <1>1, <2>2
<1>3. t <= q
  BY <1>1, <1>2
<1> QED BY <1>3 DEF q

\* One more is one b more.
LEMMA OneMore ==
  ASSUME NEW t \in Nat, NEW b \in Nat
  PROVE  t * b \in Nat /\ (t + 1) * b = t * b + b
OBVIOUS

\* Every step keeps the account.
LEMMA CountStep ==
  TypeOK /\ CountInv /\ TriggerMinInterval > 0 /\ [Next]_vars => CountInv'
<1> SUFFICES ASSUME TypeOK, CountInv, TriggerMinInterval > 0, [Next]_vars PROVE CountInv'
  OBVIOUS
<1>1. PICK t \in Nat, g \in Nat : Accounts(t, g)
  BY DEF CountInv
<1>2. /\ t * CollectInterval \in Nat
      /\ (t + 1) * CollectInterval = t * CollectInterval + CollectInterval
      /\ g * TriggerMinInterval \in Nat
      /\ (g + 1) * TriggerMinInterval = g * TriggerMinInterval + TriggerMinInterval
  BY ScheduleAssumption, OneMore
<1>3. /\ cycles \in Nat /\ forces \in Nat /\ clock \in Nat /\ deadline \in Nat
      /\ last_trigger \in Nat \cup {Never} /\ wake \in BOOLEAN
      /\ CollectInterval \in Nat /\ TriggerMinInterval \in Nat
  BY ScheduleAssumption DEF TypeOK
<1>a. Accounts(t, g)' \/ Accounts(t + 1, g)' \/ Accounts(t, g + 1)'
  <2> USE <1>1, <1>2, <1>3 DEF Accounts
  <2>1. CASE Tick
    BY <2>1 DEF Tick
  <2>2. CASE CycleBegin
    BY <2>2 DEF CycleBegin
  <2>3. CASE SkipProbe \/ CollectProbe \/ FailProbe
    <3>1. UNCHANGED <<cycles, pc, wake, forces, clock, deadline, last_trigger>>
      BY Zenon, <2>3 DEF SkipProbe, CollectProbe, FailProbe
    <3> QED BY Zenon, <3>1
  <2>4. CASE CycleEnd
    BY <2>4 DEF CycleEnd
  <2>5. CASE Timeout
    BY <2>5 DEF Timeout
  <2>6. CASE Wakeup
    BY <2>6 DEF Wakeup
  <2>7. CASE TriggerSnapshot
    BY <2>7 DEF TriggerSnapshot
  <2>8. ASSUME NEW q \in Forcible, ForceProbe(q) PROVE Accounts(t, g)'
    BY <2>8 DEF ForceProbe
  <2>9. CASE TimeIsUp \/ UNCHANGED vars
    <3>1. UNCHANGED <<cycles, pc, wake, forces, clock, deadline, last_trigger>>
      BY Zenon, <2>9 DEF TimeIsUp, vars
    <3> QED BY Zenon, <3>1
  <2> QED
    BY Zenon, <2>1, <2>2, <2>3, <2>4, <2>5, <2>6, <2>7, <2>8, <2>9 DEF Next
<1>b. t + 1 \in Nat /\ g + 1 \in Nat
  OBVIOUS
<1> QED BY Zenon, <1>a, <1>b DEF CountInv

\* For any intervals and any number of requests, clients cause no more cycles
\* than the rate limiter lets through.
THEOREM CyclesAreBounded == Spec => []CyclesBounded
<1>1. CASE TriggerMinInterval > 0
  <2>1. Init => CountInv
    <3> SUFFICES ASSUME Init PROVE Accounts(0, 0)
      BY DEF CountInv
    <3> QED BY ScheduleAssumption DEF Init, Accounts
  <2>2. IInv /\ CountInv /\ [Next]_vars => CountInv'
    BY <1>1, CountStep DEF IInv
  <2>3. IInv /\ CountInv => CyclesBounded
    <3> SUFFICES ASSUME IInv, CountInv PROVE CyclesBounded
      OBVIOUS
    <3>1. PICK t \in Nat, g \in Nat : Accounts(t, g)
      BY DEF CountInv
    <3>2. /\ cycles \in Nat /\ forces \in Nat /\ clock \in Nat
          /\ last_trigger \in Nat \cup {Never} /\ wake \in BOOLEAN
          /\ CollectInterval \in Nat \ {0} /\ TriggerMinInterval \in Nat \ {0}
      BY <1>1, ScheduleAssumption DEF IInv, TypeOK
    <3>3. t <= clock \div CollectInterval
      BY <3>1, <3>2, Quotient DEF Accounts
    <3>4. g <= 1 + clock \div TriggerMinInterval
      <4>1. CASE g = 0
        BY <3>2, <4>1
      <4>2. CASE g # 0
        <5>1. g - 1 \in Nat /\ g = (g - 1) + 1
          BY <4>2
        <5>2. g * TriggerMinInterval = (g - 1) * TriggerMinInterval + TriggerMinInterval
                /\ (g - 1) * TriggerMinInterval \in Nat
          BY <3>2, <5>1, OneMore
        <5>3. (g - 1) * TriggerMinInterval <= clock
          BY <3>1, <3>2, <4>2, <5>2 DEF Accounts
        <5>4. g - 1 <= clock \div TriggerMinInterval
          BY Zenon, <3>2, <5>1, <5>3, Quotient
        <5>5. clock \div TriggerMinInterval \in Nat
          BY <3>2
        <5> QED BY <5>4, <5>5
      <4> QED BY <4>1, <4>2
    <3>5. clock \div CollectInterval \in Nat /\ clock \div TriggerMinInterval \in Nat
      BY <3>2
    <3>6. cycles <= 1 + t + g + forces
      BY <3>1, <3>2 DEF Accounts
    <3> QED BY <3>2, <3>3, <3>4, <3>5, <3>6 DEF CyclesBounded
  <2> QED BY <2>1, <2>2, <2>3, IInvAlways, PTL DEF Spec
<1>2. CASE ~(TriggerMinInterval > 0)
  <2>1. CyclesBounded
    BY <1>2 DEF CyclesBounded
  <2> QED BY <2>1, PTL
<1> QED BY <1>1, <1>2

-----------------------------------------------------------------------------
(* Stale marks.                                                             *)

\* A section that the file marks stale is still due, or was just collected.
MarkOK(p) ==
  /\ p \in has_result /\ Interval[p] > 0
  /\ \/ now > next_run[p] + Grace(p)
     \/ pc = "collect" /\ next_run[p] = now + Interval[p]

MarkInv == \A p \in file_stale : MarkOK(p)

\* Every step keeps the marks true: a probe overdue is not skipped.
LEMMA MarkStep == TypeOK /\ ClockInv /\ MarkInv /\ [Next]_vars => MarkInv'
<1> SUFFICES ASSUME TypeOK, ClockInv, MarkInv, [Next]_vars,
                    NEW p \in file_stale'
             PROVE  MarkOK(p)'
  BY DEF MarkInv
<1>0. /\ file_stale' \in SUBSET Probes /\ Grace(p) \in Nat
      /\ Interval[p] \in Nat /\ next_run[p] \in Nat /\ now \in Nat /\ clock \in Nat
  <2>1. file_stale' \in SUBSET Probes
    <3>1. CASE CycleEnd
      BY <3>1 DEF CycleEnd, TypeOK
    <3>2. CASE ~CycleEnd
      <4>1. file_stale' = file_stale
        BY Zenon, <3>2
        DEF Next, vars, Tick, CycleBegin, SkipProbe, CollectProbe, FailProbe, Timeout,
            Wakeup, TriggerSnapshot, ForceProbe, TimeIsUp
      <4> QED BY <4>1 DEF TypeOK
    <3> QED BY <3>1, <3>2
  <2> QED BY <2>1, ScheduleAssumption DEF TypeOK, Grace
<1>1. CASE CycleEnd
  <2>1. /\ p \in has_result /\ Interval[p] > 0 /\ now > next_run[p] + Grace(p)
        /\ UNCHANGED <<has_result, now, next_run>>
    BY Zenon, <1>1 DEF CycleEnd
  <2> QED BY Zenon, <2>1 DEF MarkOK, Grace
<1>. SUFFICES ASSUME ~CycleEnd, p \in file_stale, UNCHANGED file_stale
              PROVE  MarkOK(p)'
  <2>1. ~CycleEnd => file_stale' = file_stale
    BY Zenon DEF Next, vars, Tick, CycleBegin, SkipProbe, CollectProbe, FailProbe, Timeout,
           Wakeup, TriggerSnapshot, ForceProbe, TimeIsUp
  <2> QED BY <1>1, <2>1
<1>2. MarkOK(p)
  BY DEF MarkInv
<1>3. CASE CycleBegin
  <2>1. now' = clock /\ pc = "cycle" /\ UNCHANGED <<has_result, next_run>>
    BY <1>3 DEF CycleBegin
  <2>2. now <= clock
    BY DEF ClockInv
  <2>3. now > next_run[p] + Grace(p) /\ p \in has_result /\ Interval[p] > 0
    BY Zenon, <1>2, <2>1 DEF MarkOK
  <2>4. now' > next_run[p] + Grace(p)
    BY <1>0, <2>1, <2>2, <2>3
  <2> QED BY Zenon, <2>1, <2>3, <2>4 DEF MarkOK, Grace
<1>4. CASE SkipProbe
  <2>1. CASE p = i
    <3>1. ~Due(p)
      BY <1>4, <2>1 DEF SkipProbe
    <3>2. next_run[p] = now + Interval[p] /\ p \notin pending
      BY SMTT(30), <1>0, <1>2, <3>1 DEF Due, ForcedNextRun, MarkOK
    <3> QED BY Zenon, <1>0, <1>2, <1>4, <2>1, <3>2 DEF SkipProbe, MarkOK, ForcedNextRun, TypeOK
  <2>2. CASE p # i
    <3>1. next_run'[p] = next_run[p] /\ UNCHANGED <<has_result, now, pc>>
      BY <1>4, <2>2, <1>0 DEF SkipProbe, TypeOK
    <3> QED BY Zenon, <1>2, <3>1 DEF MarkOK, Grace
  <2> QED BY <2>1, <2>2
<1>5. CASE CollectProbe
  <2>1. /\ next_run'[p] = IF p = i THEN now + Interval[p] ELSE next_run[p]
        /\ p \in has_result' /\ pc' = pc /\ pc = "collect" /\ now' = now
    BY Zenon, <1>0, <1>2, <1>5 DEF CollectProbe, TypeOK, MarkOK
  <2> QED BY Zenon, <1>2, <2>1 DEF MarkOK, Grace
<1>6. CASE FailProbe
  <2>1. i \notin pending
    BY <1>6, ScheduleAssumption DEF FailProbe, TypeOK
  <2>2. next_run' = next_run /\ UNCHANGED <<has_result, now, pc>>
    BY <1>6, <2>1 DEF FailProbe, ForcedNextRun, TypeOK
  <2> QED BY Zenon, <1>2, <2>2 DEF MarkOK, Grace
<1>7. CASE Tick \/ Timeout \/ Wakeup \/ TriggerSnapshot
  <2>1. UNCHANGED <<has_result, now, next_run>> /\ (pc = "collect" => pc' = pc)
    BY <1>7 DEF Tick, Timeout, Wakeup, TriggerSnapshot
  <2> QED BY Zenon, <1>2, <2>1 DEF MarkOK, Grace
<1>8. CASE (\E q \in Forcible : ForceProbe(q)) \/ TimeIsUp \/ UNCHANGED vars
  <2>1. UNCHANGED <<has_result, now, next_run, pc>>
    BY <1>8 DEF ForceProbe, TimeIsUp, vars
  <2> QED BY Zenon, <1>2, <2>1 DEF MarkOK, Grace
<1> QED
  BY <1>3, <1>4, <1>5, <1>6, <1>7, <1>8 DEF Next

\* A section stays marked stale in the file until a cycle collects it.
THEOREM MarksOutlastFailures == Spec => StaleUntilCollected
<1>1. ASSUME TypeOK, MarkInv, [Next]_vars, NEW p \in file_stale
      PROVE  p \in file_stale' \/ next_run'[p] = now + Interval[p]
  <2>1. CASE CycleEnd
    <3>1. /\ file_stale' = {q \in has_result : Interval[q] > 0 /\ now > next_run[q] + Grace(q)}
          /\ next_run' = next_run
      BY Zenon, <2>1 DEF CycleEnd
    <3> QED BY Zenon, <1>1, <3>1 DEF MarkInv, MarkOK
  <2>2. CASE ~CycleEnd
    BY Zenon, <1>1, <2>2
    DEF Next, vars, Tick, CycleBegin, SkipProbe, CollectProbe, FailProbe, Timeout,
        Wakeup, TriggerSnapshot, ForceProbe, TimeIsUp
  <2> QED BY <2>1, <2>2
<1>2. Init => MarkInv
  BY DEF Init, MarkInv
<1>3. IInv /\ MarkInv /\ [Next]_vars => MarkInv'
  BY MarkStep DEF IInv
<1>4. IInv /\ MarkInv /\ [Next]_vars =>
        [\A p \in file_stale : p \in file_stale' \/ next_run'[p] = now + Interval[p]]_vars
  BY <1>1 DEF IInv
<1> QED
  BY <1>2, <1>3, <1>4, IInvAlways, PTL DEF Spec, StaleUntilCollected
=============================================================================
