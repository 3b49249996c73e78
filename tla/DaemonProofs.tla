---------------------------- MODULE DaemonProofs ----------------------------
(***************************************************************************)
(* Safety of Daemon for every set of fingerprints and every bound.         *)
(***************************************************************************)
EXTENDS Daemon, TLAPS

\* How SMT is to see UNCHANGED of a group of variables.
USE DEF collected, published, collector, flags, dbus, handler, outside, env,
        history, elsewhere

\* Ranking two severities yields one of them (worst_of's loop body).
LEMMA WorseType ==
  ASSUME NEW a \in Severities, NEW b \in Severities
  PROVE  Worse(a, b) \in Severities
BY DEF Worse

\* evaluate_crash yields a severity, so the aggregate is a snapshot.
LEMMA AggregateType ==
  ASSUME NEW o \in Severities, NEW c \in CrashStatus
  PROVE  /\ Aggregate(o, c) \in Snapshot
         /\ Aggregate(o, c).crash = c
<1>1. evaluate_crash(c) \in Severities
  BY DEF evaluate_crash, Severities
<1>2. Worse(o, evaluate_crash(c)) \in Severities
  BY <1>1, WorseType
<1> QED
  BY <1>2 DEF Aggregate, Snapshot


LEMMA TypeInit == Init => TypeOK
<1> SUFFICES ASSUME Init PROVE TypeOK OBVIOUS
<1> USE DEF Init
<1>1. NoCrash \in CrashStatus /\ NoDump \in PstoreContents
  BY DEF CrashStatus, PstoreContents
<1>2. NoSnapshot \in Snapshot
  BY <1>1 DEF NoSnapshot, Snapshot, Severities
<1>3. NoAlarms \in [overall : Severities \cup {"none"}, crash : OptFp]
  BY DEF NoAlarms, OptFp
<1>4. sig \in [pc : {"idle", "load", "write", "done"},
              thread : {"collector", "other"}, fd : BOOLEAN]
  OBVIOUS
<1>5. wakeup_fd \in IF HasEventFd THEN {"empty", "readable", "closed"} ELSE {"none"}
  BY ConstantsAssumption
<1>6. "unknown" \in Severities BY DEF Severities
<1>7. NoFp \in OptFp /\ ack_file \in OptFp /\ shown \subseteq Fingerprints
  BY DEF OptFp
<1>8. g_wakeup_fd \in BOOLEAN
  BY ConstantsAssumption
<1>9. pc \in CyclePcs \cup LoopPcs \cup ExitPcs \cup {"ready", "down"}
  BY DEF CyclePcs
<1> QED
  BY Zenon, <1>1, <1>2, <1>3, <1>4, <1>5, <1>6, <1>7, <1>8, <1>9 DEF TypeOK

\* Every step of every thread, handler and of the environment preserves the
\* types.
LEMMA TypeStep == TypeOK /\ [Next]_vars => TypeOK'
<1> SUFFICES ASSUME TypeOK, [Next]_vars PROVE TypeOK'
  OBVIOUS
<1> USE ConstantsAssumption
<1> USE DEF CollectorRuns, CyclePcs, LoopPcs, ExitPcs
<1>1. CASE CycleBegin
  BY <1>1 DEF TypeOK, CycleBegin, Probes
<1>2. CASE TakeRauc
  <2>1. due' \subseteq Probes
    BY <1>2 DEF TypeOK, TakeRauc, Probes
  <2>2. rauc_update_pending' \in BOOLEAN /\ pc' \in CyclePcs /\ pc' # "crash_ack"
    BY Zenon, <1>2 DEF TakeRauc
  <2>3. UNCHANGED <<ready, other, scan, crash, published, wakeup_fd,
                    trigger_requested, crash_ack_pending, elsewhere>>
    BY <1>2 DEF TakeRauc
  <2> QED
    BY <2>1, <2>2, <2>3 DEF TypeOK
<1>3. CASE CollectUpdate
  BY <1>3 DEF TypeOK, CollectUpdate
<1>4. CASE TakeAck
  <2>1. due' \subseteq Probes
    BY <1>4 DEF TypeOK, TakeAck, Probes
  <2>2. crash_ack_pending' \in BOOLEAN /\ pc' \in CyclePcs /\ pc' # "crash_ack"
    BY Zenon, <1>4 DEF TakeAck
  <2>3. UNCHANGED <<ready, other, scan, crash, published, wakeup_fd,
                    trigger_requested, rauc_update_pending, elsewhere>>
    BY <1>4 DEF TakeAck
  <2> QED
    BY <2>1, <2>2, <2>3 DEF TypeOK
<1>5. CASE CrashScan
  <2>1. crash' \in CrashStatus
    BY <1>5 DEF TypeOK, CrashScan, CrashStatus
  <2>2. scan' \in PstoreContents
    BY <1>5 DEF TypeOK, CrashScan
  <2>3. due' \subseteq Probes
    BY <1>5 DEF TypeOK, CrashScan
  <2>4. pc' \in CyclePcs
    BY <1>5 DEF TypeOK, CrashScan
  <2> QED
    BY <1>5, <2>1, <2>2, <2>3, <2>4 DEF TypeOK, CrashScan
<1>6. CASE CrashReadAck
  <2>1. scan.fp \in Fingerprints /\ scan.fresh \in BOOLEAN
    BY <1>6 DEF TypeOK, CrashReadAck, PstoreContents, NoDump
  <2>2. crash' \in CrashStatus
    BY <1>6, <2>1 DEF CrashReadAck, CrashStatus
  <2>3. scan' \in PstoreContents
    BY <1>6 DEF CrashReadAck, PstoreContents
  <2>4. due' \subseteq Probes
    BY <1>6 DEF TypeOK, CrashReadAck
  <2> QED
    BY <1>6, <2>2, <2>3, <2>4 DEF TypeOK, CrashReadAck
<1>7. CASE WriteSnapshot
  <2>1. Aggregate(other, crash) \in Snapshot
    BY <1>7, AggregateType DEF TypeOK, WriteSnapshot
  <2>2. file' \in Snapshot
    BY <1>7, <2>1 DEF TypeOK, WriteSnapshot
  <2> QED
    BY <1>7, <2>1, <2>2 DEF TypeOK, WriteSnapshot
<1>8. CASE Publish
  <2>1. state' \in Snapshot
    BY <1>8, AggregateType DEF TypeOK, Publish
  <2>2. prev_sev' \in Severities /\ other' \in Severities
    BY <1>8 DEF TypeOK, Publish, Snapshot, Severities
  <2>3. current_panic_fingerprint' \in OptFp /\ shown' \subseteq Fingerprints
    BY <1>8 DEF TypeOK, Publish, CrashStatus, NoCrash, OptFp
  <2>4. alarms' \in [overall : Severities \cup {"none"}, crash : OptFp]
    BY <1>8 DEF TypeOK, Publish, NoAlarms, OptFp
  <2> QED
    BY <1>8, <2>1, <2>2, <2>3, <2>4 DEF TypeOK, Publish
<1>9. CASE Push
  <2>1. state.sev \in Severities /\ state.crash \in CrashStatus
    BY Zenon, <1>9 DEF TypeOK, Push, Snapshot
  <2>2. state.crash.fp \in OptFp /\ NoFp \in OptFp
    BY <1>9, <2>1 DEF TypeOK, Push, CrashStatus, NoCrash, OptFp
  <2>3. severity_str' \in Severities
    BY Zenon, <1>9, <2>1 DEF TypeOK, Push
  <2>4. alarms' \in [overall : Severities \cup {"none"}, crash : OptFp]
    BY <1>9, <2>1, <2>2 DEF TypeOK, Push, OverallAlarm
  <2>5. last_alarmed_crash_fp' \in OptFp
    BY <1>9, <2>2 DEF TypeOK, Push
  <2>6. prev_sev' \in Severities
    BY <1>9 DEF TypeOK, Push, Severities
  <2> QED
    BY <1>9, <2>1, <2>2, <2>3, <2>4, <2>5, <2>6 DEF TypeOK, Push
<1>10. CASE Ready
  BY <1>10 DEF TypeOK, Ready
<1>11. CASE LoopCheck
  BY <1>11 DEF TypeOK, LoopCheck, RequestShutdown, Written
<1>12. CASE PollReadable
  BY <1>12 DEF TypeOK, PollReadable
<1>13. CASE Drain
  <2>1. wakeup_fd' \in IF HasEventFd THEN {"empty", "readable", "closed"} ELSE {"none"}
    BY <1>13 DEF TypeOK, Drain
  <2> QED
    BY <1>13, <2>1 DEF TypeOK, Drain
<1>14. CASE Woken
  <2>1. wakeup_fd' \in IF HasEventFd THEN {"empty", "readable", "closed"} ELSE {"none"}
    BY <1>14 DEF TypeOK, Woken, RequestShutdown, Written
  <2>2. pc' \in {"leave", "cycle"}
    BY <1>14 DEF TypeOK, Woken, RequestShutdown
  <2>3. trigger_requested' \in BOOLEAN
    BY Zenon, <1>14 DEF TypeOK, Woken
  <2> QED
    BY <1>14, <2>1, <2>2, <2>3 DEF TypeOK, Woken
<1>15. CASE LeaveEventLoop
  <2>1. event_loop' \in BOOLEAN
    BY Zenon, <1>15 DEF TypeOK, LeaveEventLoop
  <2> QED
    BY <1>15, <2>1 DEF TypeOK, LeaveEventLoop
<1>16. CASE Detach
  <2>1. g_wakeup_fd' \in BOOLEAN
    BY Zenon, <1>16 DEF TypeOK, Detach
  <2> QED
    BY <1>16, <2>1 DEF TypeOK, Detach
<1>17. CASE Close
  BY <1>17 DEF TypeOK, Close
<1>18. CASE PollTimeout
  BY <1>18 DEF TypeOK, PollTimeout
<1>19. CASE TriggerSnapshot
  BY <1>19 DEF TypeOK, TriggerSnapshot
<1>20. CASE RaucCompleted
  BY <1>20 DEF TypeOK, RaucCompleted
<1>21. CASE AckWrite
  <2>1. NoFp \in OptFp
    BY <1>21 DEF TypeOK, AckWrite, OptFp
  <2>2. ack_file' \in OptFp /\ confirmed' \in OptFp /\ darg' \in OptFp
    BY <1>21, <2>1 DEF TypeOK, AckWrite
  <2>3. dpc' \in {"ack_flag", "idle"}
    BY <1>21 DEF TypeOK, AckWrite
  <2> QED
    BY <1>21, <2>1, <2>2, <2>3 DEF TypeOK, AckWrite
<1>22. CASE AckFlag
  BY <1>22 DEF TypeOK, AckFlag
<1>23. CASE SetTrigger
  BY <1>23 DEF TypeOK, SetTrigger
<1>24. CASE WakeAndReturn
  <2>1. NoFp \in OptFp
    BY <1>24 DEF TypeOK, WakeAndReturn, OptFp
  <2>2. confirmed' \in OptFp /\ darg' \in OptFp
    BY <1>24, <2>1 DEF TypeOK, WakeAndReturn
  <2>3. wakeup_fd' \in IF HasEventFd THEN {"empty", "readable", "closed"} ELSE {"none"}
    BY <1>24 DEF TypeOK, WakeAndReturn, Written
  <2> QED
    BY <1>24, <2>1, <2>2, <2>3 DEF TypeOK, WakeAndReturn
<1>25. CASE SignalLoad
  <2>1. sig' \in [pc : {"idle", "load", "write", "done"},
              thread : {"collector", "other"}, fd : BOOLEAN]
    BY Zenon, <1>25 DEF TypeOK, SignalLoad
  <2> QED
    BY <1>25, <2>1 DEF TypeOK, SignalLoad
<1>26. CASE SignalWrite
  BY <1>26 DEF TypeOK, SignalWrite, Written
<1>27. CASE RaucInstalls
  BY <1>27 DEF TypeOK, RaucInstalls
<1>28. CASE PstoreChanges
  BY <1>28 DEF TypeOK, PstoreChanges
<1>29. CASE Kill
  <2>1. NoCrash \in CrashStatus /\ NoDump \in PstoreContents
    BY DEF CrashStatus, PstoreContents
  <2>2. NoSnapshot \in Snapshot
    BY <2>1 DEF NoSnapshot, Snapshot, Severities
  <2>3. "unknown" \in Severities /\ NoFp \in OptFp
    BY DEF Severities, OptFp
  <2>4. alarms' \in [overall : Severities \cup {"none"}, crash : OptFp]
    BY <1>29 DEF Kill, NoAlarms, OptFp
  <2>5. sig' \in [pc : {"idle", "load", "write", "done"},
                 thread : {"collector", "other"}, fd : BOOLEAN]
    BY <1>29 DEF Kill
  <2>6. wakeup_fd' \in IF HasEventFd THEN {"empty", "readable", "closed"}
                                    ELSE {"none"}
    BY <1>29 DEF Kill
  <2>7. g_wakeup_fd' \in BOOLEAN /\ g_shutdown_signal' \in BOOLEAN
    BY Zenon, <1>29 DEF Kill
  <2>8. /\ trigger_requested' \in BOOLEAN /\ rauc_update_pending' \in BOOLEAN
        /\ crash_ack_pending' \in BOOLEAN /\ event_loop' \in BOOLEAN
        /\ ready' \in BOOLEAN
    BY Zenon, <1>29 DEF Kill
  <2>9. /\ state' \in Snapshot /\ crash' \in CrashStatus /\ scan' \in PstoreContents
        /\ pushed' \in CrashStatus /\ due' \subseteq Probes
        /\ kills' \in Nat /\ signals' \in Nat /\ pc' = "down"
        /\ dpc' = "idle"
    BY <1>29, <2>1, <2>2 DEF Kill, TypeOK
  <2>10. /\ other' \in Severities /\ prev_sev' \in Severities
         /\ severity_str' \in Severities
         /\ last_alarmed_crash_fp' \in OptFp /\ darg' \in OptFp
         /\ current_panic_fingerprint' \in OptFp
    BY <1>29, <2>3 DEF Kill
  <2>11. UNCHANGED <<file, ack_file, pstore, installed, changes, checked, shown,
                     confirmed>>
    BY <1>29 DEF Kill
  <2> QED
    BY <2>4, <2>5, <2>6, <2>7, <2>8, <2>9, <2>10, <2>11 DEF TypeOK
<1>30. CASE Restart
  BY <1>30 DEF TypeOK, Restart
<1>31. CASE Stopped
  BY <1>31 DEF TypeOK, Stopped, vars
<1>32. ASSUME NEW fp \in Fingerprints, AcknowledgeCrash(fp) PROVE TypeOK'
  BY <1>32 DEF TypeOK, AcknowledgeCrash, OptFp
<1>33. ASSUME NEW t \in HandlerThreads, SignalArrives(t) PROVE TypeOK'
  BY <1>33 DEF TypeOK, SignalArrives
<1>34. CASE UNCHANGED vars
  BY <1>34 DEF TypeOK, vars
<1> QED
  BY <1>1, <1>2, <1>3, <1>4, <1>5, <1>6, <1>7, <1>8, <1>9, <1>10, <1>11,
     <1>12, <1>13, <1>14, <1>15, <1>16, <1>17, <1>18, <1>19, <1>20, <1>21,
     <1>22, <1>23, <1>24, <1>25, <1>26, <1>27, <1>28, <1>29, <1>30, <1>31,
     <1>32, <1>33, <1>34
     DEF Next, CollectorStep, CallbackStep

\* The daemon's state is well typed in every behaviour.
THEOREM TypeCorrect == Spec => []TypeOK
BY TypeInit, TypeStep, PTL DEF Spec
-----------------------------------------------------------------------------
(* The wake-up protocol.  NoLostWakeup speaks of the sleeping loop only; to *)
(* be inductive it has to say, for each reason to wake up, how far past the *)
(* drain of the eventfd the loop may be before it consumes the reason.      *)

WakeInv ==
  HasEventFd =>
    /\ trigger_requested =>
         \/ wakeup_fd = "readable" \/ dpc \in {"set_trigger", "wake"}
         \/ pc \in {"drain", "woken", "stopped"}
    /\ rauc_update_pending =>
         \/ wakeup_fd = "readable" \/ dpc \in {"set_trigger", "wake"}
         \/ pc \in {"drain", "woken", "cycle", "rauc", "stopped"}
    /\ crash_ack_pending =>
         \/ wakeup_fd = "readable" \/ dpc \in {"set_trigger", "wake"}
         \/ pc \in {"drain", "woken", "cycle", "rauc", "update", "ack", "stopped"}
    /\ g_shutdown_signal /\ pc = "wait" =>
         wakeup_fd = "readable" \/ sig.pc \in {"load", "write"}

\* Who may still touch the eventfd, and when it is closed.
FdInv ==
  /\ pc \notin {"close", "stopped"} => g_wakeup_fd = HasEventFd
  /\ sig.pc = "write" /\ pc \notin {"close", "stopped"} => sig.fd = HasEventFd
  /\ wakeup_fd = "closed" => pc = "stopped"
  /\ ~event_loop => dpc = "idle"
  /\ ~ready => ~event_loop
  /\ pc = "ready" => ~ready
  /\ pc \in {"detach", "close", "stopped"} => ~event_loop
  /\ pc = "stopped" /\ sig.thread = "collector" => sig.pc \in {"idle", "done"}

\* Every installation not looked at is on its way to the update probe; a dead
\* daemon will start with all probes due.
UpdateInv ==
  /\ HasBus /\ pc # "stopped" /\ installed > checked =>
       signals > 0 \/ rauc_update_pending \/ "update" \in due
  /\ pc = "down" => due = Probes

\* Where an acknowledgement is between the check and the crash section.
AckInv ==
  /\ dpc = "idle" => darg = NoFp
  /\ dpc \in {"ack_flag", "set_trigger", "wake"} /\ darg # NoFp => ack_file = darg
  /\ confirmed # NoFp => ack_file = confirmed
  /\ \A fp \in Fingerprints :
       /\ \/ fp = confirmed
          \/ fp = darg /\ dpc \in {"set_trigger", "wake"}
       /\ crash.fp = fp /\ ~crash.acked
       => crash_ack_pending \/ "crash" \in due

\* Only published fingerprints travel into crash_state.json and back.
ShownInv ==
  /\ ack_file \in shown \cup {NoFp}
  /\ current_panic_fingerprint \in shown \cup {NoFp}
  /\ darg \in shown \cup {NoFp}
  /\ AckedOnlyIfShown

\* The latch value that fits a crash section.
Latch(c) == IF ActivePanic(c) THEN c.fp ELSE NoFp

\* The previous severity and the latch describe the snapshot pushed last; so
\* does everything else unless a push is due.
PublishInv ==
  /\ current_panic_fingerprint = state.crash.fp
  /\ pc # "push" => state.crash = pushed
  /\ HasBus => /\ last_alarmed_crash_fp = Latch(pushed)
               /\ severity_str = IF pc = "push" THEN prev_sev ELSE state.sev

\* Every step keeps track of who may touch the eventfd.
LEMMA FdStep ==
  TypeOK /\ FdInv /\ [Next]_vars => FdInv'
<1> SUFFICES ASSUME TypeOK, FdInv, [Next]_vars PROVE FdInv'
  OBVIOUS
<1>0. HasEventFd => wakeup_fd \in {"empty", "readable", "closed"}
  BY DEF TypeOK
<1> USE <1>0, ConstantsAssumption
<1> USE DEF CollectorRuns, FdInv
<1>1. CASE CycleBegin \/ TakeRauc \/ CollectUpdate \/ TakeAck
  BY <1>1 DEF CycleBegin, TakeRauc, CollectUpdate, TakeAck
<1>2. CASE CrashScan \/ CrashReadAck
  BY <1>2 DEF CrashScan, CrashReadAck
<1>3. CASE WriteSnapshot
  BY <1>3 DEF WriteSnapshot
<1>4. CASE Publish
  BY <1>4 DEF Publish
<1>5. CASE Push
  BY <1>5 DEF Push
<1>6. CASE Ready \/ LoopCheck \/ PollReadable \/ PollTimeout \/ Drain \/ Woken
  <2>1. CASE Ready \/ LoopCheck
    BY <2>1 DEF Ready, LoopCheck, RequestShutdown, Written
  <2>2. CASE PollReadable \/ PollTimeout
    BY <2>2 DEF PollReadable, PollTimeout
  <2>3. CASE Drain \/ Woken
    BY <2>3 DEF Drain, Woken, RequestShutdown, Written
  <2> QED
    BY Zenon, <1>6, <2>1, <2>2, <2>3
<1>7. CASE LeaveEventLoop \/ Detach \/ Close
  BY <1>7 DEF LeaveEventLoop, Detach, Close
<1>8. CASE TriggerSnapshot \/ RaucCompleted
  BY <1>8 DEF TriggerSnapshot, Dispatch, RaucCompleted
<1>9. CASE AckWrite \/ AckFlag \/ SetTrigger \/ WakeAndReturn
  BY Zenon, <1>9 DEF AckWrite, AckFlag, SetTrigger, WakeAndReturn, Written
<1>10. CASE SignalLoad
  BY <1>10 DEF SignalLoad, Running
<1>11. CASE SignalWrite
  BY <1>11 DEF SignalWrite, Running, Written
<1>12. CASE RaucInstalls \/ PstoreChanges \/ Restart
          \/ Stopped \/ UNCHANGED vars
  <2>1. CASE RaucInstalls \/ PstoreChanges
    BY <2>1 DEF RaucInstalls, Running, PstoreChanges
  <2>2. CASE Restart
    BY <2>2 DEF Restart
  <2>3. CASE Stopped \/ UNCHANGED vars
    BY <2>3 DEF Stopped, vars
  <2> QED
    BY Zenon, <1>12, <2>1, <2>2, <2>3
<1>13. CASE Kill
  BY Zenon, <1>13 DEF Kill
<1>14. ASSUME NEW fp \in Fingerprints, AcknowledgeCrash(fp) PROVE FdInv'
  BY <1>14 DEF AcknowledgeCrash, Dispatch
<1>15. ASSUME NEW t \in HandlerThreads, SignalArrives(t) PROVE FdInv'
  BY Zenon, <1>15 DEF SignalArrives, Running
<1> QED
  BY Zenon, <1>1, <1>2, <1>3, <1>4, <1>5, <1>6, <1>7, <1>8, <1>9, <1>10, <1>11, <1>12,
     <1>13, <1>14, <1>15
     DEF Next, CollectorStep, CallbackStep

\* No step loses a wake-up.
LEMMA WakeStep ==
  TypeOK /\ FdInv /\ WakeInv /\ [Next]_vars => WakeInv'
<1> SUFFICES ASSUME TypeOK, FdInv, WakeInv, [Next]_vars PROVE WakeInv'
  OBVIOUS
<1>0. HasEventFd => wakeup_fd \in {"empty", "readable", "closed"}
  BY DEF TypeOK
<1> USE <1>0, ConstantsAssumption
<1> USE DEF CollectorRuns, FdInv, WakeInv
<1>1. CASE CycleBegin \/ TakeRauc \/ CollectUpdate \/ TakeAck
  BY Zenon, <1>1 DEF CycleBegin, TakeRauc, CollectUpdate, TakeAck
<1>2. CASE CrashScan \/ CrashReadAck
  BY Zenon, <1>2 DEF CrashScan, CrashReadAck
<1>3. CASE WriteSnapshot \/ Publish \/ Push
  BY Zenon, <1>3 DEF WriteSnapshot, Publish, Push
<1>4. CASE Ready \/ LoopCheck \/ PollReadable \/ PollTimeout \/ Drain \/ Woken
  BY Zenon, <1>4 DEF Ready, LoopCheck, RequestShutdown, Written, PollReadable,
      PollTimeout, Drain, Woken
<1>5. CASE LeaveEventLoop \/ Detach \/ Close
  BY Zenon, <1>5 DEF LeaveEventLoop, Detach, Close
<1>6. CASE TriggerSnapshot \/ RaucCompleted
  BY <1>6 DEF TriggerSnapshot, Dispatch, RaucCompleted
<1>7. CASE AckWrite \/ AckFlag \/ SetTrigger \/ WakeAndReturn
  BY Zenon, <1>7 DEF AckWrite, AckFlag, SetTrigger, WakeAndReturn, Written
<1>8. CASE SignalLoad
  BY <1>8 DEF SignalLoad, Running
<1>9. CASE SignalWrite
  BY Zenon, <1>9 DEF SignalWrite, Running, Written
<1>10. CASE RaucInstalls \/ PstoreChanges \/ Restart
          \/ Stopped \/ UNCHANGED vars
  BY Zenon, <1>10 DEF RaucInstalls, Running, PstoreChanges, Restart, Stopped, vars
<1>11. CASE Kill
  BY Zenon, <1>11 DEF Kill
<1>12. ASSUME NEW fp \in Fingerprints, AcknowledgeCrash(fp) PROVE WakeInv'
  BY Zenon, <1>12 DEF AcknowledgeCrash, Dispatch
<1>13. ASSUME NEW t \in HandlerThreads, SignalArrives(t) PROVE WakeInv'
  BY Zenon, <1>13 DEF SignalArrives, Running
<1> QED
  BY Zenon, <1>1, <1>2, <1>3, <1>4, <1>5, <1>6, <1>7, <1>8, <1>9, <1>10, <1>11, <1>12,
     <1>13
     DEF Next, CollectorStep, CallbackStep

\* No step forgets an installation.
LEMMA UpdateStep ==
  TypeOK /\ UpdateInv /\ [Next]_vars => UpdateInv'
<1> SUFFICES ASSUME TypeOK, UpdateInv, [Next]_vars PROVE UpdateInv'
  OBVIOUS
<1>0. /\ installed \in Nat /\ checked \in Nat /\ signals \in Nat
      /\ due \subseteq Probes
  BY DEF TypeOK
<1> USE <1>0, ConstantsAssumption
<1> USE DEF CollectorRuns, UpdateInv
<1>1. CASE CycleBegin \/ TakeRauc \/ CollectUpdate \/ TakeAck
  <2>1. CASE CycleBegin \/ TakeRauc
    BY <2>1 DEF CycleBegin, TakeRauc
  <2>2. CASE CollectUpdate \/ TakeAck
    BY <2>2 DEF CollectUpdate, TakeAck
  <2> QED
    BY Zenon, <1>1, <2>1, <2>2
<1>2. CASE CrashScan \/ CrashReadAck
  BY Zenon, <1>2 DEF CrashScan, CrashReadAck
<1>3. CASE WriteSnapshot \/ Publish \/ Push
  BY Zenon, <1>3 DEF WriteSnapshot, Publish, Push
<1>4. CASE Ready \/ LoopCheck \/ PollReadable \/ PollTimeout \/ Drain \/ Woken
  BY Zenon, <1>4 DEF Ready, LoopCheck, RequestShutdown, Written, PollReadable,
      PollTimeout, Drain, Woken
<1>5. CASE LeaveEventLoop \/ Detach \/ Close
  BY <1>5 DEF LeaveEventLoop, Detach, Close
<1>6. CASE TriggerSnapshot \/ RaucCompleted
  BY <1>6 DEF TriggerSnapshot, Dispatch, RaucCompleted
<1>7. CASE AckWrite \/ AckFlag \/ SetTrigger \/ WakeAndReturn
  BY Zenon, <1>7 DEF AckWrite, AckFlag, SetTrigger, WakeAndReturn, Written
<1>8. CASE SignalLoad \/ SignalWrite
  BY <1>8 DEF SignalLoad, Running, SignalWrite, Written
<1>9. CASE RaucInstalls
  BY <1>9 DEF RaucInstalls, Running, Probes
<1>10. CASE PstoreChanges \/ Restart \/ Stopped \/ UNCHANGED vars
  BY Zenon, <1>10 DEF PstoreChanges, Restart, Stopped, vars
<1>11. CASE Kill
  BY <1>11 DEF Kill, Probes
<1>12. ASSUME NEW fp \in Fingerprints, AcknowledgeCrash(fp) PROVE UpdateInv'
  BY <1>12 DEF AcknowledgeCrash, Dispatch
<1>13. ASSUME NEW t \in HandlerThreads, SignalArrives(t) PROVE UpdateInv'
  BY <1>13 DEF SignalArrives, Running
<1> QED
  BY Zenon, <1>1, <1>2, <1>3, <1>4, <1>5, <1>6, <1>7, <1>8, <1>9, <1>10, <1>11, <1>12,
     <1>13
     DEF Next, CollectorStep, CallbackStep

\* No step loses an acknowledgement.
LEMMA AckStep ==
  TypeOK /\ AckInv /\ [Next]_vars => AckInv'
<1> SUFFICES ASSUME TypeOK, AckInv, [Next]_vars PROVE AckInv'
  OBVIOUS
<1>0. darg \in OptFp /\ confirmed \in OptFp /\ crash_ack_pending \in BOOLEAN
  BY DEF TypeOK
<1> USE <1>0, ConstantsAssumption
<1> USE DEF CollectorRuns, AckInv
<1>1. CASE CycleBegin \/ TakeRauc \/ CollectUpdate \/ TakeAck
  BY Zenon, <1>1 DEF CycleBegin, TakeRauc, CollectUpdate, TakeAck
<1>2. CASE CrashScan
  <2>1. NoCrash.fp = NoFp
    BY DEF NoCrash
  <2>2. CASE crash' = NoCrash
    BY Zenon, <1>2, <2>1, <2>2 DEF CrashScan
  <2>3. CASE UNCHANGED <<crash, due>>
    BY Zenon, <1>2, <2>3 DEF CrashScan
  <2> QED
    BY Zenon, <1>2, <2>2, <2>3 DEF CrashScan
<1>3. CASE CrashReadAck
  BY Zenon, <1>3 DEF CrashReadAck
<1>4. CASE WriteSnapshot \/ Publish \/ Push
  BY Zenon, <1>4 DEF WriteSnapshot, Publish, Push
<1>5. CASE Ready \/ LoopCheck \/ PollReadable \/ PollTimeout \/ Drain \/ Woken
  BY Zenon, <1>5 DEF Ready, LoopCheck, RequestShutdown, Written, PollReadable,
      PollTimeout, Drain, Woken
<1>6. CASE LeaveEventLoop \/ Detach \/ Close
  BY Zenon, <1>6 DEF LeaveEventLoop, Detach, Close
<1>7. CASE TriggerSnapshot \/ RaucCompleted
  BY Zenon, <1>7 DEF TriggerSnapshot, Dispatch, RaucCompleted
<1>8. CASE AckWrite
  BY Zenon, <1>8 DEF AckWrite
<1>9. CASE WakeAndReturn
  BY Zenon, <1>9 DEF WakeAndReturn, Written
<1>10. CASE AckFlag \/ SetTrigger
  BY Zenon, <1>10 DEF AckFlag, SetTrigger
<1>11. CASE SignalLoad \/ SignalWrite
  BY <1>11 DEF SignalLoad, Running, SignalWrite, Written
<1>12. CASE RaucInstalls \/ PstoreChanges \/ Restart
          \/ Stopped \/ UNCHANGED vars
  BY Zenon, <1>12 DEF RaucInstalls, Running, PstoreChanges, Restart, Stopped, vars
<1>13. CASE Kill
  BY Zenon, <1>13 DEF Kill, Probes
<1>14. ASSUME NEW fp \in Fingerprints, AcknowledgeCrash(fp) PROVE AckInv'
  BY Zenon, <1>14 DEF AcknowledgeCrash, Dispatch
<1>15. ASSUME NEW t \in HandlerThreads, SignalArrives(t) PROVE AckInv'
  BY Zenon, <1>15 DEF SignalArrives, Running
<1> QED
  BY Zenon, <1>1, <1>2, <1>3, <1>4, <1>5, <1>6, <1>7, <1>8, <1>9, <1>10, <1>11, <1>12,
     <1>13, <1>14, <1>15
     DEF Next, CollectorStep, CallbackStep

\* No step acknowledges a panic that was not shown.
LEMMA ShownStep ==
  TypeOK /\ ShownInv /\ [Next]_vars => ShownInv'
<1> SUFFICES ASSUME TypeOK, ShownInv, [Next]_vars PROVE ShownInv'
  OBVIOUS
<1>0. pc = "crash_ack" => scan.fp # NoFp
  BY DEF TypeOK
<1> USE <1>0, ConstantsAssumption
<1> USE DEF CollectorRuns, ShownInv, AckedOnlyIfShown
<1>1. CASE CycleBegin \/ TakeRauc \/ CollectUpdate \/ TakeAck
  BY Zenon, <1>1 DEF CycleBegin, TakeRauc, CollectUpdate, TakeAck
<1>2. CASE CrashScan
  <2>1. crash' \in {crash, NoCrash} /\ ~NoCrash.acked
    BY Zenon, <1>2 DEF CrashScan, NoCrash
  <2>2. crash'.acked => crash'.fp \in shown
    BY Zenon, <2>1
  <2>3. UNCHANGED <<state, file, ack_file, current_panic_fingerprint, darg, shown>>
    BY Zenon, <1>2 DEF CrashScan
  <2> QED
    BY Zenon, <2>2, <2>3
<1>3. CASE CrashReadAck
  <2>1. crash'.acked => crash'.fp \in shown
    BY Zenon, <1>3 DEF CrashReadAck
  <2>2. UNCHANGED <<state, file, ack_file, current_panic_fingerprint, darg, shown>>
    BY Zenon, <1>3 DEF CrashReadAck
  <2> QED
    BY <2>1, <2>2
<1>4. CASE WriteSnapshot
  <2>1. file' \in {file, Aggregate(other, crash)}
    BY Zenon, <1>4 DEF WriteSnapshot
  <2>2. Aggregate(other, crash).crash = crash
    BY Zenon DEF Aggregate
  <2>3. file'.crash.acked => file'.crash.fp \in shown
    BY Zenon, <2>1, <2>2
  <2>4. UNCHANGED <<crash, state, ack_file, current_panic_fingerprint, darg, shown>>
    BY Zenon, <1>4 DEF WriteSnapshot
  <2> QED
    BY Zenon, <2>3, <2>4
<1>5. CASE Publish
  <2>1. state'.crash = crash
    BY Zenon, <1>5 DEF Publish, Aggregate
  <2>2. /\ shown' = shown \cup ({crash.fp} \ {NoFp})
        /\ current_panic_fingerprint' = crash.fp
        /\ UNCHANGED <<crash, file, ack_file, darg>>
    BY Zenon, <1>5 DEF Publish
  <2> QED
    BY Zenon, <2>1, <2>2
<1>6. CASE Push
  BY Zenon, <1>6 DEF Push
<1>7. CASE Ready \/ LoopCheck \/ PollReadable \/ PollTimeout \/ Drain \/ Woken
  BY Zenon, <1>7 DEF Ready, LoopCheck, RequestShutdown, Written, PollReadable,
      PollTimeout, Drain, Woken
<1>8. CASE LeaveEventLoop \/ Detach \/ Close
  BY Zenon, <1>8 DEF LeaveEventLoop, Detach, Close
<1>9. CASE TriggerSnapshot \/ RaucCompleted
  BY Zenon, <1>9 DEF TriggerSnapshot, Dispatch, RaucCompleted
<1>10. CASE AckWrite \/ AckFlag \/ SetTrigger \/ WakeAndReturn
  BY Zenon, <1>10 DEF AckWrite, AckFlag, SetTrigger, WakeAndReturn, Written
<1>11. CASE SignalLoad \/ SignalWrite
  BY <1>11 DEF SignalLoad, Running, SignalWrite, Written
<1>12. CASE RaucInstalls \/ PstoreChanges \/ Restart
          \/ Stopped \/ UNCHANGED vars
  BY Zenon, <1>12 DEF RaucInstalls, Running, PstoreChanges, Restart, Stopped, vars
<1>13. CASE Kill
  <2>1. ~crash'.acked /\ ~state'.crash.acked
    BY Zenon, <1>13 DEF Kill, NoCrash, NoSnapshot
  <2>2. /\ current_panic_fingerprint' = NoFp /\ darg' = NoFp
        /\ UNCHANGED <<file, ack_file, shown>>
    BY Zenon, <1>13 DEF Kill
  <2> QED
    BY Zenon, <2>1, <2>2
<1>14. ASSUME NEW fp \in Fingerprints, AcknowledgeCrash(fp) PROVE ShownInv'
  BY Zenon, <1>14 DEF AcknowledgeCrash, Dispatch
<1>15. ASSUME NEW t \in HandlerThreads, SignalArrives(t) PROVE ShownInv'
  BY Zenon, <1>15 DEF SignalArrives, Running
<1> QED
  BY Zenon, <1>1, <1>2, <1>3, <1>4, <1>5, <1>6, <1>7, <1>8, <1>9, <1>10, <1>11, <1>12,
     <1>13, <1>14, <1>15
     DEF Next, CollectorStep, CallbackStep

\* The published copies stay in step.
LEMMA PublishStep ==
  PublishInv /\ [Next]_vars => PublishInv'
<1> SUFFICES ASSUME PublishInv, [Next]_vars PROVE PublishInv'
  OBVIOUS
<1> USE ConstantsAssumption
<1> USE DEF CollectorRuns, PublishInv
<1>1. CASE CycleBegin \/ TakeRauc \/ CollectUpdate \/ TakeAck
  BY Zenon, <1>1 DEF CycleBegin, TakeRauc, CollectUpdate, TakeAck
<1>2. CASE CrashScan \/ CrashReadAck
  BY Zenon, <1>2 DEF CrashScan, CrashReadAck
<1>3. CASE Publish
  BY Zenon, <1>3 DEF Publish, Aggregate
<1>4. CASE Push
  BY Zenon, <1>4 DEF Push, Latch
<1>5. CASE WriteSnapshot
  BY <1>5 DEF WriteSnapshot
<1>6. CASE Ready \/ LoopCheck \/ PollReadable \/ PollTimeout \/ Drain \/ Woken
  BY Zenon, <1>6 DEF Ready, LoopCheck, RequestShutdown, Written, PollReadable,
      PollTimeout, Drain, Woken
<1>7. CASE LeaveEventLoop \/ Detach \/ Close
  BY Zenon, <1>7 DEF LeaveEventLoop, Detach, Close
<1>8. CASE TriggerSnapshot \/ RaucCompleted
  BY Zenon, <1>8 DEF TriggerSnapshot, Dispatch, RaucCompleted
<1>9. CASE AckWrite \/ AckFlag \/ SetTrigger \/ WakeAndReturn
  BY Zenon, <1>9 DEF AckWrite, AckFlag, SetTrigger, WakeAndReturn, Written
<1>10. CASE SignalLoad \/ SignalWrite
  BY <1>10 DEF SignalLoad, Running, SignalWrite, Written
<1>11. CASE RaucInstalls \/ PstoreChanges \/ Restart
          \/ Stopped \/ UNCHANGED vars
  BY Zenon, <1>11 DEF RaucInstalls, Running, PstoreChanges, Restart, Stopped, vars
<1>12. CASE Kill
  BY Zenon, <1>12 DEF Kill, NoCrash, NoSnapshot, Latch, ActivePanic
<1>13. ASSUME NEW fp \in Fingerprints, AcknowledgeCrash(fp) PROVE PublishInv'
  BY Zenon, <1>13 DEF AcknowledgeCrash, Dispatch
<1>14. ASSUME NEW t \in HandlerThreads, SignalArrives(t) PROVE PublishInv'
  BY Zenon, <1>14 DEF SignalArrives, Running
<1> QED
  BY Zenon, <1>1, <1>2, <1>3, <1>4, <1>5, <1>6, <1>7, <1>8, <1>9, <1>10, <1>11, <1>12,
     <1>13, <1>14
     DEF Next, CollectorStep, CallbackStep
-----------------------------------------------------------------------------
(* The inductive invariant and what it implies.                            *)

IInv == TypeOK /\ FdInv /\ WakeInv /\ UpdateInv /\ AckInv /\ ShownInv /\ PublishInv

\* A daemon that enters run() satisfies the invariant.
LEMMA IInvInit == Init => IInv
<1> SUFFICES ASSUME Init PROVE IInv
  OBVIOUS
<1> USE ConstantsAssumption DEF Init
<1>1. TypeOK
  BY Zenon, TypeInit
<1>2. FdInv
  BY DEF FdInv
<1>3. WakeInv
  BY Zenon DEF WakeInv
<1>4. UpdateInv
  BY Zenon DEF UpdateInv
<1>5. AckInv
  BY Zenon DEF AckInv
<1>6. ShownInv
  BY SMTT(60) DEF ShownInv, AckedOnlyIfShown, NoCrash, NoSnapshot
<1>7. PublishInv
  BY Zenon DEF PublishInv, Latch, ActivePanic, NoCrash, NoSnapshot
<1> QED
  BY <1>1, <1>2, <1>3, <1>4, <1>5, <1>6, <1>7 DEF IInv

\* Every step preserves it.
LEMMA IInvStep == IInv /\ [Next]_vars => IInv'
BY TypeStep, FdStep, WakeStep, UpdateStep, AckStep, ShownStep, PublishStep DEF IInv

\* The invariant holds throughout.
LEMMA IInvAlways == Spec => []IInv
BY IInvInit, IInvStep, PTL DEF Spec

\* A trigger, a RAUC signal, a crash acknowledgement or a shutdown signal never
\* leaves run() asleep in poll() with an empty eventfd.
THEOREM NoWakeupIsLost == Spec => []NoLostWakeup
<1>1. IInv => NoLostWakeup
  BY DEF IInv, WakeInv, NoLostWakeup
<1> QED
  BY <1>1, IInvAlways, PTL

\* Every RAUC installation the update probe has not looked at is on its way to
\* it, whatever the order of signals, exchanges, collections and restarts.
THEOREM NoUpdateIsLost == Spec => []NoLostUpdate
<1>1. IInv => NoLostUpdate
  BY DEF IInv, UpdateInv, NoLostUpdate, Running
<1> QED
  BY <1>1, IInvAlways, PTL

\* An acknowledgement answered true is applied by a crash probe run to come
\* unless it already was.
THEOREM NoAckIsLost == Spec => []NoLostAck
<1>1. IInv => NoLostAck
  BY Zenon DEF IInv, AckInv, NoLostAck, TypeOK, OptFp
<1> QED
  BY <1>1, IInvAlways, PTL

\* No snapshot shows a panic as acknowledged that was never published.
THEOREM NoAckBeforeShown == Spec => []AckedOnlyIfShown
<1>1. IInv => AckedOnlyIfShown
  BY DEF IInv, ShownInv
<1> QED
  BY <1>1, IInvAlways, PTL

\* Between cycles bus, latch and acknowledgeable fingerprint agree.
THEOREM PublicationIsConsistent == Spec => []PublishedTogether
<1>1. IInv => PublishedTogether
  BY DEF IInv, PublishInv, PublishedTogether, Latch, LoopPcs
<1> QED
  BY <1>1, IInvAlways, PTL

\* Neither a callback nor a handler on the collection thread writes to the
\* eventfd after the destructor closed it.
THEOREM ClosedFdIsLeftAlone == Spec => []NoWriteAfterClose
<1>1. IInv => NoWriteAfterClose
  BY DEF IInv, FdInv, NoWriteAfterClose
<1> QED
  BY <1>1, IInvAlways, PTL
-----------------------------------------------------------------------------
(* The alarms, as properties of the push step.                             *)

\* Only Push, or the death of the process, takes collection_cycle past its
\* push to the bus.
LEMMA OnlyPushLeavesPush ==
  ASSUME [Next]_vars, pc = "push", pc' \notin {"push", "down"}
  PROVE  Push
<1>1. \/ Push
      \/ pc' = pc
      \/ pc' = "down"
  <2>1. CASE CollectorStep
    BY Zenon, <2>1 DEF CollectorStep, CollectorRuns, CycleBegin, TakeRauc, CollectUpdate,
        TakeAck, CrashScan, CrashReadAck, WriteSnapshot, Publish, Ready, LoopCheck,
        PollReadable, Drain, Woken, LeaveEventLoop, Detach, Close
  <2>2. CASE PollTimeout
    BY <2>2 DEF PollTimeout, CollectorRuns
  <2>3. CASE TriggerSnapshot \/ RaucCompleted \/ CallbackStep
    BY Zenon, <2>3 DEF TriggerSnapshot, RaucCompleted, CallbackStep, AckWrite, AckFlag,
        SetTrigger, WakeAndReturn
  <2>4. CASE \E fp \in Fingerprints : AcknowledgeCrash(fp)
    BY <2>4 DEF AcknowledgeCrash
  <2>5. CASE (\E t \in HandlerThreads : SignalArrives(t)) \/ SignalLoad \/ SignalWrite
    BY <2>5 DEF SignalArrives, SignalLoad, SignalWrite
  <2>6. CASE RaucInstalls \/ PstoreChanges \/ Kill \/ Restart \/ Stopped
    BY Zenon, <2>6 DEF RaucInstalls, PstoreChanges, Kill, Restart, Stopped, vars
  <2>7. CASE UNCHANGED vars
    BY <2>7 DEF vars
  <2> QED
    BY <2>1, <2>2, <2>3, <2>4, <2>5, <2>6, <2>7 DEF Next
<1> QED
  BY <1>1

\* HealthAlarm("crash") is emitted exactly for a newly active panic.
THEOREM CrashAlarmIsExact == Spec => CrashAlarmOnNewPanic
<1>1. ASSUME IInv, [Next]_vars, HasBus, pc = "push", pc' # "down", pc' # "push"
      PROVE  alarms'.crash = IF ActivePanic(state.crash)
                                  /\ ~(ActivePanic(pushed) /\ pushed.fp = state.crash.fp)
                               THEN state.crash.fp ELSE NoFp
  <2>1. Push
    BY <1>1, OnlyPushLeavesPush
  <2>2. last_alarmed_crash_fp = Latch(pushed)
    BY <1>1 DEF IInv, PublishInv
  <2>3. alarms'.crash = IF ActivePanic(state.crash)
                             /\ last_alarmed_crash_fp # state.crash.fp
                          THEN state.crash.fp ELSE NoFp
    BY SMTT(60), <1>1, <2>1 DEF Push
  <2>4. ActivePanic(state.crash) => state.crash.fp # NoFp
    BY DEF ActivePanic
  <2> QED
    BY <2>2, <2>3, <2>4 DEF Latch
<1>2. IInv /\ [Next]_vars =>
        [HasBus /\ pc = "push" /\ pc' # "down" /\ pc' # "push" =>
           alarms'.crash = IF ActivePanic(state.crash)
                                /\ ~(ActivePanic(pushed) /\ pushed.fp = state.crash.fp)
                             THEN state.crash.fp ELSE NoFp]_vars
  BY Zenon, <1>1
<1> QED
  BY <1>2, IInvAlways, PTL DEF Spec, CrashAlarmOnNewPanic

\* HealthAlarm("overall") is emitted exactly when OverallSeverity gets worse.
THEOREM OverallAlarmIsExact == Spec => OverallAlarmOnDegradation
<1>1. ASSUME IInv, [Next]_vars, HasBus, pc = "push", pc' # "down", pc' # "push"
      PROVE  alarms'.overall = IF Rank[severity_str'] > Rank[severity_str]
                                 THEN severity_str' ELSE "none"
  <2>1. Push
    BY <1>1, OnlyPushLeavesPush
  <2>2. severity_str = prev_sev
    BY <1>1 DEF IInv, PublishInv
  <2> QED
    BY SMTT(60), <1>1, <2>1, <2>2 DEF Push, OverallAlarm, is_degradation
<1>2. IInv /\ [Next]_vars =>
        [HasBus /\ pc = "push" /\ pc' # "down" /\ pc' # "push" =>
           alarms'.overall = IF Rank[severity_str'] > Rank[severity_str]
                               THEN severity_str' ELSE "none"]_vars
  BY <1>1
<1> QED
  BY <1>2, IInvAlways, PTL DEF Spec, OverallAlarmOnDegradation

\* A daemon that is down has no shutdown signal: systemd starts it without.
DownInv == pc = "down" => ~g_shutdown_signal

\* Only a kill takes the daemon down, and it clears the flag with the memory.
LEMMA DownStep == DownInv /\ [Next]_vars => DownInv'
<1> SUFFICES ASSUME DownInv, [Next]_vars PROVE DownInv'
  OBVIOUS
<1> USE DEF DownInv
<1>1. CASE CycleBegin \/ TakeRauc \/ CollectUpdate \/ TakeAck \/ CrashScan \/ CrashReadAck
  BY Zenon, <1>1 DEF CycleBegin, TakeRauc, CollectUpdate, TakeAck, CrashScan, CrashReadAck
<1>2. CASE WriteSnapshot \/ Publish \/ Push \/ Ready \/ LoopCheck
  BY Zenon, <1>2 DEF WriteSnapshot, Publish, Push, Ready, LoopCheck, RequestShutdown
<1>3. CASE PollReadable \/ PollTimeout \/ Drain \/ Woken \/ LeaveEventLoop \/ Detach \/ Close
  BY Zenon, <1>3
  DEF PollReadable, PollTimeout, Drain, Woken, LeaveEventLoop, Detach, Close, RequestShutdown
<1>4. CASE TriggerSnapshot \/ RaucCompleted \/ CallbackStep
  BY Zenon, <1>4
  DEF TriggerSnapshot, RaucCompleted, CallbackStep, AckWrite, AckFlag, SetTrigger,
      WakeAndReturn
<1>5. CASE \E fp \in Fingerprints : AcknowledgeCrash(fp)
  BY <1>5 DEF AcknowledgeCrash
<1>6. CASE (\E t \in HandlerThreads : SignalArrives(t)) \/ SignalLoad \/ SignalWrite
  <2>1. Running /\ UNCHANGED pc
    BY Zenon, <1>6 DEF SignalArrives, SignalLoad, SignalWrite
  <2> QED BY Zenon, <2>1 DEF Running
<1>7. CASE RaucInstalls \/ PstoreChanges \/ Kill \/ Restart \/ Stopped
  BY Zenon, <1>7 DEF RaucInstalls, PstoreChanges, Kill, Restart, Stopped, vars
<1>8. CASE UNCHANGED vars
  BY Zenon, <1>8 DEF vars
<1> QED
  BY <1>1, <1>2, <1>3, <1>4, <1>5, <1>6, <1>7, <1>8 DEF Next, CollectorStep

\* After SIGTERM the collection thread takes at most StepsLeft more steps to
\* its end, and begins no cycle it has not already decided on.
THEOREM ShutdownIsAdvancing == Spec => ShutdownAdvances
<1>1. ASSUME TypeOK, DownInv, [Next]_vars, g_shutdown_signal
      PROVE  UNCHANGED pc \/ StepsLeft[pc'] < StepsLeft[pc]
  <2>0. /\ StepsLeft["cycle"] = 17 /\ StepsLeft["rauc"] = 16 /\ StepsLeft["update"] = 15
        /\ StepsLeft["ack"] = 14 /\ StepsLeft["crash_scan"] = 13
        /\ StepsLeft["crash_ack"] = 12 /\ StepsLeft["write"] = 11
        /\ StepsLeft["publish"] = 10 /\ StepsLeft["push"] = 9 /\ StepsLeft["ready"] = 8
        /\ StepsLeft["loop"] = 7 /\ StepsLeft["wait"] = 6 /\ StepsLeft["drain"] = 5
        /\ StepsLeft["woken"] = 4 /\ StepsLeft["leave"] = 3 /\ StepsLeft["detach"] = 2
        /\ StepsLeft["close"] = 1 /\ StepsLeft["stopped"] = 0 /\ StepsLeft["down"] = 0
    BY Zenon DEF StepsLeft
  <2>1. CASE CycleBegin \/ TakeRauc \/ CollectUpdate \/ TakeAck \/ CrashScan \/ CrashReadAck
    <3>1. \/ pc = "cycle" /\ pc' = "rauc"
          \/ pc = "rauc" /\ pc' = "update"
          \/ pc = "update" /\ pc' = "ack"
          \/ pc = "ack" /\ pc' = "crash_scan"
          \/ pc = "crash_scan" /\ pc' \in {"write", "crash_ack"}
          \/ pc = "crash_ack" /\ pc' = "write"
      BY Zenon, <2>1
      DEF CycleBegin, TakeRauc, CollectUpdate, TakeAck, CrashScan, CrashReadAck, CollectorRuns
    <3> QED BY <2>0, <3>1
  <2>2. CASE WriteSnapshot \/ Publish \/ Push \/ Ready \/ LoopCheck
    <3>1. \/ pc = "write" /\ pc' = "publish"
          \/ pc = "publish" /\ pc' = "push"
          \/ pc = "push" /\ pc' \in {"loop", "ready"}
          \/ pc = "ready" /\ pc' = "loop"
          \/ pc = "loop" /\ pc' = "leave"
      BY Zenon, <1>1, <2>2
      DEF WriteSnapshot, Publish, Push, Ready, LoopCheck, RequestShutdown, CollectorRuns
    <3> QED BY <2>0, <3>1
  <2>3. CASE PollReadable \/ PollTimeout \/ Drain \/ Woken \/ LeaveEventLoop \/ Detach \/ Close
    <3>1. \/ pc = "wait" /\ pc' \in {"drain", "woken"}
          \/ pc = "drain" /\ pc' = "woken"
          \/ pc = "woken" /\ pc' = "leave"
          \/ pc = "leave" /\ pc' = "detach"
          \/ pc = "detach" /\ pc' = "close"
          \/ pc = "close" /\ pc' = "stopped"
      BY Zenon, <1>1, <2>3
      DEF PollReadable, PollTimeout, Drain, Woken, LeaveEventLoop, Detach, Close,
          RequestShutdown, CollectorRuns
    <3> QED BY <2>0, <3>1
  <2>4. CASE TriggerSnapshot \/ RaucCompleted \/ CallbackStep
    BY Zenon, <2>4
    DEF TriggerSnapshot, RaucCompleted, CallbackStep, AckWrite, AckFlag, SetTrigger,
        WakeAndReturn
  <2>5. CASE \E fp \in Fingerprints : AcknowledgeCrash(fp)
    BY Zenon, <2>5 DEF AcknowledgeCrash
  <2>6. CASE (\E t \in HandlerThreads : SignalArrives(t)) \/ SignalLoad \/ SignalWrite
    BY Zenon, <2>6 DEF SignalArrives, SignalLoad, SignalWrite
  <2>7. CASE RaucInstalls \/ PstoreChanges \/ Restart \/ Stopped
    BY Zenon, <1>1, <2>7
    DEF DownInv, RaucInstalls, PstoreChanges, Restart, Stopped, vars
  <2>8. CASE Kill
    <3>1. /\ pc \in CyclePcs \cup LoopPcs \cup {"leave", "detach", "close", "ready"}
          /\ pc' = "down"
      BY Zenon, <1>1, <2>8 DEF TypeOK, ExitPcs, Kill, Running
    <3> QED BY <2>0, <3>1 DEF CyclePcs, LoopPcs
  <2>9. CASE UNCHANGED vars
    BY Zenon, <2>9 DEF vars
  <2> QED
    BY <1>1, <2>1, <2>2, <2>3, <2>4, <2>5, <2>6, <2>7, <2>8, <2>9 DEF Next, CollectorStep
<1>2. Init => DownInv
  BY DEF Init, DownInv
<1>3. TypeOK /\ DownInv /\ [Next]_vars =>
        [g_shutdown_signal => UNCHANGED pc \/ StepsLeft[pc'] < StepsLeft[pc]]_vars
  BY Zenon, <1>1
<1> QED
  BY <1>2, <1>3, DownStep, TypeCorrect, PTL DEF Spec, ShutdownAdvances
=============================================================================
