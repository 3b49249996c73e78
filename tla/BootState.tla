----------------------------- MODULE BootState -----------------------------
(***************************************************************************)
(* The boot-failure ratchet: BootProbe (src/probes.cpp) and its file       *)
(* boot_state.json, over boots that succeed or not.  The daemon collects   *)
(* in every cycle and calls mark_boot_success after READY; it can be       *)
(* killed and restarted within a boot; an edge-healthd --once beside it    *)
(* collects as well.  The file is an atomic register (AtomicRegister): a   *)
(* save that returns success is durable, one that fails may have replaced  *)
(* the file or not, for readers only or on the disk as well.               *)
(***************************************************************************)
EXTENDS Integers

CONSTANTS
  Onces,         \* edge-healthd --once processes
  daemon,        \* the daemon process
  SaveOutcomes,  \* subset of {"ok", "failed", "unsynced"}
  MaxBoots       \* bound on the number of boots (for TLC)

Processes == Onces \cup {daemon}

ASSUME BootAssumption ==
  /\ daemon \notin Onces
  /\ SaveOutcomes \subseteq {"ok", "failed", "unsynced"}
  /\ MaxBoots \in Nat

VARIABLES
  boot,           \* number of the current boot; stands for its boot id
  place, st,      \* place and BootState local of each process
  ready,          \* the running daemon has sent READY=1
  file, stable,   \* boot_state.json as processes see it, and on the disk
  report,         \* boot_fail_count of the last BootStatus, -1: none this boot
  \* history
  most,           \* boots before this one, since the last success that was
                  \*   saved, in which a save was tried
  tried,          \* a save was tried in this boot, and no success saved
  least,          \* boots before this one, since the last one that got to
                  \*   mark_boot_success, in which a save succeeded
  saved,          \* that holds of this boot
  marked          \* a success of this boot was saved

history == <<most, tried, least, saved, marked>>
bootVars == <<boot, place, st, ready, file, stable, report, history>>

\* BootState{}, also what a missing file yields; id 0 is the empty string
Fresh == [id |-> 0, fails |-> 0, ok |-> TRUE]

BootInit ==
  /\ boot = 1
  /\ place = [p \in Processes |-> "down"] /\ st = [p \in Processes |-> Fresh]
  /\ ready = FALSE
  /\ file = Fresh /\ stable = Fresh
  /\ report = -1
  /\ most = 0 /\ tried = FALSE
  /\ least = 0 /\ saved = FALSE
  /\ marked = FALSE

Move(p, l, s) ==
  /\ place' = [place EXCEPT ![p] = l]
  /\ st' = [st EXCEPT ![p] = s]

\* Where a process goes when BootProbe::collect has returned: the daemon's
\* first cycle ends in READY and mark_boot_success, --once exits.
AfterCollect(p) ==
  IF p # daemon THEN "down" ELSE IF ready THEN "loop" ELSE "mark"
-----------------------------------------------------------------------------
Start(p) ==
  /\ place[p] = "down"
  /\ Move(p, "collect", Fresh)
  /\ ready' = (ready /\ p # daemon)
  /\ UNCHANGED <<boot, file, stable, report, history>>

\* Mutant: a boot counts even if it was marked.
AdvancedUnconditionally(s) ==
  [id |-> boot, fails |-> IF s.id # 0 THEN s.fails + 1 ELSE s.fails, ok |-> FALSE]

\* Mutant: last_boot_ok is not cleared for the new boot.
AdvancedStaysOk(s) ==
  [id |-> boot,
   fails |-> IF s.id # 0 /\ ~s.ok THEN s.fails + 1 ELSE s.fails,
   ok |-> s.ok]

\* What collect makes of a state it loads: the first look at a new boot
\* counts the boot before, unless that was marked.
Advanced(s) ==
  [id |-> boot,
   fails |-> IF s.id # 0 /\ ~s.ok THEN s.fails + 1 ELSE s.fails,
   ok |-> FALSE]

\* Mutant: every collection is taken for the first of a boot.
CollectAsNewBoot(p) ==
  /\ place[p] = "collect"
  /\ Move(p, "save", Advanced(file))
  /\ UNCHANGED <<boot, report, ready, file, stable, history>>

\* BootProbe::collect up to save_boot_state
Collect(p) ==
  /\ place[p] = "collect"
  /\ \/ /\ file.id # boot
        /\ Move(p, "save", Advanced(file))
        /\ UNCHANGED report
     \/ /\ file.id = boot
        /\ report' = file.fails
        /\ Move(p, AfterCollect(p), Fresh)
  /\ UNCHANGED <<boot, ready, file, stable, history>>

\* atomic_write_file in save_boot_state; an error is only logged.
Save(p, outcome) ==
  \/ outcome = "ok" /\ file' = st[p] /\ stable' = st[p]
  \/ outcome = "unsynced" /\ file' = st[p] /\ UNCHANGED stable
  \/ outcome = "failed" /\ UNCHANGED <<file, stable>>

\* The save in collect, and its return: the count is reported even if it
\* could not be saved.
SaveCollect(p) ==
  /\ place[p] = "save"
  /\ \E outcome \in SaveOutcomes :
       /\ Save(p, outcome)
       /\ saved' = (saved \/ outcome = "ok")
  /\ tried' = TRUE
  /\ report' = st[p].fails
  /\ Move(p, AfterCollect(p), Fresh)
  /\ UNCHANGED <<boot, ready, most, least, marked>>

\* READY=1, then mark_boot_success up to its save
Mark ==
  /\ place[daemon] = "mark"
  /\ ready' = TRUE
  /\ Move(daemon, "save_mark", [id |-> boot, fails |-> 0, ok |-> TRUE])
  /\ least' = 0 /\ saved' = FALSE
  /\ UNCHANGED <<boot, file, stable, report, most, tried, marked>>

SaveMark ==
  /\ place[daemon] = "save_mark"
  /\ \E outcome \in SaveOutcomes :
       /\ Save(daemon, outcome)
       /\ IF outcome = "ok" THEN most' = 0 /\ tried' = FALSE /\ marked' = TRUE
                            ELSE UNCHANGED <<most, tried, marked>>
  /\ Move(daemon, "loop", Fresh)
  /\ UNCHANGED <<boot, ready, report, least, saved>>

\* The next collection cycle
Cycle ==
  /\ place[daemon] = "loop"
  /\ Move(daemon, "collect", Fresh)
  /\ UNCHANGED <<boot, ready, file, stable, report, history>>

\* A process is killed.
Kill(p) ==
  /\ place[p] # "down"
  /\ Move(p, "down", Fresh)
  /\ UNCHANGED <<boot, ready, file, stable, report, history>>
-----------------------------------------------------------------------------
(* The system around the daemon (external).                                *)

WriteBackBoot ==
  /\ stable' = file
  /\ UNCHANGED <<boot, place, st, ready, file, report, history>>

\* The next boot; what was not written back in time is gone.
Reboot ==
  /\ boot < MaxBoots
  /\ boot' = boot + 1
  /\ place' = [p \in Processes |-> "down"] /\ st' = [p \in Processes |-> Fresh]
  /\ ready' = FALSE
  /\ file' = stable
  /\ report' = -1
  /\ most' = IF tried THEN most + 1 ELSE most
  /\ least' = IF saved THEN least + 1 ELSE least
  /\ tried' = FALSE /\ saved' = FALSE /\ marked' = FALSE
  /\ UNCHANGED stable

BootNext ==
  \/ \E p \in Processes : Start(p) \/ Collect(p) \/ SaveCollect(p) \/ Kill(p)
  \/ Mark \/ SaveMark \/ Cycle \/ WriteBackBoot \/ Reboot

BootSpec == BootInit /\ [][BootNext]_bootVars
-----------------------------------------------------------------------------
(* Properties.                                                             *)

States == [id : 0..boot, fails : Nat, ok : BOOLEAN]

Places == {"down", "collect", "save", "mark", "save_mark", "loop"}

\* Types.
BootTypeOK ==
  /\ boot \in Nat \ {0}
  /\ place \in [Processes -> Places]
  /\ st \in [Processes -> States]
  /\ ready \in BOOLEAN
  /\ file \in States /\ stable \in States
  /\ report \in Nat \cup {-1}
  /\ most \in Nat /\ tried \in BOOLEAN
  /\ least \in Nat /\ saved \in BOOLEAN
  /\ marked \in BOOLEAN

\* The boot_fail_count that collect reports when it loads s
Count(s) == IF s.id = boot THEN s.fails ELSE Advanced(s).fails

\* boot_fail_count never counts a boot twice, nor one that succeeded and got
\* that to the disk, whatever saves fail, however often the daemon is killed
\* and restarted in between, and whether or not the power goes.
NeverOvercounts == Count(file) <= most /\ Count(stable) <= most

\* boot_fail_count does not lose a boot that got to the disk and never came to
\* mark_boot_success: "a silent drop here masks a boot loop".
NeverUndercounts == Count(file) >= least /\ Count(stable) >= least

\* Within a boot the count only changes by being reset: cycles, restarts and
\* saves that failed do not count the boot before once more.
StableWithinBoot ==
  [][boot' = boot /\ report # -1 => report' \in {report, 0}]_bootVars

\* "reset on first successful boot": once mark_boot_success has been saved,
\* the disk says so for the rest of the boot, and no later collection, restart
\* or write-back takes it back.
SuccessSticks ==
  marked => /\ file = [id |-> boot, fails |-> 0, ok |-> TRUE]
            /\ stable = file

\* usage.md: "boot_ok flips to true only after the first successful
\* collection cycle completes and sd_notify(READY=1) has fired".
BootOkOnlyAfterReady == report = 0 => ready
=============================================================================
