\* Nine units of time for the schedule.  WatchdogSec is six units, looked at
\* every three or four; the wait alone is as long as the watchdog thread allows
\* for, well beyond the half of WatchdogSec from which the daemon warns.
CONSTANTS
  NumProbes = 3
  Interval <- MCInterval
  CanFail = {2}
  Forcible = {3}
  CollectInterval = 2
  TriggerMinInterval = 2
  MinGrace = 1
  MaxCycle = 1
  MaxForces = 1
  MaxTime = 9
  WatchdogSec = 6
  WaitInterval = 5
  Jitter = 1
  MaxWatch = 26
SPECIFICATION TimingSpec
INVARIANTS
  StaleMeansFailing
  AgeBound
  ForcedIsPrompt
  CyclesBounded
  KilledOnlyIfHung
  HungIsKilled
