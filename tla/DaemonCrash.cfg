CONSTANTS
  Fingerprints = {f1, f2}
  NoFp = NoFp
  OtherSeverities = {"ok", "warn"}
  HasEventFd = TRUE
  HasBus = TRUE
  HandlerThreads = {}
  WriteOutcomes = {"ok"}
  MaxInstalls = 0
  MaxPstoreChanges = 2
  MaxKills = 1
SPECIFICATION Spec
SYMMETRY FpSymmetry
INVARIANTS
  AckedOnlyIfShown
  NoLostAck
PROPERTIES
  CrashAlarmOnNewPanic
  OverallAlarmOnDegradation
