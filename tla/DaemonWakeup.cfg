CONSTANTS
  Fingerprints = {f1}
  NoFp = NoFp
  OtherSeverities = {"ok"}
  HasEventFd = TRUE
  HasBus = TRUE
  HandlerThreads = {"collector", "other"}
  WriteOutcomes = {"ok", "failed"}
  MaxInstalls = 2
  MaxPstoreChanges = 0
  MaxKills = 1
SPECIFICATION Spec
INVARIANTS
  NoLostWakeup
  NoLostUpdate
  NoWriteAfterClose
