CONSTANTS
  Fingerprints = {f1}
  NoFp = NoFp
  OtherSeverities = {"ok", "warn"}
  HasEventFd = TRUE
  HasBus = TRUE
  HandlerThreads = {}
  WriteOutcomes = {"ok"}
  MaxInstalls = 0
  MaxPstoreChanges = 0
  MaxKills = 0
SPECIFICATION Spec
INVARIANT HealthyBootDoesNotAlarm
