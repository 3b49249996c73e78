CONSTANTS
  Fingerprints = {f1}
  NoFp = NoFp
  OtherSeverities = {"ok"}
  HasEventFd = FALSE
  HasBus = TRUE
  HandlerThreads = {"other"}
  WriteOutcomes = {"ok"}
  MaxInstalls = 1
  MaxPstoreChanges = 0
  MaxKills = 1
SPECIFICATION TimeoutLiveSpec
PROPERTIES
  ShutdownCompletes
  UpdateReflected
