CONSTANTS
  Fingerprints = {f1}
  NoFp = NoFp
  OtherSeverities = {"ok"}
  HasEventFd = TRUE
  HasBus = TRUE
  HandlerThreads = {"collector", "other"}
  WriteOutcomes = {"ok"}
  MaxInstalls = 0
  MaxPstoreChanges = 0
  MaxKills = 0
SPECIFICATION Spec
INVARIANT LateSignalMissesClosedFd
