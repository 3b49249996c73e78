\* The first cycles of a daemon whose memory readings may fail
CONSTANTS
  Units = {"sshd", "nm"}
  Mounts = {"/data"}
  T <- MCT
  enable_ntp = TRUE
  enable_rtc = TRUE
  enable_thermal = TRUE
  enable_update_tracking = TRUE
  Answers <- MCAnswers
  Usual <- MCUsual
  MaxUnusual = 1
SPECIFICATION SnapshotSpec
INVARIANT
  NeverObservedUnknown
