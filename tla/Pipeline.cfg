\* A journal of seven entries and a buffer of two; two interface names and
\* addresses; two monitored units and one mount with two unusual sections at a
\* time; configuration files with up to two keys; one browser.
CONSTANTS
  Cap = 2
  Priority <- MCPriority
  Realtime <- MCRealtime
  Window = 2
  ErrorPriority = 3
  MaxLines = 1
  Width = 8
  MaxEntries = 7
  MaxFaults = 2
  Names = {eth0, eth1}
  Addrs = {a1, a2}
  NoAddr = NoAddr
  QueueCap = 2
  MaxIndex = 3
  MaxChanges = 3
  Ifaces <- MCIfaces
  FamilyName = "ethtool"
  Supported = {"ethtool", "eth0", "eth1"}
  MaxSeq = 12
  MaxSockFaults = 3
  Units = {"sshd", "nm"}
  Mounts = {"/data"}
  T <- MCT
  enable_ntp = TRUE
  enable_rtc = TRUE
  enable_thermal = TRUE
  enable_update_tracking = TRUE
  Answers <- MCAnswers
  Usual <- MCUsual
  MaxUnusual = 2
  Files <- MCFiles
  Args <- MCArgs
  Lower <- MCLower
  Mod32 = 1048576
  Mod64 = 16777216
  MaxStarts = 2
  Conns = {1}
  BroadcastCap = 1
  SendCap = 1
  MaxLoads = 2
  MaxWrites = 2
  MaxPolls = 1
  MaxFeedFaults = 1
  Stamps <- MCStamps
SPECIFICATION LivePipeline
CHECK_DEADLOCK FALSE
INVARIANTS
  BufferIsTail
  StatusOfTail
  AddressesTracked
  ReportedByName
  OwnAnswers
  AnswersAll
  LossOfSightSurfaces
  WarmUpSafe
  ReasonsNameDrivers
  DumpReloads
  AllOrNothing
  HubChannelsOpen
  
PROPERTIES
  AgeNeverHeals
  ReaderCatchesUp
  CacheCatchesUp
  
