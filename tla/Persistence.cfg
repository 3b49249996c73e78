\* Two writers of one file; the daemon alone over five boots, with failing
\* saves.
CONSTANTS
  Procs = {p1, p2}
  Values = {v1, v2}
  Inodes = {i1, i2, i3}
  Blocks = 1
  Target = Target
  None = None
  NoValue = NoValue
  Partial = Partial
  Onces = {}
  daemon = daemon
  SaveOutcomes = {"ok", "failed", "unsynced"}
  MaxBoots = 5
SPECIFICATION PersistenceSpec
SYMMETRY FileSymmetry
INVARIANTS
  NeverOvercounts
  NeverUndercounts
  SuccessSticks
PROPERTIES
  ImplementsRegister
