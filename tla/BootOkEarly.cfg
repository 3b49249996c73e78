\* The daemon alone; saves are reliable.
SPECIFICATION BootSpec
CONSTANTS
  Onces = {}
  daemon = daemon
  SaveOutcomes = {"ok"}
  MaxBoots = 2
INVARIANT
  BootOkOnlyAfterReady
