\* An edge-healthd --once beside the daemon; saves are reliable.
SPECIFICATION BootSpec
CONSTANTS
  Onces = {once}
  daemon = daemon
  SaveOutcomes = {"ok"}
  MaxBoots = 3
INVARIANT
  SuccessSticks
