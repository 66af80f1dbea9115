SPECIFICATION Spec
CONSTANTS
  Loops <- MCLoops
  Sessions <- ChainOrRing
  StorageLimit = 4
  Frames = {3}
  MaxSubBlocks = 2
  MaxWaves = 4
  Controlled <- MCLoops
  Commands = {"set_mode", "plan", "align", "set_length", "clear", "set_sync_source", "remove"}
  ModesUsed = {"Playing", "Recording", "Replacing"}
  Delays = {0, 1}
  Cycles = {1}
  Lengths = {1}
  MaxCommands = 3
  MaxLength = 6
INVARIANTS TriggersReachFollowers WavesSettle
\* The bound on a loop that grows while it replaces stops the driver.
CHECK_DEADLOCK FALSE
