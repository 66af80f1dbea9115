SPECIFICATION Spec
CONSTANTS
  Loops <- MCLoops
  Sessions <- OnlyFilled
  StorageLimit = 4
  Frames = {1, 3}
  MaxSubBlocks = 16
  MaxWaves = 32
  Controlled <- MCFollow
  Commands = {"set_sync_source", "align"}
  ModesUsed = {"Playing"}
  Delays = {0}
  Cycles = {0}
  Lengths = {}
  MaxCommands = 2
  MaxLength = 6
PROPERTIES AlignedToSource
