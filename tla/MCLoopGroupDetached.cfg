SPECIFICATION Spec
CONSTANTS
  Loops <- MCLoops
  Sessions <- OnlyRing
  StorageLimit = 4
  Frames = {3}
  MaxSubBlocks = 16
  MaxWaves = 32
  Controlled <- MCLoops
  Commands = {"remove"}
  ModesUsed = {"Playing"}
  Delays = {0}
  Cycles = {}
  Lengths = {}
  MaxCommands = 1
  MaxLength = 6
INVARIANTS DetachedIsUnsynced
