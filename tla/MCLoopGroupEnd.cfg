SPECIFICATION Spec
CONSTANTS
  Loops <- MCLoops
  Sessions <- OnlyFilled
  StorageLimit = 4
  Frames = {3}
  MaxSubBlocks = 16
  MaxWaves = 32
  Controlled <- MCLoops
  Commands = {"set_mode", "plan"}
  ModesUsed = {"Playing", "Stopped"}
  Delays = {0}
  Cycles = {}
  Lengths = {}
  MaxCommands = 2
  MaxLength = 6
PROPERTIES EndIsTriggered
