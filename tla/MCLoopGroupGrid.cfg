SPECIFICATION Spec
CONSTANTS
  Loops <- MCLoops
  Sessions <- OnlyEmpty
  StorageLimit = 4
  Frames = {1, 3}
  MaxSubBlocks = 16
  MaxWaves = 32
  Controlled <- MCFollow
  Commands = {"plan"}
  ModesUsed = {"Stopped", "Playing", "Recording"}
  Delays = {0, 1}
  Cycles = {}
  Lengths = {}
  MaxCommands = 4
  MaxLength = 6
INVARIANTS FollowersOnGrid
PROPERTIES PlansLand
