SPECIFICATION SlotsSpec
CONSTANTS
  SlotCount = 3
  MaxBlocks = 5
  MaxGenerations = 2
INVARIANTS MissIsNoFault
CHECK_DEADLOCK FALSE
