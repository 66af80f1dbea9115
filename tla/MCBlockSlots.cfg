SPECIFICATION FairSpec
CONSTANTS
  SlotCount = 3
  MaxBlocks = 5
  MaxGenerations = 2
INVARIANTS AnswerIsOwn SlotsAreHeld
PROPERTIES CallReturns AbandonedComeBack
CHECK_DEADLOCK FALSE
