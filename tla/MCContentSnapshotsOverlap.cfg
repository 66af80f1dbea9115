SPECIFICATION Spec
CONSTANTS
  Blocks = 4
  MaxCommands = 1
  MaxRevisions = 3
  MaxCopies = 2
  Beyond = TRUE
INVARIANTS EveryExactReadIsCurrent
CHECK_DEADLOCK FALSE
