SPECIFICATION Spec
CONSTANTS
  Blocks = 2
  MaxCommands = 1
  MaxRevisions = 3
  MaxCopies = 2
  Beyond = FALSE
INVARIANTS ExactReadsAreCurrent
PROPERTIES SettledIsPublished LoadsEnd
\* The bound Beyond stops what has lost exactness.
CHECK_DEADLOCK FALSE
