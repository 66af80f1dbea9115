SPECIFICATION Spec
CONSTANTS
  Loops = {"a", "b"}
  Documents = {"A"}
  Files = {"f"}
  Chunks = 2
  InFlight = 1
  Capacity = 4
  MaxTasks = 1
  MaxEdits = 0
  MaxLives = 1
  MaxBeside = 0
  MaxEvents = 0
  MayGoOn = TRUE
INVARIANT CancelledIsNotCommitted
CHECK_DEADLOCK FALSE
