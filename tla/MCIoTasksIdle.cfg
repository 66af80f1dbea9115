SPECIFICATION Spec
CONSTANTS
  Loops = {"a", "b"}
  Documents = {"A"}
  Files = {"f"}
  Chunks = 2
  InFlight = 1
  Capacity = 4
  MaxTasks = 1
  MaxEdits = 0
  MaxLives = 2
  MaxBeside = 0
  MaxEvents = 1
  MayGoOn = FALSE
INVARIANT IdleHoldsNothing
CHECK_DEADLOCK FALSE
