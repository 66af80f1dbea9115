SPECIFICATION Spec
CONSTANTS
  Loops = {"a", "b"}
  Documents = {}
  Files = {"f"}
  Chunks = 2
  InFlight = 2
  Capacity = 8
  MaxTasks = 3
  MaxEdits = 0
  MaxLives = 2
  MaxBeside = 2
  MaxEvents = 3
  MayGoOn = FALSE
PROPERTY FailedIsNotCommitted
CHECK_DEADLOCK FALSE
