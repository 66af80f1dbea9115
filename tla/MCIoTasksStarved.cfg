SPECIFICATION Spec
CONSTANTS
  Loops = {"a", "b"}
  Documents = {"A"}
  Files = {"f"}
  Chunks = 2
  InFlight = 1
  Capacity = 3
  MaxTasks = 1
  MaxEdits = 0
  MaxLives = 1
  MaxBeside = 1
  MaxEvents = 2
  MayGoOn = FALSE
PROPERTY SavesEnd
CHECK_DEADLOCK FALSE
