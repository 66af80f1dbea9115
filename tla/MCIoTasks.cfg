SPECIFICATION Spec
CONSTANTS
  Loops = {"a", "b"}
  Documents = {"A"}
  Files = {"f"}
  Chunks = 2
  InFlight = 1
  Capacity = 3
  MaxTasks = 2
  MaxEdits = 1
  MaxLives = 2
  MaxBeside = 1
  MaxEvents = 2
  MayGoOn = FALSE
INVARIANTS CapturesAreCurrent
PROPERTIES VerdictsAreTrue CommitsAreAsked TasksEnd
CHECK_DEADLOCK FALSE
