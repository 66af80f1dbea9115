CONSTANTS
  Values = {v0, v1}
  Default = v0
  Settings = {"control", "length"}
  Capacity = 3
  MaxCalls = 3
  MaxAttaches = 2
SPECIFICATION Spec
INVARIANTS EngineFollows
PROPERTIES AttachBecomesUsable
CHECK_DEADLOCK FALSE
