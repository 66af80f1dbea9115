SPECIFICATION Spec
CONSTANTS
    Loops <- MCLoops
    Nodes <- MCNodes
    Order <- MCOrder
    Initial <- MCInitial
    Versions <- MCVersions
    UserModes = {"Stopped", "Playing", "Recording"}
    MaxDelay = 1
    MaxCommands = 4
PROPERTY ZeroRunsNewest
\* A latched fault is the end: the application never resets it.
CHECK_DEADLOCK FALSE
