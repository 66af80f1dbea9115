SPECIFICATION Spec
CONSTANTS
  PluginStates = {plain, tuned}
  Default = plain
  plain = plain
  tuned = tuned
  MaxCommands = 3
  MaxTimeouts = 1
INVARIANTS RunningIsRestored
PROPERTIES SavesAreNewOrHeld LateReplyIsNoticed CommandsAreTaken
