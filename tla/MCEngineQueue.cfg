SPECIFICATION Spec
CONSTANTS
  Capacity = 2
  MaxSends = 4
INVARIANTS RunOnceInOrder ReservationHonoured QuietMeansApplied OkMeansRan
PROPERTIES ChannelSpec QueuedIsRun
