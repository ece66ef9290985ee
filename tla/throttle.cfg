SPECIFICATION FairSpec
CONSTANTS
  Unit = 2
  Configs <- HalfEvents
  IncreaseInterval = 2
  BackoffDebounce = 3
  Workers = {"v", "w"}
  Limiters <- EveryKind
  Timeouts = {TRUE, FALSE}
  ContextEnds = {"canceled", "expired"}
  JobDeadlines = FALSE
  Capacity = 5
INVARIANTS
  TypeOK
  WithinBounds
  BurstCutsOnce
  RampBounded
  TimedOutTruthfully
PROPERTIES
  Settles
  Recovers
