SPECIFICATION Spec
CONSTANTS
  Ids = {"a", "b"}
  NoFile = NoFile
  Torn = Torn
  InitialCheckpoints <- FreshOrUsed
  Faults = {"crash", "power", "checkpoint", "append"}
  Uses = {"add", "sync"}
  MaxVersion = 2
  MaxStarts = 2
  MaxFailures = 1
INVARIANTS
  TypeOK
  Durable
  NothingStale
  OneSegment
  CloseMerges
  OnlyTheTailIsTorn
PROPERTIES
  ImplementsStore
CHECK_DEADLOCK FALSE
