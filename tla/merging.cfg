SPECIFICATION FairSpec
CONSTANTS
  Ids = {"a", "b"}
  NoFile = NoFile
  Torn = Torn
  InitialCheckpoints <- Used
  Faults = {"checkpoint"}
  Uses = {"reload", "handler"}
  MaxVersion = 2
  MaxStarts = 1
  MaxFailures = 1
INVARIANTS
  RefusedOnlyAfterFailure
PROPERTIES
  ReloadsTheSame
  Merges
  CloseReturns
CHECK_DEADLOCK FALSE
