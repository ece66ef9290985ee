SPECIFICATION Spec
CONSTANTS
  Ids = {"a", "b"}
  NoFile = NoFile
  Torn = Torn
  InitialCheckpoints <- Used
  Faults = {"crash"}
  Uses = {}
  MaxVersion = 2
  MaxStarts = 1
  MaxFailures = 0
INVARIANTS
  ForkKept
CHECK_DEADLOCK FALSE
