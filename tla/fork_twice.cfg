SPECIFICATION Spec
CONSTANTS
  Ids = {"a", "b"}
  NoFile = NoFile
  Torn = Torn
  InitialCheckpoints <- Used
  Faults = {"crash"}
  Uses = {}
  MaxVersion = 3
  MaxStarts = 1
  MaxFailures = 0
INVARIANTS
  ForkOnce
CHECK_DEADLOCK FALSE
