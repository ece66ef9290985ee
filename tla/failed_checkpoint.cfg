SPECIFICATION Spec
CONSTANTS
  Ids = {"a", "b"}
  NoFile = NoFile
  Torn = Torn
  InitialCheckpoints <- Used
  Faults = {"checkpoint"}
  Uses = {}
  MaxVersion = 2
  MaxStarts = 1
  MaxFailures = 1
INVARIANTS
  NeverSpuriouslyClosed
CHECK_DEADLOCK FALSE
