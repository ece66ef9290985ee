SPECIFICATION Spec
CONSTANTS
  States <- ReforkStates
  Terminal <- PipeTerminal
  Concurrency <- ReforkConcurrency
  Unregistered = "nowhere"
  ExecResults <- ReforkExec
  InitialRuns <- ReforkRuns
  ReturnCapacity = 1
  Cancellable = FALSE
  Fallible = FALSE
  NoJob = NoJob
INVARIANTS
  UniqueInFlight
