SPECIFICATION FairSpec
CONSTANTS
  States <- ReforkStates
  Terminal <- PipeTerminal
  Concurrency <- ReforkConcurrency
  Unregistered = "nowhere"
  ExecResults <- ReforkExec
  InitialRuns <- ReforkRuns
  ReturnCapacity = 1
  Cancellable = TRUE
  Fallible = FALSE
  NoJob = NoJob
INVARIANTS
  DiesOnlyCancelled
PROPERTIES
  Completes
  CancelReturns
