SPECIFICATION Spec
CONSTANTS
  States <- PipeStates
  Terminal <- PipeTerminal
  Concurrency <- PipeConcurrency
  Unregistered = "nowhere"
  ExecResults <- CleanExec
  InitialRuns <- CleanRuns
  ReturnCapacity = 1
  Cancellable = TRUE
  Fallible = FALSE
  NoJob = NoJob
INVARIANTS
  NoPanic
