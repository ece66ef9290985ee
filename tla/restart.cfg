SPECIFICATION RestartSpec
CONSTANTS
  States <- ReforkStates
  Terminal <- PipeTerminal
  Concurrency <- ReforkConcurrency
  Unregistered = "nowhere"
  ExecResults <- OneForks
  InitialRuns <- Mixed
  ReturnCapacity = 1
  Cancellable = FALSE
  Fallible = FALSE
  NoJob = NoJob
  MaxCrashes = 2
INVARIANTS
  OnlyNewJobsAreLost
  RootsNeverRepeat
PROPERTIES
  CompletesAfterCrashes
