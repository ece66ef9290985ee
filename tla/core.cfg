SPECIFICATION Spec
CONSTANTS
  States <- PipeStates
  Terminal <- PipeTerminal
  Concurrency <- PipeConcurrency
  Unregistered = "nowhere"
  ExecResults <- PipeExec
  InitialRuns <- PipeRuns
  ReturnCapacity = 1
  Cancellable = TRUE
  Fallible = TRUE
  NoJob = NoJob
INVARIANTS
  TypeOK
  ExecutingAccounted
  CoordinatorNeverBlocks
  WorkConserving
  NoJobForgotten
  UniqueInFlight
  CompletionSound
  FinalStatusExact
  StatusFresh
  SavedIsCurrent
PROPERTIES
  TerminalIsFinal
  ImplementsWorkflow
