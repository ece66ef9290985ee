SPECIFICATION FairSpec
CONSTANTS
  States <- PollStates
  Terminal <- NoTerminal
  Concurrency <- PollConcurrency
  Unregistered = "nowhere"
  ExecResults <- PollExec
  InitialRuns <- PollRuns
  ReturnCapacity = 1
  Cancellable = FALSE
  Fallible = FALSE
  NoJob = NoJob
PROPERTIES
  NoStarvation
