SPECIFICATION StoreSpec
CONSTANTS
  Jobs <- MCJobs
  Engines <- MCEngines
  Remotes <- MCRemotes
  Progress <- MCProgress
  MaxQueuedJobs = 1
  MaxRunningJobs = 1
  ClaimCap = 2
  None = None
INVARIANTS
  StoreTypeOK
  RunningBound
  LiveBound
  BindingOnlyWhileRunning
PROPERTIES
  CancelLastsTheRun
  TerminalIsFinal
  ImplementsLifecycle
CHECK_DEADLOCK FALSE
