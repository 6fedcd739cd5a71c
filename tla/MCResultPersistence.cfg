SPECIFICATION Spec
CONSTANTS
  Jobs <- MCJobs
  Engines <- MCEngines
  Remotes <- MCRemotes
  Progress <- MCProgress
  Writers <- MCWriters
  Images <- MCImages
  Batches <- MCBatches
  MaxQueuedJobs = 1
  MaxRunningJobs = 1
  ClaimCap = 2
  w1 = w1
  w2 = w2
  None = None
SYMMETRY MCSymmetry
INVARIANTS
  PersistenceTypeOK
  PublishedIsReadable
  ReaderMeetsFile
  LitterIsExplained
  OrphansAreExplained
CHECK_DEADLOCK FALSE
