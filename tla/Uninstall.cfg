SPECIFICATION FairSpec
CONSTANTS
  Tasks <- PodTasks
  TaskResources <- PodOwn
  ExecutorResources <- PodShared
  Failed <- PodFailed
  HasTLS = TRUE
  None = None
  MaxCrashes = 2
  MaxLosses = 1
INVARIANTS TypeOK StoredFrameworkLives OnlyTornRecordsLeak CompleteMeansGone
PROPERTIES UninstallFinishes
CHECK_DEADLOCK FALSE
