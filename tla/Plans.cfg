\* One canary step and one that follows it, a command and a failure.
SPECIFICATION FairSpec
CONSTANTS
  Phases <- CanaryPhases
  StepsOf <- CanaryStepsOf
  Strategy <- CanaryStrategy
  PodOf <- CanaryPodOf
  Proceeds = 1
  None = None
  MaxCommands = 1
  MaxFailures = 1
INVARIANTS TypeOK NoStateIsError 
PROPERTIES RecoveryYields PlansSettle
CHECK_DEADLOCK FALSE
