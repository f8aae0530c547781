SPECIFICATION FairSpec
CONSTANTS
  Tasks = {t1}
  TaskIds = {1, 2, 3}
  EmptyId = EmptyId
  None = None
  MaxFaults = 2
INVARIANTS TypeOK TwinsOnlyWhenTorn
PROPERTIES CompletesOnlyOnGoal StepSettles
CHECK_DEADLOCK FALSE
