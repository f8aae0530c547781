\* Liveness: one task, two launches, a crash at any point.
SPECIFICATION FairSpec
CONSTANTS
    Tasks = {server}
    TaskIds = {i1, i2}
    EmptyId = EmptyId
    None = None
    MaxCrashes = 1
    MaxReplaces = 0
    MaxFailures = 0
    MaxLost = 0
    MaxFaults = 2
PROPERTIES HeardOrphanKilled DeathRecorded
