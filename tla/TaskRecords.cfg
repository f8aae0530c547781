\* Safety: one task, two launches, and any two of the bounded events.
SPECIFICATION Spec
CONSTANTS
    Tasks = {server}
    TaskIds = {i1, i2}
    EmptyId = EmptyId
    None = None
    MaxCrashes = 2
    MaxReplaces = 1
    MaxFailures = 1
    MaxLost = 1
    MaxFaults = 2
INVARIANTS TypeOK RepairedInSync
PROPERTIES LostNeverHidesEnd
SYMMETRY IdSymmetry
