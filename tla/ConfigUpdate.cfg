\* Safety: a pod of a ONCE and a RUNNING task, any number of updates and crashes.
SPECIFICATION Spec
CONSTANTS
    a = a
    b = b
    p = p
    q = q
    Tasks = {a, b}
    Pods = {p}
    PodOf <- PodOfAll
    Once = {b}
    Essential = {a}
    Steps <- StepPerTask
    After <- SerialOrder
    ConfigIds = {c1, c2, c3, c4}
    Templates = {v1, v2}
    Counts = {1, 2}
    None = None
SYMMETRY IdSymmetry
INVARIANTS
    TypeOK
    ReferencesExist
PROPERTIES
    UpdateKeepsMatches
    TargetsValid
    UnusedDropped
