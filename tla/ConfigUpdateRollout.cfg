\* A documented promise that the code does not keep: see the README.
SPECIFICATION Spec
CONSTANTS
    a = a
    b = b
    p = p
    q = q
    Tasks = {a, b}
    Pods = {p, q}
    PodOf <- PodOfEach
    Once = {}
    Essential = {a}
    Steps <- StepPerTask
    After <- SerialOrder
    ConfigIds = {c1, c2}
    Templates = {v1, v2}
    Counts = {1}
    None = None
SYMMETRY IdSymmetry
INVARIANTS
    RolledOut
CHECK_DEADLOCK FALSE
