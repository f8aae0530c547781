\* A task's node, its two records; two values, three attempts.
SPECIFICATION FairSpec
CONSTANTS
    task = task
    info = info
    status = status
    Paths <- TaskPaths
    Above <- TaskAbove
    Values = {v, w}
    Stub = Stub
    None = None
    MaxAttempts = 3
INVARIANTS TypeOK ManyAtOnce
PROPERTIES ImplementsStorage CallsReturn
