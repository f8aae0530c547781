\* A documented promise that the code does not keep: see the README.
SPECIFICATION FairSpec
CONSTANTS
    Tasks = {t1}
    TaskIds = {i1}
    EmptyId = EmptyId
    None = None
    Threads <- MCThreads
    BaseBackoff = 1
    MaxBackoff = 1
    MaxOffers = 1
    Capacity = 1
    MaxReregister = 1
PROPERTIES ReconciliationCompletes
