\* Safety: two offers against a queue of one, one task, one master election.
SPECIFICATION Spec
CONSTANTS
    Tasks = {t1}
    TaskIds = {i1}
    EmptyId = EmptyId
    None = None
    Threads <- MCThreads
    BaseBackoff = 1
    MaxBackoff = 1
    MaxOffers = 2
    Capacity = 1
    MaxReregister = 1
INVARIANTS TypeOK ReconciledBeforePlans OpenOffersInProgress AnsweredOnce
PROPERTIES ImplementsLedger
