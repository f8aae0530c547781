\* A peer and the task itself, its new and its old address, one template.
SPECIFICATION FairSpec
CONSTANTS
    task = task
    peer = peer
    own = own
    stale = stale
    t = t
    Missing = missing
    Hosts <- MCHosts
    TaskHost = task
    Addresses <- MCAddresses
    PodIP = own
    Templates = {t}
    Sizes = {1, 2}
    MaxBytes = {0, 1}
INVARIANTS TypeOK StartedMeansReady NeverBlocked
PROPERTIES TimeoutEnds
CHECK_DEADLOCK FALSE
