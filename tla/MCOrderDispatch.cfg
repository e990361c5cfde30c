SPECIFICATION FairSpec
CONSTANTS
    Orders = {1, 2}
    Instances <- MCInstances
    BatchSize = 2
INVARIANTS
    NoEventRefused
    CommandsOrdered
    FinalAgrees
    UpdatesFollow
PROPERTIES
    EventuallyAgrees
CHECK_DEADLOCK FALSE
