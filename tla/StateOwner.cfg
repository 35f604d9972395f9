CONSTANTS
    Calls <- OwnerAndMutators
    Kind <- KindOfOwnerAndMutators
    Watchers = {}
    MaxInterrupts = 2
SPECIFICATION FairSpec
INVARIANTS
    MutationsInOrder
PROPERTIES
    CallsEnd
CHECK_DEADLOCK FALSE
