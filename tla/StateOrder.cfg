CONSTANTS
    Calls <- EveryMutator
    Kind <- KindOfEach
    Watchers = {w}
    MaxInterrupts = 1
SPECIFICATION FairSpec
INVARIANTS
    TypeOK
    ChangesInWriteOrder
    EveryWritePublished
PROPERTIES
    ImplementsAtomicCell
    WatchersConverge
CHECK_DEADLOCK FALSE
