CONSTANTS
    entity = entity
    get = get
    peek = peek
    waitFor = waitFor
    Addresses = {entity}
    Activations = {a1, a2}
    AddressOf <- AllOfEntity
    Readers = {get, peek, waitFor}
    Kind <- EveryKind
    Target <- AllAskEntity
    Materialized = {peek}
    Goal = 2
    MaxVersion = 3
    MaxInterrupts = 1
SPECIFICATION FairSpec
INVARIANTS
    TypeOK
    ServingIsFound
    ClosedIsForgotten
    
    
PROPERTIES
    WaitersEnd
CHECK_DEADLOCK FALSE
