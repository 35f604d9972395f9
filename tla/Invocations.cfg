SPECIFICATION Spec
CONSTANTS
    a1 = a1
    a2 = a2
    c1 = c1
    c2 = c2
    KeyOrder <- Keys
    IndexOrder <- Indices
    Documents <- Docs
    Nesting <- Depth
    charCode <- Codes
    shardsPerGroup = 7
    ShardGroupOf <- Group
    Actors = {a1, a2}
    Calls = {c1, c2}
    Sent <- Made
    Payloads <- Named
    Offered <- Declared
    Modes = {"cluster", "test"}
    MaxTime = 2
    Nobody = Nobody
SYMMETRY Symmetry
INVARIANTS
    TypeOK
    
    
    
CHECK_DEADLOCK FALSE
