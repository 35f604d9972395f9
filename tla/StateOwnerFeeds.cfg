CONSTANTS
    Calls <- OwnerAndSet
    Kind <- KindOfOwnerAndSet
    Watchers = {w}
    MaxInterrupts = 0
SPECIFICATION Spec
INVARIANTS
    ChangesInWriteOrder
CHECK_DEADLOCK FALSE
