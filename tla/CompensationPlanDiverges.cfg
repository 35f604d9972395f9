CONSTANTS
    first = first
    second = second
    third = third
    Steps <- ThreeSteps
    Before <- NoOrder
    Operators = {alice}
    MaxAttempt = 2
    MaxDisruptions = 0
SPECIFICATION Spec
INVARIANTS
    SuspendedIsPending
