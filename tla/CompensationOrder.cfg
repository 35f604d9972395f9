CONSTANTS
    first = first
    second = second
    third = third
    Steps <- ThreeSteps
    Before <- ThreeInOrder
    Operators = {alice}
    MaxAttempt = 2
    MaxDisruptions = 1
SPECIFICATION FairSpec
INVARIANTS
    TypeOK
    UndoneInReverse
    OnePending
    FailureAfterCompensation
    SuspendedIsPending
PROPERTIES
    SettledStaysSettled
    ImplementsSaga
    CompensationEnds
    CallsReturn
