CONSTANTS
    first = first
    second = second
    third = third
    Steps <- OneStep
    Before <- NoOrder
    Operators = {alice, bob}
    MaxAttempt = 3
    MaxDisruptions = 1
SYMMETRY OperatorSymmetry
SPECIFICATION Spec
INVARIANTS
    DecisionAnswersFailure
    RetriesAreDecided
    AcceptedIsDurable
