CONSTANTS
    Calls <- ThreeMutators
    Kind <- KindOfThree
    Watchers = {w}
    MaxInterrupts = 1
SPECIFICATION Spec
INVARIANTS
    EveryCommitObserved
CHECK_DEADLOCK FALSE
