SPECIFICATION FairSpec
CONSTANTS
    r1 = r1
    r2 = r2
    c1 = c1
    c2 = c2
    c3 = c3
    c4 = c4
    c5 = c5
    Programs <- Handlers
    Racers = {r1, r2}
    Callers = {c1, c2, c3, c4, c5}
    May <- Choices
    MaxRuns = 2
    MaxDisruptions = 1
INVARIANTS
    TypeOK
    
    ResultsAreCurrent
PROPERTIES
    ReplaysAgree
    RunsEnd
CHECK_DEADLOCK FALSE
