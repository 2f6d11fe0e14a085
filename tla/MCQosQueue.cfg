CONSTANTS
    r1 = r1
    r2 = r2
    r3 = r3
    r4 = r4
    Requests = {r1, r2, r3, r4}
    Scores = {0, 150, 20000}
    MaxInFlight = 2
    BypassBelow = 1
    MaxDepth = 2
    QueueTimeout = 2
    AgeBoost = 100
    Mode = "cooperative"
    Impatient = TRUE
SPECIFICATION Spec
CHECK_DEADLOCK FALSE
INVARIANTS
    SlotsExact
    WorkConserving
PROPERTIES
    
    QueuedIsAnswered
