CONSTANTS
    c1 = c1
    Healthy = Healthy
    NoProbe = NoProbe
    Interval = 2
    ProbeTimeout = 1
    Unreachable = 4
    OverloadFor = 2
    Reprobe = 3
    Calls = {c1}
    Prices = {0, 1, 2}
    Budget = 1
    Escrow = 2
    MaxInflight = 1
    Mode = "cooperative"
    MaxLost = 1
    MaxBoots = 2
SPECIFICATION Spec
CHECK_DEADLOCK FALSE
INVARIANTS
    TypeOK
    
    DrainHonoured
    FallbackHolds
PROPERTIES
    CallsEnd
    ShutdownEnds
    CooperativeResumes
