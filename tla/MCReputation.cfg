CONSTANTS
    j1 = j1
    j2 = j2
    a1 = a1
    a2 = a2
    NoAgent = NoAgent
    Jobs = {j1, j2}
    Agents = {a1, a2}
    Amounts = {1}
    LogMax = 3
    Many = 2
    Day = 1
    Dormant = 1
    RiskAge <- MCRiskAge
    RiskCount <- MCRiskCount
    MaxTime = 3
    MaxPayments = 4
    MaxCrashes = 1
SPECIFICATION Spec
SYMMETRY Symmetry
CHECK_DEADLOCK FALSE
INVARIANTS
    TypeOK
    StatsAgree
    VolumeNotOverstated
    
    FlagsAreEarned
PROPERTIES
    RiskTracksPace
