CONSTANTS
    h1 = h1
    h2 = h2
    k1 = k1
    Everybody = Everybody
    Forever = Forever
    Handlers = {h1, h2}
    AdminKeys = {k1}
    Orders = {"permanent", "endless", "unban", "config", "read"}
    KeyWindow = 2
    GlobalWindow = 2
    GuardMax = 1
    GuardRange = {1, 2}
    GuardTried = {1, 2, 3}
    GlobalMax = 2
    MaxFaults = 1
SPECIFICATION Spec
SYMMETRY Symmetry
CHECK_DEADLOCK FALSE
INVARIANTS
    TypeOK
    
    AuditIsTrue
PROPERTIES
    GuardReopens
