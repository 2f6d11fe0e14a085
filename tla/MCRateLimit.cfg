CONSTANTS
    r1 = r1
    r2 = r2
    i1 = i1
    a1 = a1
    NoOne = NoOne
    Everybody = Everybody
    Requests = {r1, r2}
    Ips = {i1}
    Agents = {a1}
    Window = 2
    MaxLag = 1
    MaxTime = 3
    GlobalMax = 2
    IpMax = 1
    PubkeyMax = 1
    PaidBase = 1
    ScorePerPayment = 25
    MaxPaid = 1
    MaxFaults = 1
SPECIFICATION Spec
SYMMETRY Symmetry
CHECK_DEADLOCK FALSE
INVARIANTS
    WindowBound
    NobodySlipsThrough
PROPERTIES
    RefusalDeserved
