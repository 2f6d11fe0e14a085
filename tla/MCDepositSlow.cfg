CONSTANTS
    p1 = p1
    p2 = p2
    s1 = s1
    s2 = s2
    v1 = v1
    v2 = v2
    NoSig = NoSig
    NoSlot = NoSlot
    Sigs = {g1}
    Slots <- MCSlots
    Processes <- MCProcesses
    Home <- MCHome
    Verifs <- MCVerifs
    Slow = TRUE
SPECIFICATION Spec
CHECK_DEADLOCK FALSE
INVARIANTS
    CreditOnce
