CONSTANTS
    r1 = r1
    r2 = r2
    c1 = c1
    Never = Never
    Handlers = {r1, r2}
    Clients = {c1}
    KeyFromReq = "none"
    TierMax = 4
    ThrottlesToSoftBan = 2
    InvalidSigsToSoftBan = 2
    SoftBansToHardBan = 2
    HardBansToPermanent = 2
    Minute = 0
    FiveMin = 0
    OneDay = 1
    SevenDays = 1
    SoftBanFor = 0
    HardBanFor = 1
    WhitelistFor = 2
    Multiplier <- OneTimes
    Bands = {1, 4}
    HistoryCap = 6
    MaxTime = 1
    MaxEvents = 3
    AdminTtls = {1}
SPECIFICATION Spec
CHECK_DEADLOCK FALSE
SYMMETRY Symmetry
PROPERTIES
    BannedIsRefused
