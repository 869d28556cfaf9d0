SPECIFICATION Spec
CONSTANTS
    a1 = a1
    a2 = a2
    q1 = q1
    q2 = q2
    t1 = t1
    b1 = b1
    b2 = b2
    d1 = d1
    c1 = c1
    h1 = h1
    s1 = s1
    Apps <- TwoApps
    Fee <- OneEach
    Pool = 1
    Requests <- TwoRequests
    Timers <- OneTimer
    Brands <- TwoBrands
    Amplified <- OneBrand
    Timed <- OtherBrand
    Limit = 2
    Dealers <- OneDecider
    Sweeps <- OneScan
    MaxPosts = 2
    MaxPardons = 1
    MaxKills = 1
    Creators <- OneCreator
    Budget = 3
    AgreedFee = 2
    Deciders <- OneDecider
    Hooks <- OneHook
    Scans <- OneScan
    Deeds <- AllDeeds
    MaxDisputes = 1
    MaxCancels = 1
    MaxCrashes = 1
INVARIANTS
    PoolHolds
    ActiveIsSettled
    OncePerDeal
    RejectionIsComplete
    BlockedAtLimit
    WithinBudget
    DoneIsOwed
SYMMETRY
    Alike
CHECK_DEADLOCK FALSE
