SPECIFICATION FairSpec
CONSTANTS
    r1 = r1
    c1 = c1
    c2 = c2
    h1 = h1
    a1 = a1
    Releases <- OneRow
    Crons <- OneCron
    Hooks <- OneHook
    Admins <- OneAdmin
    MaxAttempts = 1
    MaxDisputes = 1
    MaxCrashes = 1
PROPERTIES
    DueIsServed
    LockIsReleased
CHECK_DEADLOCK FALSE
