SPECIFICATION Spec
CONSTANTS
    r1 = r1
    c1 = c1
    c2 = c2
    h1 = h1
    a1 = a1
    Releases <- OneRow
    Crons <- TwoCrons
    Hooks <- OneHook
    Admins <- NoOne
    MaxAttempts = 1
    MaxDisputes = 0
    MaxCrashes = 0
INVARIANTS
    LockExcludesInstances
CHECK_DEADLOCK FALSE
