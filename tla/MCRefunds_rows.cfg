SPECIFICATION FairSpec
CONSTANTS
    c1 = c1
    h1 = h1
    MaxRefunds = 2
    Crons <- OneCron
    Hooks <- OneHook
    MaxCrashes = 1
INVARIANTS
    AskedOnce
    FailureIsSeen
PROPERTIES
    DueIsServed
CHECK_DEADLOCK FALSE
