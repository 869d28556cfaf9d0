SPECIFICATION FairSpec
CONSTANTS
    q1 = q1
    h1 = h1
    c1 = c1
    Requests <- OneRequest
    Hooks <- OneHook
    Crons <- OneCron
    MaxSubmits = 2
    MaxEdits = 1
    MaxCrashes = 1
INVARIANTS
    OpenHasPaidRow
    OnePendingUntilPaid
PROPERTIES
    KeepsPromise
CHECK_DEADLOCK FALSE
