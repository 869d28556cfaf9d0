SPECIFICATION Spec
CONSTANTS
    q1 = q1
    h1 = h1
    c1 = c1
    Requests <- OneRequest
    Hooks <- OneHook
    Crons <- OneCron
    MaxSubmits = 3
    MaxEdits = 0
    MaxCrashes = 0
INVARIANTS
    OnePending
CHECK_DEADLOCK FALSE
