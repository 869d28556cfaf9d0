SPECIFICATION FairSpec
CONSTANTS
    s1 = s1
    i1 = i1
    i2 = i2
    Kinds <- AllKinds
    Staff <- OneStaff
    Instances <- TwoInstances
    Dates <- SomeDates
    Horizon = 25
    MaxIncidents = 2
INVARIANTS
    SentOnce
    EveryReminder
PROPERTIES
    DueIsServed
CHECK_DEADLOCK FALSE
