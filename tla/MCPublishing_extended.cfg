SPECIFICATION Spec
CONSTANTS
    s1 = s1
    i1 = i1
    i2 = i2
    Kinds <- OnlyCampaigns
    Staff <- OneStaff
    Instances <- TwoInstances
    Dates <- SomeDates
    Horizon = 25
    MaxIncidents = 2
INVARIANTS
    DeadlineKept
CHECK_DEADLOCK FALSE
