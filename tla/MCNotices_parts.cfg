SPECIFICATION FairSpec
CONSTANTS
    k1 = k1 u1 = u1 u2 = u2 q1 = q1 q2 = q2 e1 = e1 c1 = c1 c2 = c2
    Campaigns <- OneCampaign
    Creators <- OneCreator
    Requests <- TwoRequests
    Expirers <- OneExpirer
    Rewards <- OneReward
    Ranks <- OneRank
    MaxGrants = 2
    MaxCrashes = 1
    Callers <- TwoCallers
    Users <- TwoUsers
    Synthetic = {}
    Events <- SomeEvents
    Settings <- SomeSettings
    Flips = {"emailNotifications"}
    Attempts = 2
    Stalls = 1
    MaxIncidents = 1
INVARIANTS
    TotalsAddUp
    LinkPaysOnce
    BadgeWasTold
    NoNoise
    StatusIsTrue
PROPERTIES
    TokensExpire
    CalledIsTold
CHECK_DEADLOCK FALSE
