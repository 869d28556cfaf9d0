SPECIFICATION Spec
CONSTANTS
    a1 = a1 a2 = a2 q1 = q1 q2 = q2 u1 = u1 u2 = u2 c1 = c1 c2 = c2 w1 = w1 f1 = f1
    Rows <- OfRows
    Requests <- OfRequests
    Providers <- OfProviders
    MaxCalls = 3
    MaxIncidents = 1
    Users <- OfUsers
    Calls <- OfCalls
    Platforms <- OfPlatforms
    Counts <- OfCounts
    Handles <- OfHandles
    MaxRequests = 3
    MaxCuts = 1
    Posts <- OfPosts
    Workers <- OfWorkers
    Staff <- OfStaff
    Instants <- OfInstants
    ResolveBatch = 1
    CaptureBatch = 1
    MaxLinks = 1
    MaxTicks = 2
    MaxManual = 1
    MaxTroubles = 1
    People <- OfPeople
    UserNames <- OfNames
    FullNames <- OfFullNames
    NameAtFirst <- OfNamesAtFirst
    Holders <- OfHoldersNames
    Containing <- OfContaining
    Codes <- OfCodes
    Numbers <- OfNumbers
    HolderOf <- OfHolders
    Reviewed <- OfReviewed
    TeamOf <- OfTeams
    Stars <- OfStars
    Edits <- OfEdits
    MaxEdits = 3
    Tiers <- OfTiers
    Advertisers <- OfAdvertisers
    Rates <- OfRates
    TotalBudget = 1010
    Editors <- OfEdits
    MaxSettings = 3
    BookRows = 3
    PageLimit = 2
    MaxWrites = 2
    MaxPages = 3
    Calendar <- OfCalendar
    Registered <- OfPeople
    Entries <- OfEntries
    Reaches <- OfReaches
    Budget <- OfBudgets
    Charge <- OfCharges
    Share <- OfShares
    CreatorOf <- OfCreators
    MaxChanges = 1
INVARIANTS
    NameKept
    ClosedIsFree
    NewestCodeWorks
    TierFollows
    ReadOnce
    TickServes
    ChecksHold
    RatingFollows
    DefaultRules
    QuoteIsCharged
    UntouchedIsShown
    FiguresAgree
CHECK_DEADLOCK FALSE
