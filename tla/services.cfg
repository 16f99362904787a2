SPECIFICATION SumSpec
CONSTANTS
    Cron = {"c1"}
    Admins = {"a1"}
    Dests = {"d1", "d2", "d3"}
    SweptDests = {"d1", "d2"}
    SweepChanges = 2
    Editors = {"e1", "e2"}
    Schedule <- TwoTiers
    MinPayout = 1
    HostLag = 0
    MaxClock = 2
    MaxCredit = 2
    MaxChanges = 4
    MaxCrashes = 1
    Links = {"l1"}
    Sessions = {"s1", "s2"}
    Phones = {"p1", "p2"}
    LinkOf <- OneLink
    Lifetime = 1
    MaxNow = 3
    MaxPreviews = 3
    Accounts = {"a1", "a2"}
    Codes = {"x", "y"}
    Keys = {"k1", "k2"}
    Managers = {"m1", "m2"}
    Requests = {"r1"}
    AccountChanges = 3
    LastPage = 2
    Filters = {"f1", "f2"}
    MaxAsked = 4
    MaxClicks = 4
    LoseEarly = FALSE
    MaxIntents = 2
    MaxAttempts = 3
    MaxCalls = 2
    MaxLoads = 3
    MaxEdits = 2
    Services = {"s1", "s2"}
    MaxFailures = 1
CHECK_DEADLOCK FALSE
INVARIANT MoneyAccounted
INVARIANT SweptOncePerDay
INVARIANT DueIsSwept
INVARIANT DefaultsFollowRequests
INVARIANT RefusalHolds
INVARIANT RowsMatch
INVARIANT OncePerIntent
INVARIANT PageSettles
PROPERTY ImplementsOneTimeLink
