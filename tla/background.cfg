SPECIFICATION SumSpec
CONSTANTS
    Recipients = {"r1", "r2"}
    Jobs = {"j1", "j2"}
    Attempts = 2
    SyncBatch = 1
    AskLimit = 1
    HookStatuses = {"DELIVERED"}
    MaxAhead = 1
    MaxLost = 1
    MaxSilent = 1
    MaxHooks = 1
    MaxAges = 0
    MaxErrors = 1
    MaxCrashes = 0
    MaxDuplicates = 1
    Slots = {"s1", "s2", "s3"}
    Clients = {"c1", "c2"}
    EndpointLimit = 1
    Events = {"e1"}
    Workers = {"w1", "w2"}
    DeliveryAttempts = 2
    MaxJobs = 2
    DeliveryCrashes = 1
    DeliveryErrors = 1
    Cron = {"c1"}
    Admins = {"m1"}
    Accounts = {"a1", "a2"}
    Plans = {"p1", "p2"}
    Period <- DailyAndLater
    Batch = 2
    MaxDay = 3
    MaxAssigns = 2
    BillingErrors = 1
    BillingCrashes = 1
CHECK_DEADLOCK FALSE
INVARIANT EndpointsBounded
INVARIANT OutcomeHonest
INVARIANT ResentForAReason
INVARIANT DeliveredMeansAll
INVARIANT BilledOnce
PROPERTY RetriesEnd
 
PROPERTY EveryMessageSettles
PROPERTY DueIsBilled
