SPECIFICATION Spec
CONSTANTS
    hook1 = hook1
    poll1 = poll1
    refresh1 = refresh1
    r1 = r1
    r2 = r2
    Refs <- OneRef
    Orders <- OneCollection
    Receivers <- OneHook
    Pollers <- OnePoll
    Refreshers <- OneRefresh
    MaxActive = 2
    MaxHooks = 2
    MaxFailures = 1
    LostAnswers = TRUE
    Reversals = TRUE
    BatchSize = 1
CHECK_DEADLOCK FALSE
INVARIANT CreditedOnlyIfPaid
