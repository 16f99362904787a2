SPECIFICATION Spec
CONSTANTS
    hook1 = hook1
    poll1 = poll1
    refresh1 = refresh1
    r1 = r1
    r2 = r2
    Refs <- OneRef
    Orders <- OneCollection
    Receivers <- OneHook
    Pollers <- OnePoll
    Refreshers <- Nobody
    MaxActive = 2
    MaxHooks = 1
    MaxFailures = 0
    LostAnswers = FALSE
    Reversals = FALSE
    BatchSize = 1
CHECK_DEADLOCK FALSE
INVARIANT CreditedAtMostOnce
