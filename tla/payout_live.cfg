SPECIFICATION Spec
CONSTANTS
    hook1 = hook1
    poll1 = poll1
    p1 = p1
    p2 = p2
    r1 = r1
    BatchRequest = BatchRequest
    NoReference = NoReference
    NoPayout = NoPayout
    Singles <- None
    Withdrawals <- None
    Batch <- TwoPayouts
    ClientRef <- NoRefs
    FullRefs <- None
    Receivers <- OneHook
    Pollers <- OnePoll
    MaxApply = 1
    MaxAttempts = 1
    MaxHooks = 1
    MaxFailures = 0
    LostAnswers = FALSE
    Reversals = FALSE
    Expiries = FALSE
CHECK_DEADLOCK FALSE
PROPERTY HoldServed
PROPERTY FailedIsRefunded
