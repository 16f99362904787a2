SPECIFICATION Spec
CONSTANTS
    hook1 = hook1
    poll1 = poll1
    p1 = p1
    p2 = p2
    r1 = r1
    BatchRequest = BatchRequest
    NoReference = NoReference
    NoPayout = NoPayout
    Singles <- OnePayout
    Withdrawals <- OtherPayout
    Batch <- None
    ClientRef <- SameRefs
    FullRefs <- OneRef
    Receivers <- OneHook
    Pollers <- OnePoll
    MaxApply = 2
    MaxAttempts = 2
    MaxHooks = 1
    MaxFailures = 1
    LostAnswers = TRUE
    Reversals = FALSE
    Expiries = TRUE
CHECK_DEADLOCK FALSE
INVARIANT MovedOnlyIfHeld
