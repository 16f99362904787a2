SPECIFICATION Spec
CONSTANTS
    hook1 = hook1
    poll1 = poll1
    p1 = p1
    p2 = p2
    r1 = r1
    BatchRequest = BatchRequest
    NoReference = NoReference
    NoPayout = NoPayout
    Singles <- None
    Withdrawals <- None
    Batch <- TwoPayouts
    ClientRef <- NoRefs
    FullRefs <- None
    Receivers <- OneHook
    Pollers <- OnePoll
    MaxApply = 1
    MaxAttempts = 1
    MaxHooks = 2
    MaxFailures = 0
    LostAnswers = FALSE
    Reversals = TRUE
    Expiries = FALSE
CHECK_DEADLOCK FALSE
INVARIANT FlagTellsRefund
INVARIANT CountersMatch
PROPERTY ImplementsPromise
