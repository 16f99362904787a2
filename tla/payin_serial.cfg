SPECIFICATION Spec
CONSTANTS
    hook1 = hook1
    poll1 = poll1
    refresh1 = refresh1
    r1 = r1
    r2 = r2
    Refs <- TwoRefs
    Orders <- BothKinds
    Receivers <- OneHook
    Pollers <- OnePoll
    Refreshers <- Nobody
    MaxActive = 1
    MaxHooks = 2
    MaxFailures = 0
    LostAnswers = FALSE
    Reversals = TRUE
    BatchSize = 1
CHECK_DEADLOCK FALSE
INVARIANT FlagTellsCredit
INVARIANT MerchantToldPaid
PROPERTY PaidIsCredited
PROPERTY StatusConverges
