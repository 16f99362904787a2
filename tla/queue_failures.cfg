SPECIFICATION Spec
CONSTANTS
    w1 = w1
    w2 = w2
    Workers <- TwoWorkers
    MaxJobs = 2
    MaxAttempts = 2
    Concurrency = 1
    MaxPolls = 2
    MaxStops = 1
    MaxCrashes = 1
    MaxDbErrors = 1
    GraceEnds = TRUE
SYMMETRY WorkerSymmetry
INVARIANT TypeOK
INVARIANT OneExecution
INVARIANT HonestOutcome
INVARIANT OvershootBounded
PROPERTY ImplementsQueueSafety
