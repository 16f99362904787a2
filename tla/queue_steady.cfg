SPECIFICATION Spec
CONSTANTS
    w1 = w1
    w2 = w2
    Workers <- TwoWorkers
    MaxJobs = 3
    MaxAttempts = 2
    Concurrency = 1
    MaxPolls = 1
    MaxStops = 0
    MaxCrashes = 0
    MaxDbErrors = 0
    GraceEnds = FALSE
PROPERTY ImplementsQueue
