\* An event that exhausted its publication attempts was published at least once.
SPECIFICATION Spec
CONSTANTS
    w1 = w1
    w2 = w2
    Workers = {w1, w2}
    Events = {1, 2}
    BatchSize = 2
    LeaseDuration = 1
    MaxAttempts = 1
    RetryBase = 1
    RetryMax = 1
    Skew <- SameClocks
    MaxTime = 3
    MaxFaults = 1
SYMMETRY WorkerSymmetry
INVARIANTS
    ExhaustedWasPublished
