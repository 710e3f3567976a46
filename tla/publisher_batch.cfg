\* Two workers, batches of two events.  Every event of a batch is settled, also
\* when its cycle is cut short and the attempts of its last events are used up
\* by claims alone.
SPECIFICATION FairSpec
CONSTANTS
    w1 = w1
    w2 = w2
    Workers = {w1, w2}
    Events = {1, 2}
    BatchSize = 2
    LeaseDuration = 1
    MaxAttempts = 1
    RetryBase = 1
    RetryMax = 1
    Skew <- SameClocks
    MaxTime = 30
    MaxFaults = 1
INVARIANTS
    OutboxInv
PROPERTIES
    DeliversEventually
