\* Two workers contending for one event: crashes, outlived leases, retries,
\* the clock of one worker a tick ahead.  No row waits for the last tick.
SPECIFICATION FairSpec
CONSTANTS
    w1 = w1
    w2 = w2
    Workers = {w1, w2}
    Events = {1}
    BatchSize = 1
    LeaseDuration = 2
    MaxAttempts = 2
    RetryBase = 1
    RetryMax = 2
    Skew <- FastClock
    MaxTime = 30
    MaxFaults = 2
INVARIANTS
    TypeOK
    OutboxInv
    PublishedAttemptIsStored
    AttemptsSentOnce
    DeadLetterReason
    SharedOnlyAfterExpiry
PROPERTIES
    TerminalRowsAreFinal
    ImplementsDelivery
    DeliversEventually
