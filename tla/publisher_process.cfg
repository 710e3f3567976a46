\* Two calls of publish() in batches of up to two events, two signals at any
\* moment.  The process stops.
CONSTANTS
    MaxCalls = 2
    BatchSize = 2
    MaxSignals = 2
SPECIFICATION FairSpec
INVARIANTS
    ProcessInv
    ZeroMeansSettled
    LostReceiptIsReported
PROPERTIES
    OwnReportDecides
    ImplementsPublication
    PublishEnds
    StopEnds
CHECK_DEADLOCK FALSE
