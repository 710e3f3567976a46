\* One signal, one call.  The process stops.
CONSTANTS
    MaxCalls = 1
    BatchSize = 1
    MaxSignals = 1
SPECIFICATION FairSpec
PROPERTY StopIsHonoured
CHECK_DEADLOCK FALSE
