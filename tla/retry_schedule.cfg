\* Policies with odd and even bases, maxima on and between the powers.
SPECIFICATION Spec
CONSTANTS
    Bases = {1, 2, 3, 5}
    Maxima = {3, 8, 13, 20}
    MaxAttempts = 6
    Steps = 4
INVARIANTS
    ScheduleInv
    DelayInWindow
    OutageIsBridged
PROPERTIES
    DelaysGrowBelowMaximum
\* The last attempt is not retried.
CHECK_DEADLOCK FALSE
