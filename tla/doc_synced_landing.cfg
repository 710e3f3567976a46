\* The bytes of a registered batch survive a power loss.
SPECIFICATION PowerLossSpec
CONSTANTS
    p1 = p1
    p2 = p2
    f1 = f1
    c1 = c1
    c2 = c2
    Ingestors = {p1, p2}
    Files = {f1}
    FileOf <- SameFile
    SuffixOf <- OneSuffix
    Contents = {c1, c2}
    Suffixes = {"csv"}
    Batches = {1, 2}
    FoundDirectories = {"durable"}
    Foreign = {}
    ClockErrors = {0}
    MaxTime = 1
    MaxFaults = 2
INVARIANTS
    RegisteredBytesAreKept
