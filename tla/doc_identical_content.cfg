\* Identical content in the landing zone is a successful retry.
SPECIFICATION Spec
CONSTANTS
    p1 = p1
    p2 = p2
    f1 = f1
    c1 = c1
    c2 = c2
    Ingestors = {p1}
    Files = {f1}
    FileOf <- SameFile
    SuffixOf <- OneSuffix
    Contents = {c1, c2}
    Suffixes = {"csv"}
    Batches = {1, 2}
    FoundDirectories = {"absent"}
    Foreign = {}
    ClockErrors = {0}
    MaxTime = 1
    MaxFaults = 1
INVARIANTS
    IdenticalContentIsAccepted
