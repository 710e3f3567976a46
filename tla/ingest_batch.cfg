\* Two ingestors of one file, which is extracted again with the same or with
\* other bytes, and two crashes or failed calls.
SPECIFICATION FairSpec
CONSTANTS
    p1 = p1
    p2 = p2
    f1 = f1
    c1 = c1
    c2 = c2
    Ingestors = {p1, p2}
    Files = {f1}
    FileOf <- SameFile
    SuffixOf <- OneSuffix
    Contents = {c1, c2}
    Suffixes = {"csv"}
    Batches = {1, 2}
    FoundDirectories = {"absent", "durable"}
    Foreign <- Misplaced
    ClockErrors <- SlowClock
    MaxTime = 1
    MaxFaults = 2
INVARIANTS
    IngestInv
    OneBatchPerArtifact
    ResultsAreTrue
    ManifestsMatchObjects
PROPERTIES
    LandedUnderOwnKey
    ObjectsAreImmutable
    ImplementsIngestion
    EventuallyRegistered
