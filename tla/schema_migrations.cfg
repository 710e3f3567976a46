\* Two runners, two components, directories that a deployment replaces.
CONSTANTS
    Runners = {r1, r2}
    Components = {c1, c2}
    Directories <- MCDirectories
    Rejected = {"bad"}
    Free = Free
    Orphan = Orphan
    MaxFaults = 1
SPECIFICATION FairSpec
INVARIANT LedgerIsHistory
INVARIANT VerifiedStays
INVARIANT MigrationInv
PROPERTY WholeUpgrades
PROPERTY AscendingUpgrades
PROPERTY OverlapFailsOnlyWaiters
PROPERTY RunEnds
