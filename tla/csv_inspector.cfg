\* Contents of up to three units under no, a one-column or a two-column header,
\* read in chunks of 1, 2 or 3 bytes.  An inspection ends.
CONSTANTS
    Contents <- MCContents
    ChunkSizes <- MCChunkSizes
    Changes <- MCChanges
SPECIFICATION Spec
INVARIANTS
    InspectionInv
    VerdictIsTheContents
    DigestIsOneContent
CHECK_DEADLOCK FALSE
