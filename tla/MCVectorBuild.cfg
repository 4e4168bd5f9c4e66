SPECIFICATION FairSpec
CONSTANTS
    k1 = k1
    k2 = k2
    k3 = k3
    k4 = k4
    k5 = k5
    good = good
    other = other
    doubled = doubled
    short = short
    long = long
    Builds = {good, other, doubled, short, long}
    Source <- MCSource
    RecordCount <- MCRecordCount
    BatchSize = 2
    Cadences = {1, 2}
    MaxFailures = 2
    Nothing = Nothing
    Torn = Torn
    Blank = Blank
INVARIANTS
    TypeOK
    CheckpointIsResumable
    PublishedArtifactLoads
PROPERTIES
    KeepsPromise
    BuildFinishes
CHECK_DEADLOCK FALSE
