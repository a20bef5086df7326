SPECIFICATION FairSpec
CONSTANTS
    Partitions <- MCPartitions
    Topic <- Refolded
    Poison = {}
    FlushRecords = 3
    MaxCrashes = 2
CHECK_DEADLOCK FALSE
INVARIANTS
    HistoryComplete
PROPERTIES
    TracesStored
    ImplementsDurable
