SPECIFICATION FairSpec
CONSTANTS
    Partitions <- MCPartitions
    Topic <- Resent
    Poison = {}
    FlushRecords = 3
    MaxCrashes = 2
    NoStation = "none"
    DayLength = 10
CHECK_DEADLOCK FALSE
INVARIANTS
    CommittedArchived
PROPERTIES
    EverythingArchived
    ImplementsDurable
