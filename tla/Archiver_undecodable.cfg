SPECIFICATION Spec
CONSTANTS
    Partitions <- MCPartitions
    Topic <- Undecodable
    Poison = {}
    FlushRecords = 1
    MaxCrashes = 0
    NoStation = "none"
    DayLength = 10
CHECK_DEADLOCK FALSE
INVARIANTS
    ArchiveComplete
