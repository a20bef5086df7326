SPECIFICATION Spec
CONSTANTS
    Partitions <- MCPartitions
    Topic <- RolledBack
    Poison = {}
    FlushRecords = 2
    MaxCrashes = 0
CHECK_DEADLOCK FALSE
INVARIANTS
    NoAbortedRow
