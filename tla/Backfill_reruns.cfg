SPECIFICATION FairSpec
CONSTANTS
    Files <- MCFiles
    Unknown = 0
    Partitions = {1, 2, 3}
    PartitionOf <- OwnPartition
    TracePartitionOf <- TracePartition
    Marker = Marker
    BatchSize = 2
    Fields = {"alt", "lat", "lon"}
    PositionFields = {"lat", "lon"}
    PositionTs = "positionTs"
    TicksPerMilli = 1
    Expire = 1
    None = None
    MaxRuns = 2
    MaxTroubles = 1
    MaxAhead = 2
    MaxDue = 1
CHECK_DEADLOCK FALSE
INVARIANTS
    BackfillComplete
    TracesWhole
PROPERTIES
    RunEnds
