SPECIFICATION ServerFairSpec
CONSTANTS
    Partitions <- MCPartitions
    Topic <- Poisoned
    Poison <- PoisonRecords
    FlushRecords = 2
    MaxCrashes = 2
INVARIANTS
    ServerTypeOK
    PoisonNotPassed
    ReadinessHonest
PROPERTIES
    FailureEndsProcess
    DeadListenerNoticed
    StopLosesNothing
