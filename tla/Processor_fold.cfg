SPECIFICATION Spec
CONSTANTS
    Partitions <- MCPartitions
    Topic <- Resent
    Stations = {"A", "B"}
    Icaos = {"x", "y"}
    Prints = {"f1", "f2", "f3", "f4", "f5"}
    Fields = {"alt", "lat", "lon"}
    PositionFields = {"lat", "lon"}
    PositionTs = "positionTs"
    Garbage = Garbage
    NoIcao = NoIcao
    NoMark = NoMark
    NoAircraft = NoAircraft
    Never = Never
    Tombstone = Tombstone
    TicksPerMilli = 2
    Sweep = 1
    Expire = 1
    MaxClock = 2
    MaxCrashes = 1
CHECK_DEADLOCK FALSE
INVARIANTS
    TypeOK
    EventsFoldedOnce
    NothingDropped
    NewestWins
    StateTopicCurrent
    SweepArmed
PROPERTIES
    ForgottenOnlyWhenSilent
