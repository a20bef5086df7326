SPECIFICATION Spec
CONSTANTS
    Tokens = {t1, t2}
    None = None
    MaxClock = 3
    MaxSeq = 2
    MaxTroubles = 2
SYMMETRY TokenSymmetry
CHECK_DEADLOCK FALSE
INVARIANTS
    TypeOK
    AcceptedReportStored
    UnauthorizedOnlyIfRevoked
    RevokedStationSilenced
PROPERTIES
    BadReportOnlyAfterStep
    PublishTimeTrue
