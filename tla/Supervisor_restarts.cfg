SPECIFICATION FairSpec
CONSTANTS
    Children = {"ingest", "publish", "heartbeat"}
    Ingest = "ingest"
    MaxDeaths = 2
CHECK_DEADLOCK FALSE
INVARIANTS
    TypeOK
    SupervisorStopFlushes
PROPERTIES
    StopCompletes
    DeadChildRestarted
