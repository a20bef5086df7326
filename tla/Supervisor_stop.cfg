SPECIFICATION Spec
CONSTANTS
    Children = {"ingest", "publish"}
    Ingest = "ingest"
    MaxDeaths = 0
CHECK_DEADLOCK FALSE
INVARIANTS
    StopFlushesEverything
