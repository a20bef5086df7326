SPECIFICATION FairSpec
CONSTANTS
    Handlers = {h1, h2}
    NoPeer = NoPeer
    MaxFaults <- NetworkOnly
    MaxKinds = 2
    MaxLines = 3
    IngestBatch = 2
    PublishBatch = 2
INVARIANTS
    RepeatsTrailNewest
PROPERTIES
    QueueDrains
    HeardReachesTopic
