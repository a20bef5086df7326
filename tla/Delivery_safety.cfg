SPECIFICATION Spec
CONSTANTS
    Handlers = {h1, h2}
    NoPeer = NoPeer
    MaxFaults <- EveryFault
    MaxKinds = 2
    MaxLines = 2
    IngestBatch = 2
    PublishBatch = 2
SYMMETRY HandlerSymmetry
INVARIANTS
    TypeOK
    NoAcceptedEventLost
    DeliveryInv
    IdIdentifiesEvent
PROPERTIES
    ImplementsHandover
