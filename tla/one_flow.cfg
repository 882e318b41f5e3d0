CONSTANTS
    h1 = h1
    h2 = h2
    h3 = h3
    NoHost = NoHost
    NoFile = NoFile
    Hosts = {h1, h2}
    Flows <- OneFile3
    UShort = 65536
    Windows = {1, 2, 40000, 65536}
    Overlap = FALSE
    Garbage <- NoGarbage
    MaxEarly = 2
    MaxLost = 2

SPECIFICATION Spec

INVARIANTS
    TypeOK
    NothingLost
    KeptIsTimed
    AcksAreHonest
    FinAfterDelivery
    SendsAreIntended
    CancelsPending

PROPERTIES
    DeliversInOrder

\* the simulation ends when no event is left
CHECK_DEADLOCK FALSE
