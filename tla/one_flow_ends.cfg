CONSTANTS
    h1 = h1
    h2 = h2
    h3 = h3
    NoHost = NoHost
    NoFile = NoFile
    Hosts = {h1, h2}
    Flows <- OneFile3
    UShort = 65536
    Windows = {1, 2, 65536}
    Overlap = FALSE
    Garbage <- NoGarbage
    MaxEarly = 1
    MaxLost = 1

SPECIFICATION FairSpec

PROPERTIES
    EveryFlowEnds

\* the simulation ends when no event is left
CHECK_DEADLOCK FALSE
