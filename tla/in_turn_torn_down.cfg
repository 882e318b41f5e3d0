CONSTANTS
    h1 = h1
    h2 = h2
    h3 = h3
    NoHost = NoHost
    NoFile = NoFile
    Hosts = {h1, h2}
    Flows <- ShortThenLong
    UShort = 65536
    Windows = {1, 2}
    Overlap = FALSE
    Garbage <- NoGarbage
    MaxEarly = 1
    MaxLost = 2

SPECIFICATION Spec

INVARIANTS
    TornDownIsDone

\* the simulation ends when no event is left
CHECK_DEADLOCK FALSE
