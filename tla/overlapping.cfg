CONSTANTS
    h1 = h1
    h2 = h2
    h3 = h3
    NoHost = NoHost
    NoFile = NoFile
    Hosts = {h1, h2, h3}
    Flows <- SameReceiver
    UShort = 65536
    Windows = {2, 4}
    Overlap = TRUE
    Garbage <- SomeGarbage
    MaxEarly = 0
    MaxLost = 0

SPECIFICATION Spec

PROPERTIES
    CopiesStayTimed

\* the simulation ends when no event is left
CHECK_DEADLOCK FALSE
