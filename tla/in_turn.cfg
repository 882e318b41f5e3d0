CONSTANTS
    h1 = h1
    h2 = h2
    h3 = h3
    NoHost = NoHost
    NoFile = NoFile
    Hosts = {h1, h2, h3}
    Flows <- InTurn
    UShort = 65536
    Windows = {1, 2}
    Overlap = FALSE
    Garbage <- NoGarbage
    MaxEarly = 0
    MaxLost = 2

SPECIFICATION Spec

INVARIANTS
    NothingLost
    WindowsPositive

PROPERTIES
    DeliversInOrder

\* the simulation ends when no event is left
CHECK_DEADLOCK FALSE
