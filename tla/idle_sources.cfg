CONSTANTS
    a = a
    b = b
    c = c
    r = r
    m = m
    q = q
    Hosts = {a, b, c}
    Routers = {r, q}
    Relays = {m}
    Links <- Tree
    NextHop <- TreeHop
    Capacity <- RoomyQueues
    Latency <- NoLatencies
    BitTime <- SameBitTimes
    UShort = 5
    Packets <- OneWithFin
    MaxTime = 2

SPECIFICATION Spec

INVARIANTS
    NoIdleSources

\* the simulation ends when no event is left
CHECK_DEADLOCK FALSE
