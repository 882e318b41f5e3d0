CONSTANTS
    a = a
    b = b
    c = c
    d = d
    e = e
    m = m
    o = o
    p = p
    Hosts = {a, b, c, d, e}
    Routers = {}
    Relays = {m, o, p}
    Links <- TwoTrees
    NextHop <- TreesHop
    Capacity <- Queues
    Latency <- Latencies
    BitTime <- BitTimes
    UShort = 65536
    Configs <- Paces
    Packets <- ItsPackets
    MaxTime = 10

SPECIFICATION CbrSpec

INVARIANTS
    TimersKeepRate
    NothingOverdue

PROPERTIES
    NoJitter
    SimulationEnds

\* the simulation ends when no event is left
CHECK_DEADLOCK FALSE
