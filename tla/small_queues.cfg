CONSTANTS
    a = a
    b = b
    c = c
    r = r
    m = m
    q = q
    Hosts = {a, b, c}
    Routers = {r, q}
    Relays = {m}
    Links <- Tree
    NextHop <- TreeHop
    Capacity <- SmallQueues
    Latency <- Latencies
    BitTime <- BitTimes
    UShort = 4
    Packets <- TwoFlows
    MaxTime = 1

SPECIFICATION FairSpec

INVARIANTS
    TypeOK
    LinksWork
    WindowsFit

PROPERTIES
    ClockGoesOn
    ActsAsChannels
    NetworkDrains

\* the simulation ends when no event is left
CHECK_DEADLOCK FALSE
