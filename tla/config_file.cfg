CONSTANTS
    Addresses = {0, 1, 2, 3, 4}
    Costs <- AnyCosts
    MaxLinks = 9
    MaxBfsq = 10
    Files <- TheFiles
    MaxArgs = 4
    AddressSize = 5
    Garbage = {0}

SPECIFICATION ConfSpec

INVARIANTS
    TypeOK
    LinksSymmetric
    RoutesShortest
    LinksAsWritten
    FlowsOwnAddress
    ConsistentRuns

PROPERTIES
    DiesOnlyApart
    PacketArrives

\* the simulation ends with the packet
CHECK_DEADLOCK FALSE
