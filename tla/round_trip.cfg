CONSTANTS
    Paths <- FourPaths
    InitialRtt = 50
    FileLength = 4
    Windows = {1, 2}
    Leftovers <- TwoQueues
    IntSize = 65536
    Unwritten = Unwritten
    MaxLost = 2

SPECIFICATION Spec

INVARIANTS
    EstimateCovers
    SampleAtHand
    NothingOverdue
    NoNeedlessResend

PROPERTIES
    AllAcknowledged

\* the simulation ends when no event is left
CHECK_DEADLOCK FALSE
