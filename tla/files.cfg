CONSTANTS
    NoFile = NoFile
    PayloadSize = 32
    Cases <- MixedCases
    LengthLimits = {32, 16777216}
    Invocations <- SomeInvocations
    Stdin <- TESTA

SPECIFICATION ToolsSpec

INVARIANTS
    CopyIsPrefix
    TextArrives
    DigestIsStandard
    VerdictIsEquality

\* a program ends
CHECK_DEADLOCK FALSE
