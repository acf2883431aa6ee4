CONSTANTS
    ToolIndices <- TwoTools
    Usages <- OneCount
    MaxChunks = 5
SPECIFICATION FairSpec
INVARIANTS
    WellBracketed
PROPERTIES
    LogsWholeUsage
    EveryStreamEnds
\* A stream that has been answered and logged is over.
CHECK_DEADLOCK FALSE
