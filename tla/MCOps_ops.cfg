SPECIFICATION ConversionsSpec
CONSTANTS
    None = None
    Off = Off
    Headers <- MCHeaders
    Fields = {ContextLength}
    ContextLength = ContextLength
    HeadCountKv = HeadCountKv
    Pattern = Pattern
    Other = Other
    U32 = 4
    MaxPairs = 3
    Long = Long
    Unreadable = {Long}
    Metas <- MCMetas
    Contexts = {1, 4}
    U64 = 32
    Parallels = {1, 2}
    Listings <- MCListings
    Filters <- MCFilters
    All = All
    ModelIds = {1, 2}
    System <- MCSystem
    Openings <- MCOpenings
    Remarks <- MCRemarks
    Replies <- MCReplies
    NoId = NoId
    CallIds = {i1}
    Inputs = {Input}
    Input = Input
    EmptyInput = EmptyInput
    Unparsable = Unparsable
    Finishes <- MCFinishes
    NoFinish = NoFinish
    MaxTurns = 2
INVARIANTS ReaderInStep EstimateIsTheLayers OneProjector ConversationKept
CHECK_DEADLOCK FALSE
