CONSTANTS
    h1 = h1  NoEntry = NoEntry
    Handlers <- OneHandler
    Kinds <- BothKinds
    Modes <- BothModes
    MaxStarts <- Starts
    MaxTroubles <- Troubles
    MaxFaults <- Faults
SPECIFICATION FairSpec
INVARIANTS
    NoDeadEnd
    SerialConsistent
    SerialFairQuarantine
PROPERTIES
    SerialDeadIsNoticed
