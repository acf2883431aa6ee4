CONSTANTS
    h1 = h1  NoEntry = NoEntry
    Handlers <- OneHandler
    Kinds <- Llamacpp
    Modes <- Serial
    MaxStarts <- One
    MaxTroubles <- One
    MaxFaults <- None
SPECIFICATION Spec
PROPERTY RestartReplacesBackend
