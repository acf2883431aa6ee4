CONSTANTS
    a = a  b = b  t1 = t1  t2 = t2  NoRes = NoRes
    Res <- Pair
    Tasks <- OneTask
    Windows <- SomeWindows
    Modes <- BothModes
    MaxTime = 3
    MaxFaults = 1
SPECIFICATION FairSpec
INVARIANTS
    SerialNoOverlap
    SerialCacheAgrees
    OnlyApprovedHoldSystem
PROPERTIES
    ImplementsBooking
    SerialReservationEnds
