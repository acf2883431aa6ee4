CONSTANTS
    a = a  b = b  t1 = t1  t2 = t2  NoRes = NoRes
    Res <- Solo
    Tasks <- OneTask
    Windows <- SomeWindows
    Modes <- Racing
    MaxTime = 3
    MaxFaults = 0
SPECIFICATION FairSpec
PROPERTIES
    ReservationEnds
