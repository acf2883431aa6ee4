CONSTANTS
    c1 = c1  c2 = c2  alice = alice  bob = bob
    Nobody = Nobody  Internal = Internal
    Calls <- Pair
    Users <- People
    Who <- Callers
    SlotCounts <- OneSlot
    MaxChanges = 4
SPECIFICATION FairSpec
INVARIANTS
    BufferedWithinLimit
    OnlyEarlierPass
PROPERTIES
    SlotsComeBack
\* Every request is made once and the changes are bounded, so the system stops.
CHECK_DEADLOCK FALSE
