CONSTANTS
    r1 = r1  r2 = r2  r3 = r3
    Requests <- Three
    Priorities <- Scores
    SlotCounts <- OneOrTwoSlots
    MaxGenerations = 2
SPECIFICATION FairSpec
INVARIANTS
    NoSlotLeak
    OvershootBounded
    OneWakerEach
PROPERTIES
    ImplementsAdmission
    EveryCallReturns
\* Every call is made once and registrations are bounded, so the system stops.
CHECK_DEADLOCK FALSE
