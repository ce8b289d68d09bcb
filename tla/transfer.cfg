SPECIFICATION FairSpec
CONSTANTS
    MaxFiles = 3
    OffsetSize = 2
    NumFiles = 3
    Size <- MixedSizes
    Cut <- MixedCut
    Unwritable = {}
CHECK_DEADLOCK FALSE
INVARIANTS
    TypeOK
    AckedHeld
    SilentStored
PROPERTIES
    StoreSpec
    AllAcked
