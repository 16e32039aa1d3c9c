CONSTANTS
    MaxServerId = 3
    MaxDownloads = 1
    MaxBlocks = 2
    MaxLosses = 1
    MaxInFlight = 1
SPECIFICATION FairSpec
INVARIANTS
    TypeOK
    ActiveHasBegun
    GenuineStays
PROPERTIES MovesOnThisMap ClientPlays SlotFreed
CHECK_DEADLOCK FALSE
