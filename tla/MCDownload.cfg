CONSTANTS
    MAX_DOWNLOAD_WINDOW = 2
    MAX_RELIABLE_COMMANDS = 4
    BlockModulus = 4
    Blocks <- ThreeFiles
    Refused = {3}
    MaxLosses = 2
    MaxResends = 1
    MaxInFlight = 3
SPECIFICATION FairSpec
INVARIANTS
    TypeOK
    CommandsComplete
PROPERTIES TransfersSpec TransferEnds
CHECK_DEADLOCK FALSE
