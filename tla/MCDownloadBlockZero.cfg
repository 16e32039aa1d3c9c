CONSTANTS
    MAX_DOWNLOAD_WINDOW = 2
    MAX_RELIABLE_COMMANDS = 6
    BlockModulus = 4
    Blocks <- OneFile
    Refused = {}
    MaxLosses = 1
    MaxResends = 1
    MaxInFlight = 2
SPECIFICATION Spec
INVARIANT BlockZeroRead
CHECK_DEADLOCK FALSE
