CONSTANTS
    MaxServerId = 2
    MaxDownloads = 1
    MaxBlocks = 2
    MaxLosses = 0
    MaxInFlight = 1
SPECIFICATION FairSpec
PROPERTY DownloadLeadsToGame
CHECK_DEADLOCK FALSE
