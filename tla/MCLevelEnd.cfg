CONSTANTS
    NumClients = 2
    INTERMISSION_DELAY_TIME = 1
    StartDelay = 1
    MinIntermission = 1
    ReadyTimeout = 2
    MaxIntermission = 3
    TimeLimit = 3
    MaxSpawns = 1
    MaxTime = 12
SPECIFICATION LevelFairSpec
INVARIANT LevelTypeOK
PROPERTIES
    LevelEnds
    WaitsForPlayers
    WinnerStands
    LoserIsBeaten
