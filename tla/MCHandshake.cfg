CONSTANTS
    p1 = p1
    p2 = p2
    p3 = p3
    Parties = {p1, p2, p3}
    Nobody = Nobody
    Present <- MCPresent
    NumSlots = 2
    MAX_CHALLENGES = 2
    MAX_CHALLENGES_MULTI = 1
    RETRANSMIT_TIMEOUT = 3
    ReconnectLimit = 3
    MaxDelay = 1
    MaxAttempts <- MCAttempts
    MaxNumbers = 8
SPECIFICATION FairSpec
INVARIANTS
    OneSlotEach
    GameAgrees
PROPERTIES
    SettledStays
    Connects
CHECK_DEADLOCK FALSE
