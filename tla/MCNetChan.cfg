CONSTANTS
    FRAGMENT_SIZE = 2
    MAX_MSGLEN = 5
    MaxMessages = 3
    alternateProtocol = 0
    challenge = 5
    INT_BITS = 4
    Lengths <- MCLengths
    Stale <- MCStale
SPECIFICATION FairSpec
INVARIANTS
    DeliveredIntact
PROPERTIES
    DatagramSpec
    QueueDrains
CHECK_DEADLOCK FALSE
