CONSTANTS
    MAX_RELIABLE_COMMANDS = 2
    MaxCommands = 5
    MaxPrints = 2
    MaxInFlight = 2
SPECIFICATION FairSpec
INVARIANTS
    CommandsIntact
    DisconnectIsLast
PROPERTY CommandsArrive
CHECK_DEADLOCK FALSE
