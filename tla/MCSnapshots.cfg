SPECIFICATION SnapshotsSpec
CONSTANTS
    PACKET_BACKUP = 6
    MAX_SNAPSHOT_ENTITIES = 2
    NumSnapshotEntities = 6
    Entities <- TwoEntities
    Worlds <- TenWorlds
    OtherEntities <- Others
    MaxServerId = 2
    MaxSequence = 10
    MaxInFlight = 2
CHECK_DEADLOCK FALSE
INVARIANTS
    SnapshotsTypeOK
    SnapshotsIntact
    DeltasApply
