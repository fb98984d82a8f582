\* Two clients, one task per life, two lives, one failed file operation.
SPECIFICATION Spec
CONSTANTS
    Clients = {c1, c2}
    Main = c1
    c1 = c1
    c2 = c2
    MaxId = 1
    MaxLives = 2
    MaxFaults = 1
    None = None
INVARIANTS
    TypeOK
    QueuedHasCheckpoint
    CacheAgreesWithDisk
