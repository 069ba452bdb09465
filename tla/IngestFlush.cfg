SPECIFICATION FairSpec
CONSTANTS
    Batches = {1, 2, 3}
    Workers = {1, 2}
    PartitionOf <- FirstHasTwo
    QueueMax = 2
    FlushRows = 2
    Remotes <- SurrealThenClickHouse
    Attempts = 2
    Threshold = 2
    MaxStops = 1
INVARIANTS
    CommittedIsPersisted
    PartitionOrder
PROPERTIES
    LogDrains
    ShutdownEnds
CHECK_DEADLOCK FALSE
