SPECIFICATION Spec
CONSTANTS
    EndLsn = 5
    MaxYield = 2
    BatchSectors = 2
    ChannelCapacity = 2
    BatchSize = 3
    DecodedQueueDepth = 2
INVARIANTS
    TypeOK
    WrittenInOrder
    NothingLostInFlight
    OkMeansComplete
    FailureExplained
    BlameIsTrue
    MemoryBounded
PROPERTIES
    Returns
    RefinesTransfer
