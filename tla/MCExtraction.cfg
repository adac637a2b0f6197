SPECIFICATION TrackSpec
CONSTANTS
    EndLsn = 5
    MaxYield = 3
    BatchSectors = 3
    ChannelCapacity = 2
    BatchSize = 2
    DecodedQueueDepth = 1
    MaxParts = 2
    MaxStarts = 2
    ChunkSize = 2
    Counts = {}
    Tracks <- MCTracks
INVARIANT FileIsTheTrack
