CONSTANTS
    DiscSectors = 3
    SectorSize = 2
    MaxBlock = 2
    ChunkSize = 4
    MaxSize = 11
    U32 = 6
    MaxCalls = 1
SPECIFICATION Spec
INVARIANTS
    TypeOK
    ReadsItsOwnReply
    StreamInStep
    IsoIsPrefix
    IsoOkMeansWhole
    DiscIsClosed
PROPERTY CallsReturn
