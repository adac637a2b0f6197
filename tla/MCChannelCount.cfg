SPECIFICATION Spec
CONSTANTS
    SectorSize = 2048
    Sectors <- MCSectors
    Discs <- NoDiscs
INVARIANT ChannelCountAsMastered
