SPECIFICATION Spec
CONSTANTS
    Channels = 3
    Block = 2
    TrackCount = 3
    MaxLen = 5
    MaxPiece = 3
INVARIANTS
    TypeOK
    Gapless
    HolesLoseTailsOnly
    PaddingOnlyAtEnd
    PaddedSampleCountIsAudio
