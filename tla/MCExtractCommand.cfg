SPECIFICATION Spec
CONSTANTS
    Discs <- MCDiscs
    Selections <- MCSelections
    MaxExtra = 1
    DiscSectors = 80
    U32 = 128
    MinuteFrames = 4500
    MinuteLimit = 256
INVARIANTS
    TypeOK
    IntactCopySuffices
    WholeReadsNeverPanic
    OkMeansAllTracks
    LowerTracksFirst
    RangesTile
    EstimateCutsOneSharedSector
    EmptyOnlyByContradiction
