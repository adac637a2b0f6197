SPECIFICATION Spec
CONSTANTS
    SectorSize = 2048
    Sectors <- MCSectors
    Discs <- MCDiscs
INVARIANTS
    SectorIsSplit
    TextsSurvive
    TagIsUnambiguous
