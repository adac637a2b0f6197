SPECIFICATION Spec
CONSTANTS
    Discs <- DstDiscs
    Selections <- MCSelections
    MaxExtra = 1
    DiscSectors = 80
    U32 = 128
    MinuteFrames = 4500
    MinuteLimit = 256
INVARIANTS
    EstimateHoldsDstTrack
