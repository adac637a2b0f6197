SPECIFICATION Spec
CONSTANTS
    Channels = 2
    Block = 3
    TrackCount = 3
    MaxLen = 4
    MaxPiece = 3
INVARIANTS
    SampleCountIsAudio
