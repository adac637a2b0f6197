SPECIFICATION ParserSpec
CONSTANTS
    MaxParts = 3
    MaxStarts = 3
    ChunkSize = 2
    Counts = {0, 1, 2, 3}
    Tracks <- DsdTracks
INVARIANTS
    OnlyFilteredFramesEmitted
