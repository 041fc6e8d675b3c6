SPECIFICATION FairSpec
CONSTANTS
    ChunkSize = 2
    MinFlush = 2
    BufferSize = 6
    Reserved = 2
    HeaderSize = 1
    Sizes = {1, 3}
    MaxPos = 4
    MaxUnits = 6
    MaxSeeks = 2
    MaxFails = 1
CHECK_DEADLOCK FALSE
PROPERTY FailureIsSignalled
