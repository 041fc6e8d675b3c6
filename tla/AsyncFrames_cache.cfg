SPECIFICATION FairSpec
CONSTANTS
    Frames = {f1, f2, f3, f4, f5, f6, f7}
    None = None
    Sizes = {1, 2}
    NoSize = 0
    MaxAsync = 2
    MaxUnused = 2
    MaxVar = 16
    Smooth = 2
    Mod = 64
    Lapses = {4}
    Steps = {4, 40}
    Modes = {TRUE, FALSE}
    Delays = {0, 6}
    MaxJump = 8
    MaxSent = 4
INVARIANT TypeOK
INVARIANT RefsAreOwners
INVARIANT ExclusiveCopy
INVARIANT UsedWhileNeeded
PROPERTY ShownInOrder
PROPERTY QueueMoves
