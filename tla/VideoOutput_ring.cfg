SPECIFICATION FairSpec
CONSTANTS
    a = a
    b = b
    CacheSize = 3
    Inputs <- TwoInputs
    Failing <- OneInput
    Divisors <- JustTwo
    MaxTick = 5
    MaxCount = 2
    MaxGpuRefs = 1
INVARIANT TypeOK
INVARIANT NoTearing
INVARIANT NeverReadsEmptyRing
INVARIANT SkipAccounting
INVARIANT InputsOnTheirFrames
PROPERTY ImplementsTickStream
