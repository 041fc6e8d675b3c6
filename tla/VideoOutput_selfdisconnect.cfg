SPECIFICATION Spec
CONSTANTS
    a = a
    b = b
    CacheSize = 1
    Inputs <- TwoInputs
    Failing <- OneInput
    Divisors <- JustOne
    MaxTick = 2
    MaxCount = 1
    MaxGpuRefs = 0
INVARIANT SameStartSameFrames
