\* two encoders on two textures
SPECIFICATION FairSpec
CONSTANTS
    a = a
    b = b
    Encoders <- TwoEncoders
    Textures = 2
    Plans <- QueuePlans
\* the clock and the calls are bounded: a finished history has no next step
CHECK_DEADLOCK FALSE
PROPERTIES TicksConsecutive StopReturns TicksFinished
INVARIANTS TypeOK QueuesAgree NotUsedAfterStop
