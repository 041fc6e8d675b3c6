\* two encoders on two textures
SPECIFICATION Spec
CONSTANTS
    a = a
    b = b
    Encoders <- TwoEncoders
    Textures = 2
    Plans <- PausePlan
\* the clock and the calls are bounded: a finished history has no next step
CHECK_DEADLOCK FALSE
INVARIANT UnpauseReached
