\* a session that retries and one that is restarted while it ends
SPECIFICATION Spec
CONSTANTS
    Plans <- OtherPlans
    MaxPackets = 1
\* the frontend may stop calling: a finished history has no next step
CHECK_DEADLOCK FALSE
INVARIANTS NoOrphanEncoders StopCodeIsTrue
