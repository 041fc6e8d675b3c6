SPECIFICATION Spec
CONSTANTS
    Count <- PatternCount
    Video <- PatternVideo
    Prio <- PatternPrio
    Refs <- PatternRefs
    BThreshold = 3
    PThreshold = 4
    Trigger = 2
    Few = 3
    Modes = {TRUE, FALSE}
    Rates = {250, 600}
    Estimates = {50, 320}
    MinRate = 50
    RateStep = 100
    MaxSessions = 2
INVARIANT TypeOK
INVARIANT SentAreDecodable
INVARIANT BacklogBounded
INVARIANT DroppedAccounting
INVARIANT EnoughPosts
INVARIANT RestoreIsScheduled
CHECK_DEADLOCK FALSE
