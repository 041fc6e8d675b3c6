\* one session that is stopped and broken, one whose connection is lost twice
SPECIFICATION FairSpec
CONSTANTS
    Plans <- FairPlans
    MaxPackets = 1
\* the frontend may stop calling: a finished history has no next step
CHECK_DEADLOCK FALSE
INVARIANTS TypeOK NoDeadlock
PROPERTIES NoRevival SessionEnds 
