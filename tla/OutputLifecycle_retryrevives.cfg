\* a stop while the connection is lost
SPECIFICATION Spec
CONSTANTS
    Plans <- RetryPlan
    MaxPackets = 1
\* the frontend may stop calling: a finished history has no next step
CHECK_DEADLOCK FALSE
PROPERTY NoRevival
