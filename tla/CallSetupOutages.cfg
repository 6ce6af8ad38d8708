SPECIFICATION Spec
CONSTANTS
    MAX_ICE_RESTARTS = 1
    MaxOutages = 1
    MaxIncidents = 1
INVARIANTS CallTypeOK BadgeTruthful
PROPERTY LiveMediaKept
\* nobody need join, and a call whose restarts are used up stays as it is
CHECK_DEADLOCK FALSE
