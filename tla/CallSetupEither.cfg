SPECIFICATION FairSpec
CONSTANTS
    MAX_ICE_RESTARTS = 2
    MaxOutages = 0
    MaxIncidents = 0
PROPERTY CallEstablished
\* nobody need join, and a call whose restarts are used up stays as it is
CHECK_DEADLOCK FALSE
