SPECIFICATION FairSpec
CONSTANTS
    MAX_ICE_RESTARTS = 2
    MaxOutages = 0
    MaxIncidents = 2
INVARIANTS OneOfferer AnswerFits
PROPERTIES OffererJoins RestartEnds
\* nobody need join, and a call whose restarts are used up stays as it is
CHECK_DEADLOCK FALSE
