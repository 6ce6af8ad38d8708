SPECIFICATION FairSpec
CONSTANTS
    Code = {c1, c2}
    Person = {p}
    MAX_PARTICIPANTS = 2
    MaxMishaps = 2
    MaxInTransit = 2
INVARIANTS ViewMatches ShownHasSeat
PROPERTIES WaitingEnds LeaveFreesSeat
\* a connection refused for good ends everything on the page
CHECK_DEADLOCK FALSE
