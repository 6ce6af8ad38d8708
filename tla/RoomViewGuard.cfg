SPECIFICATION FairSpec
CONSTANTS
    Code = {c1}
    Person = {p}
    MAX_PARTICIPANTS = 2
    MaxMishaps = 1
    MaxInTransit = 2
PROPERTIES SeatlessPageEnds
\* a connection refused for good ends everything on the page
CHECK_DEADLOCK FALSE
