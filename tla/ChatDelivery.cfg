SPECIFICATION FairSpec
CONSTANTS
    Person = {a, b}
    MAX_MESSAGES = 2
    MaxTurns = 3
INVARIANTS HistoryAgrees
PROPERTIES PendingSettles IndicatorEnds
\* nobody need write again when the turns are used up
CHECK_DEADLOCK FALSE
