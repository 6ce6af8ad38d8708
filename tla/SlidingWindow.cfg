SPECIFICATION Spec
CONSTANTS
    LIMIT = 2
    WINDOW = 2
    MaxTime = 6
    MaxSettings = 2
    MaxError = 2
INVARIANTS ListIsLatest LimitHolds RefusalJustified
