SPECIFICATION NicknamesSpec
CONSTANTS
    SessionId = {s1, s2, s3}
    Code = {c1, c2, c3}
    Base = {Ann, Bob}
    MAX_PARTICIPANTS = 2
    MAX_ROOMS_PER_SESSION = 2
SYMMETRY Symmetry
INVARIANTS RoomTypeOK IndexConsistent RoomOpenIffOccupied CapacityRespected NamesDistinct
