SPECIFICATION FairSpec
CONSTANTS
    SessionId = {s1, s2}
    Code = {c1}
    Socket = {k1, k2}
    NoSession = NoSession
    NoSocket = NoSocket
    MAX_PARTICIPANTS = 2
    MAX_ROOMS_PER_SESSION = 1
PROPERTIES ImplementsMembership AbandonedRoomCloses GhostTypingEnds LeftoversSwept GraceEnds
