SPECIFICATION Spec
CONSTANTS
    SessionId = {s1, s2, s3}
    Code = {c1, c2}
    Socket = {k1, k2}
    NoSession = NoSession
    NoSocket = NoSocket
    MAX_PARTICIPANTS = 2
    MAX_ROOMS_PER_SESSION = 2
PROPERTIES OnlyParticipantsLeave
