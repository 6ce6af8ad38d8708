SPECIFICATION Spec
CONSTANTS
    SessionId = {s1, s2, s3}
    Code = {c1, c2}
    Socket = {k1, k2, k3}
    NoSession = NoSession
    NoSocket = NoSocket
    MAX_PARTICIPANTS = 2
    MAX_ROOMS_PER_SESSION = 2
SYMMETRY Symmetry
VIEW ButFailedJoins
INVARIANTS TypeOK GraceTimer SocketBijection ParticipantsAlive CapturedSessionCurrent BroadcastScope TransientStateCleared DeliveredInRoom RosterTruthful
PROPERTIES MembershipAnnounced SeatKept TypingEndTold
