------------------------ MODULE SignalingServerProofs ------------------------
(***************************************************************************)
(* The signaling server, for every number of sessions, sockets and rooms.  *)
(* The inductive invariant joins those of the two tables with what ties    *)
(* them to the socket layer: captured session ids are current, broadcast   *)
(* rooms follow the room table, and what disconnect and expiry clear       *)
(* belongs to nobody else.                                                 *)
(* Every server step is a step (or a stutter) of each table, so the tables *)
(* keep their invariants by the theorems about them alone.  The last part  *)
(* is the refinement of RoomMembership, which rests on that invariant.     *)
(***************************************************************************)
EXTENDS SignalingRefinement, RoomServiceProofs, SessionServiceProofs

LayerTypeOK ==
    /\ typing \subseteq Code \X SessionId
    /\ recentMessages \subseteq SessionId
    /\ failedJoinAttempts \subseteq SessionId
    /\ connected \subseteq Socket
    /\ ioRooms \in [Socket -> SUBSET Code]
    /\ socketData \in [Socket -> SessionId \cup {NoSession}]

LayerInv ==
    /\ LayerTypeOK
    /\ ParticipantsAlive
    /\ CapturedSessionCurrent
    /\ BroadcastScope
    /\ TransientStateCleared

ServerInv == RoomInv /\ SessionInv /\ LayerInv

-----------------------------------------------------------------------------
(* A connected socket speaks for exactly one live session, bound to it.    *)
LEMMA SpeakerBound ==
    ASSUME NEW k \in connected, ServerInv
    PROVE  /\ k \in Socket
           /\ socketData[k] \in SessionId
           /\ socketData[k] \in sessions
           /\ socketOf[socketData[k]] = k
           /\ socketToSession[k] = socketData[k]
BY NullAssumption DEF ServerInv, LayerInv, LayerTypeOK, CapturedSessionCurrent, SessionInv,
                      SessionTypeOK, SocketBijection

(* A fresh socket is bound to nothing.                                     *)
LEMMA FreshUnbound ==
    ASSUME NEW k \in Socket, k \notin connected, ServerInv
    PROVE  /\ socketToSession[k] = NoSession /\ socketData[k] = NoSession
           /\ ioRooms[k] = {}
<1>1. socketToSession[k] = NoSession
  BY NullAssumption DEF ServerInv, LayerInv, CapturedSessionCurrent, SessionInv, SessionTypeOK,
      SocketBijection
<1>2. socketData[k] = NoSession
  BY <1>1 DEF ServerInv, LayerInv, CapturedSessionCurrent
<1>3. ioRooms[k] = {}
  BY DEF ServerInv, LayerInv, BroadcastScope
<1> QED
  BY <1>1, <1>2, <1>3

(* A refused join and the sweep touch nothing but the join throttle.       *)
LEMMA JoinRefusedTouches ==
    ASSUME NEW k \in Socket, NEW c \in Code, ServerInv, JoinRefused(k, c)
    PROVE  /\ UNCHANGED <<roomVars, sessionVars, typing, recentMessages, socketVars>>
           /\ out' = {}
           /\ failedJoinAttempts' \subseteq SessionId
<1>1. socketData[k] \in SessionId
  BY SpeakerBound DEF JoinRefused
<1> QED
  BY <1>1 DEF JoinRefused, CountAttempt, ServerInv, LayerInv, LayerTypeOK

LEMMA SweepTouches ==
    ASSUME NEW old, ServerInv, SweepFailedJoins(old)
    PROVE  /\ UNCHANGED <<roomVars, sessionVars, typing, recentMessages, socketVars>>
           /\ out' = {}
           /\ failedJoinAttempts' \subseteq SessionId
BY DEF SweepFailedJoins, ServerInv, LayerInv, LayerTypeOK

(* Every server step is a step of the room table, or leaves it alone.      *)
LEMMA StepsOfRoomTable == ServerInv /\ [Next]_vars => [RoomNext]_roomVars
<1> SUFFICES ASSUME ServerInv, [Next]_vars PROVE [RoomNext]_roomVars
  OBVIOUS
<1>1. CASE ConnectionStep
  BY <1>1 DEF ConnectionStep, ConnectFresh, ConnectReclaim, ConnectTakeover, Disconnect
<1>2. CASE EventStep
  <2>1. ASSUME NEW k \in Socket, NEW c \in Code, RoomCreate(k, c) \/ RoomJoin(k, c) \/ RoomLeave(k, c)
        PROVE  RoomNext
    BY <2>1, SpeakerBound DEF RoomCreate, RoomJoin, RoomLeave, RoomNext
  <2>2. ASSUME NEW k \in Socket, NEW c \in Code,
               \/ ChatMessage(k, c) \/ TypingStart(k, c) \/ TypingStop(k, c)
               \/ PresenceRequest(k, c) \/ MediaState(k, c) \/ Refused(k)
               \/ \E t \in SessionId, ev \in Signals : SignalRelay(k, c, t, ev)
        PROVE  UNCHANGED roomVars
    BY <2>2 DEF ChatMessage, TypingStart, TypingStop, PresenceRequest, MediaState, Refused,
        SignalRelay
  <2>3. ASSUME NEW k \in Socket, Refused(k) PROVE UNCHANGED roomVars
    BY <2>3 DEF Refused
  <2>4. ASSUME NEW k \in Socket, NEW c \in Code, JoinRefused(k, c) PROVE UNCHANGED roomVars
    BY <2>4, JoinRefusedTouches
  <2> QED
    BY <1>2, <2>1, <2>2, <2>3, <2>4 DEF EventStep
<1>3. CASE TimerStep
  BY <1>3 DEF TimerStep, SweepFailedJoins, GraceExpire, TypingExpire, Reap, RoomNext, ServerInv,
      SessionInv, SessionTypeOK
<1>4. CASE Restart
  BY <1>4 DEF Restart, RoomNext
<1>5. CASE UNCHANGED vars
  BY <1>5 DEF vars
<1> QED
  BY <1>1, <1>2, <1>3, <1>4, <1>5 DEF Next

(* The clients' events do not touch the session table.                     *)
LEMMA EventsLeaveSessions == EventStep => UNCHANGED sessionVars
<1> SUFFICES ASSUME EventStep PROVE UNCHANGED sessionVars
  OBVIOUS
<1>1. ASSUME NEW k \in Socket, NEW c \in Code,
             RoomCreate(k, c) \/ RoomJoin(k, c) \/ JoinRefused(k, c) \/ RoomLeave(k, c)
      PROVE  UNCHANGED sessionVars
  BY <1>1 DEF RoomCreate, RoomJoin, JoinRefused, RoomLeave
<1>2. ASSUME NEW k \in Socket, NEW c \in Code,
             ChatMessage(k, c) \/ TypingStart(k, c) \/ TypingStop(k, c)
      PROVE  UNCHANGED sessionVars
  BY <1>2 DEF ChatMessage, TypingStart, TypingStop
<1>3. ASSUME NEW k \in Socket, NEW c \in Code, PresenceRequest(k, c) \/ MediaState(k, c)
      PROVE  UNCHANGED sessionVars
  BY <1>3 DEF PresenceRequest, MediaState
<1>4. ASSUME NEW k \in Socket, NEW c \in Code, NEW t \in SessionId, NEW ev \in Signals,
             SignalRelay(k, c, t, ev)
      PROVE  UNCHANGED sessionVars
  BY <1>4 DEF SignalRelay
<1>5. ASSUME NEW k \in Socket, Refused(k) PROVE UNCHANGED sessionVars
  BY <1>5 DEF Refused
<1> QED
  BY <1>1, <1>2, <1>3, <1>4, <1>5, Zenon DEF EventStep

(* Every server step is a step of the session table, or leaves it alone.   *)
LEMMA StepsOfSessionTable == ServerInv /\ [Next]_vars => [SessionNext]_sessionVars
<1> SUFFICES ASSUME ServerInv, [Next]_vars PROVE [SessionNext]_sessionVars
  OBVIOUS
<1>1. CASE ConnectionStep
  <2>1. ASSUME NEW k \in Socket, NEW s \in SessionId,
               ConnectFresh(k, s) \/ ConnectReclaim(k, s) \/ ConnectTakeover(k, s)
        PROVE  SessionNext
    BY <2>1, FreshUnbound DEF ConnectFresh, ConnectReclaim, ConnectTakeover, SessionNext
  <2>2. ASSUME NEW k \in Socket, Disconnect(k) PROVE SessionNext
    BY <2>2 DEF Disconnect, SessionNext
  <2> QED
    BY <1>1, <2>1, <2>2 DEF ConnectionStep
<1>2. CASE EventStep
  BY <1>2, EventsLeaveSessions
<1>3. CASE TimerStep
  BY <1>3 DEF TimerStep, GraceExpire, TypingExpire, SweepFailedJoins, Reap, SessionNext
<1>4. CASE Restart
  BY <1>4 DEF Restart, SessionNext
<1>5. CASE UNCHANGED vars
  BY <1>5 DEF vars
<1> QED
  BY <1>1, <1>2, <1>3, <1>4, <1>5 DEF Next

-----------------------------------------------------------------------------
(* The socket layer's own part of the invariant, one action at a time.     *)
LEMMA ConnectFreshKeepsLayer ==
    ASSUME NEW k \in Socket, NEW s \in SessionId, ServerInv, ConnectFresh(k, s)
    PROVE  LayerInv'
<1> USE DEF throttleVars, ConnectFresh, Create, roomVars, ServerInv, LayerInv, LayerTypeOK, SessionInv,
            SessionTypeOK, RoomInv, RoomTypeOK
<1>1. LayerTypeOK'
  OBVIOUS
<1>2. ParticipantsAlive'
  BY DEF ParticipantsAlive
<1>3. CapturedSessionCurrent'
  BY FreshUnbound, NullAssumption DEF CapturedSessionCurrent, SocketBijection
<1>4. BroadcastScope'
  BY FreshUnbound DEF BroadcastScope, ParticipantsAlive
<1>5. TransientStateCleared'
  BY NullAssumption DEF TransientStateCleared, Bound
<1> QED
  BY <1>1, <1>2, <1>3, <1>4, <1>5

LEMMA ConnectReclaimKeepsLayer ==
    ASSUME NEW k \in Socket, NEW s \in SessionId, ServerInv, ConnectReclaim(k, s)
    PROVE  LayerInv'
<1> USE DEF throttleVars, ConnectReclaim, Reclaim, roomVars, ServerInv, LayerInv, LayerTypeOK, SessionInv,
            SessionTypeOK, RoomInv, RoomTypeOK
<1>1. LayerTypeOK'
  BY DEF GetRoomsBySession
<1>2. ParticipantsAlive'
  BY DEF ParticipantsAlive
<1>3. socketOf[s] = NoSocket
  BY DEF CapturedSessionCurrent, SocketBijection
<1>4. CapturedSessionCurrent'
  BY <1>3, NullAssumption DEF CapturedSessionCurrent
<1>5. BroadcastScope'
  BY FreshUnbound DEF BroadcastScope, GetRoomsBySession, IndexConsistent
<1>6. TransientStateCleared'
  BY NullAssumption DEF TransientStateCleared, Bound
<1> QED
  BY <1>1, <1>2, <1>4, <1>5, <1>6

LEMMA ConnectTakeoverKeepsLayer ==
    ASSUME NEW k \in Socket, NEW s \in SessionId, ServerInv, ConnectTakeover(k, s)
    PROVE  LayerInv'
<1> USE DEF throttleVars, ConnectTakeover, Reclaim, ClearTyping, roomVars, ServerInv, LayerInv, LayerTypeOK,
            SessionInv, SessionTypeOK, RoomInv, RoomTypeOK
<1>1. LayerTypeOK'
  BY DEF GetRoomsBySession
<1>2. ParticipantsAlive'
  BY DEF ParticipantsAlive
<1>3. CapturedSessionCurrent'
  BY NullAssumption DEF CapturedSessionCurrent
<1>4. BroadcastScope'
  BY FreshUnbound DEF BroadcastScope, GetRoomsBySession, IndexConsistent
<1>5. TransientStateCleared'
  BY NullAssumption DEF TransientStateCleared, Bound
<1> QED
  BY <1>1, <1>2, <1>3, <1>4, <1>5

LEMMA DisconnectKeepsLayer ==
    ASSUME NEW k \in Socket, ServerInv, Disconnect(k)
    PROVE  LayerInv'
<1> USE DEF throttleVars, Disconnect, HandleDisconnect, ClearTyping, roomVars, sessionVars, ServerInv, LayerInv,
            LayerTypeOK, SessionInv, SessionTypeOK, RoomInv, RoomTypeOK
<1>1. LayerTypeOK'
  OBVIOUS
<1>2. ParticipantsAlive'
  BY DEF ParticipantsAlive
<1>3. CapturedSessionCurrent'
  BY NullAssumption DEF CapturedSessionCurrent
<1>4. BroadcastScope'
  BY DEF BroadcastScope
<1>5. TransientStateCleared'
  BY SpeakerBound DEF TransientStateCleared, Bound
<1> QED
  BY <1>1, <1>2, <1>3, <1>4, <1>5

LEMMA RoomCreateKeepsLayer ==
    ASSUME NEW k \in Socket, NEW c \in Code, ServerInv, RoomCreate(k, c)
    PROVE  LayerInv'
<1> USE SpeakerBound DEF throttleVars, RoomCreate, CreateRoom, CanCreate, sessionVars, ServerInv, LayerInv,
            LayerTypeOK, SessionInv, SessionTypeOK, RoomInv, RoomTypeOK
<1>1. LayerTypeOK'
  OBVIOUS
<1>2. ParticipantsAlive'
  BY DEF ParticipantsAlive
<1>3. CapturedSessionCurrent'
  BY DEF CapturedSessionCurrent
<1>4. BroadcastScope'
  BY DEF BroadcastScope, RoomOpenIffOccupied
<1>5. TransientStateCleared'
  BY DEF TransientStateCleared, Bound
<1> QED
  BY <1>1, <1>2, <1>3, <1>4, <1>5

LEMMA RoomJoinKeepsLayer ==
    ASSUME NEW k \in Socket, NEW c \in Code, ServerInv, RoomJoin(k, c)
    PROVE  LayerInv'
<1> USE SpeakerBound DEF CountAttempt, RoomJoin, JoinRoom, CanJoin, sessionVars, ServerInv, LayerInv,
            LayerTypeOK, SessionInv, SessionTypeOK, RoomInv, RoomTypeOK
<1>1. LayerTypeOK'
  OBVIOUS
<1>2. ParticipantsAlive'
  BY DEF ParticipantsAlive
<1>3. CapturedSessionCurrent'
  BY DEF CapturedSessionCurrent
<1>4. BroadcastScope'
  BY DEF BroadcastScope
<1>5. TransientStateCleared'
  BY DEF TransientStateCleared, Bound
<1> QED
  BY <1>1, <1>2, <1>3, <1>4, <1>5

LEMMA RoomLeaveKeepsLayer ==
    ASSUME NEW k \in Socket, NEW c \in Code, ServerInv, RoomLeave(k, c)
    PROVE  LayerInv'
<1> USE SpeakerBound DEF throttleVars, RoomLeave, LeaveRoom, roomVars, sessionVars, ServerInv, LayerInv,
            LayerTypeOK, SessionInv, SessionTypeOK, RoomInv, RoomTypeOK
<1>1. LayerTypeOK'
  OBVIOUS
<1>2. ParticipantsAlive'
  BY DEF ParticipantsAlive
<1>3. CapturedSessionCurrent'
  BY DEF CapturedSessionCurrent
<1>4. BroadcastScope'
  BY DEF BroadcastScope, RoomOpenIffOccupied
<1>5. TransientStateCleared'
  BY DEF TransientStateCleared, Bound
<1> QED
  BY <1>1, <1>2, <1>3, <1>4, <1>5

(* Events that move nobody: whoever is typing or sending afterwards either *)
(* was before or is the speaker of a connected socket.                     *)
LEMMA QuietStepKeepsLayer ==
    ASSUME ServerInv, UNCHANGED <<roomVars, sessionVars, socketVars>>,
           NEW S \in SUBSET {socketData[k] : k \in connected},
           typing' \subseteq typing \cup (Code \X S),
           recentMessages' \subseteq recentMessages \cup S,
           failedJoinAttempts' \subseteq SessionId
    PROVE  LayerInv'
<1> USE DEF roomVars, sessionVars, socketVars, ServerInv, LayerInv, LayerTypeOK
<1>1. \A s \in S : s \in SessionId /\ Bound(s)
  BY SpeakerBound, NullAssumption DEF Bound
<1>2. LayerTypeOK'
  BY <1>1
<1>3. ParticipantsAlive' /\ CapturedSessionCurrent' /\ BroadcastScope'
  BY DEF ParticipantsAlive, CapturedSessionCurrent, BroadcastScope
<1>4. \A p \in typing' : p \in typing \/ p[2] \in S
  OBVIOUS
<1>5. TransientStateCleared'
  BY <1>1, <1>4 DEF TransientStateCleared, Bound
<1> QED
  BY <1>2, <1>3, <1>5

LEMMA EventStepKeepsLayer ==
    ASSUME NEW k \in Socket, ServerInv,
           \/ \E c \in Code :
                \/ ChatMessage(k, c) \/ TypingStart(k, c) \/ TypingStop(k, c)
                \/ PresenceRequest(k, c) \/ MediaState(k, c)
                \/ \E t \in SessionId, ev \in Signals : SignalRelay(k, c, t, ev)
           \/ Refused(k)
    PROVE  LayerInv'
<1> DEFINE s == socketData[k]
<1>1. k \in connected
  BY DEF ChatMessage, TypingStart, TypingStop, PresenceRequest, MediaState, SignalRelay, Refused
<1>2. UNCHANGED <<roomVars, sessionVars, socketVars>>
  BY DEF ChatMessage, TypingStart, TypingStop, PresenceRequest, MediaState, SignalRelay, Refused
<1>3. typing' \subseteq typing \cup (Code \X {s}) /\ recentMessages' \subseteq recentMessages \cup {s}
  <2>1. ASSUME NEW c \in Code, ChatMessage(k, c) \/ TypingStop(k, c)
        PROVE  typing' \subseteq typing /\ recentMessages' \subseteq recentMessages \cup {s}
    BY <2>1 DEF ChatMessage, TypingStop, StopTyping, throttleVars
  <2>2. ASSUME NEW c \in Code, TypingStart(k, c)
        PROVE  typing' = typing \cup {<<c, s>>} /\ recentMessages' = recentMessages
    BY <2>2 DEF TypingStart, StartTyping, throttleVars
  <2>3. \A c \in Code : {<<c, s>>} \subseteq Code \X {s}
    OBVIOUS
  <2>4. ASSUME NEW c \in Code, TypingStart(k, c)
        PROVE  typing' \subseteq typing \cup (Code \X {s}) /\ recentMessages' \subseteq recentMessages \cup {s}
    BY <2>2, <2>3, <2>4
  <2>5. typing \subseteq typing \cup (Code \X {s}) /\ recentMessages \subseteq recentMessages \cup {s}
    OBVIOUS
  <2>6. ASSUME NEW c \in Code, ChatMessage(k, c) \/ TypingStop(k, c)
        PROVE  typing' \subseteq typing \cup (Code \X {s}) /\ recentMessages' \subseteq recentMessages \cup {s}
    BY <2>1, <2>5, <2>6
  <2>7. ASSUME \/ \E c \in Code :
                    \/ PresenceRequest(k, c) \/ MediaState(k, c)
                    \/ \E t \in SessionId, ev \in Signals : SignalRelay(k, c, t, ev)
               \/ Refused(k)
        PROVE  typing' = typing /\ recentMessages' = recentMessages
    BY <2>7 DEF PresenceRequest, MediaState, SignalRelay, Refused, throttleVars
  <2> HIDE DEF s
  <2> QED
    BY <2>4, <2>5, <2>6, <2>7
<1>4. {s} \in SUBSET {socketData[j] : j \in connected}
  BY <1>1
<1>5. failedJoinAttempts' \subseteq SessionId
  BY DEF ChatMessage, TypingStart, TypingStop, PresenceRequest, MediaState, SignalRelay, Refused,
         throttleVars, ServerInv, LayerInv, LayerTypeOK
<1> QED
  BY <1>2, <1>3, <1>4, <1>5, QuietStepKeepsLayer

(* The join throttle holds sessions of any kind, so whatever else a step   *)
(* leaves alone keeps the invariant.                                       *)
LEMMA ThrottleStepKeepsLayer ==
    ASSUME ServerInv, UNCHANGED <<roomVars, sessionVars, typing, recentMessages, socketVars>>,
           failedJoinAttempts' \subseteq SessionId
    PROVE  LayerInv'
BY DEF roomVars, sessionVars, socketVars, ServerInv, LayerInv, LayerTypeOK, ParticipantsAlive,
       CapturedSessionCurrent, BroadcastScope, TransientStateCleared, Bound

LEMMA GraceExpireKeepsLayer ==
    ASSUME NEW s \in SessionId, ServerInv, GraceExpire(s)
    PROVE  LayerInv'
<1> USE DEF GraceExpire, CleanupTimerFires, RemoveFromAll, ClearTyping, CodesLeft, socketVars,
            ServerInv, LayerInv, LayerTypeOK, SessionInv, SessionTypeOK, RoomInv, RoomTypeOK
<1>1. s \in sessions /\ socketOf[s] = NoSocket
  BY DEF GraceTimer, InGrace
<1>2. LayerTypeOK'
  OBVIOUS
<1>3. \A c \in Code : participants'[c] = participants[c] \ {s}
  BY DEF IndexConsistent, RoomOpenIffOccupied
<1>4. ParticipantsAlive'
  BY <1>3 DEF ParticipantsAlive
<1>5. \A k \in Socket : socketData[k] # s /\ socketToSession[k] # s
  BY <1>1, NullAssumption DEF CapturedSessionCurrent, SocketBijection
<1>6. CapturedSessionCurrent'
  BY <1>1, <1>5, NullAssumption DEF CapturedSessionCurrent
<1>7. BroadcastScope'
  BY <1>3, <1>5 DEF BroadcastScope
<1>8. TransientStateCleared'
  BY <1>1 DEF TransientStateCleared, Bound
<1> QED
  BY <1>2, <1>4, <1>6, <1>7, <1>8

LEMMA TypingExpireKeepsLayer ==
    ASSUME NEW s \in SessionId, NEW c \in Code, ServerInv, TypingExpire(c, s)
    PROVE  LayerInv'
<1>1. /\ UNCHANGED <<roomVars, sessionVars, socketVars>>
      /\ typing' \subseteq typing \cup (Code \X {})
      /\ recentMessages' \subseteq recentMessages \cup {}
      /\ failedJoinAttempts' \subseteq SessionId
  BY DEF TypingExpire, TypingTimerFires, throttleVars, ServerInv, LayerInv, LayerTypeOK
<1> QED
  BY <1>1, QuietStepKeepsLayer

(* The reaper finds nothing: every participant's session is alive.         *)
LEMMA ReapIsIdle ==
    ASSUME ServerInv, ReapStale(sessions)
    PROVE  UNCHANGED roomVars
<1> USE DEF ReapStale, ServerInv, RoomInv, RoomTypeOK, LayerInv
<1>1. participants' = participants
  BY DEF ParticipantsAlive
<1>2. rooms' = rooms
  BY DEF ParticipantsAlive, RoomOpenIffOccupied
<1>3. sessionToRooms' = sessionToRooms
  BY DEF ParticipantsAlive
<1> QED
  BY <1>1, <1>2, <1>3 DEF roomVars

LEMMA ReapKeepsLayer ==
    ASSUME ServerInv, Reap
    PROVE  LayerInv'
<1>1. /\ UNCHANGED <<roomVars, sessionVars, socketVars>>
      /\ typing' \subseteq typing \cup (Code \X {})
      /\ recentMessages' \subseteq recentMessages \cup {}
      /\ failedJoinAttempts' \subseteq SessionId
  BY ReapIsIdle DEF Reap, throttleVars, ServerInv, LayerInv, LayerTypeOK
<1> QED
  BY <1>1, QuietStepKeepsLayer

LEMMA RestartKeepsLayer == Restart => LayerInv'
BY NullAssumption DEF Restart, RoomReset, SessionReset, LayerInv, LayerTypeOK, ParticipantsAlive,
    CapturedSessionCurrent, BroadcastScope, TransientStateCleared

-----------------------------------------------------------------------------
LEMMA ServerInvInit == Init => ServerInv
<1> SUFFICES ASSUME Init PROVE ServerInv
  OBVIOUS
<1>1. RoomInv /\ SessionInv
  BY RoomInvInit, SessionInvInit DEF Init
<1>2. LayerInv
  BY NullAssumption DEF Init, RoomInit, SessionInit, LayerInv, LayerTypeOK, ParticipantsAlive,
     CapturedSessionCurrent, BroadcastScope, TransientStateCleared
<1> QED
  BY <1>1, <1>2 DEF ServerInv

(* Every callback of the server keeps the invariant.                       *)
THEOREM ServerInvInductive == ServerInv /\ [Next]_vars => ServerInv'
<1> SUFFICES ASSUME ServerInv, [Next]_vars PROVE ServerInv'
  OBVIOUS
<1>1. RoomInv'
  BY StepsOfRoomTable, RoomInvInductive DEF ServerInv
<1>2. SessionInv'
  BY StepsOfSessionTable, SessionInvInductive DEF ServerInv
<1>3. LayerInv'
  <2>1. CASE ConnectionStep
    BY <2>1, ConnectFreshKeepsLayer, ConnectReclaimKeepsLayer, ConnectTakeoverKeepsLayer,
       DisconnectKeepsLayer DEF ConnectionStep
  <2>2. CASE EventStep
    <3>1. ASSUME NEW k \in Socket, NEW c \in Code, RoomCreate(k, c) \/ RoomJoin(k, c) \/ RoomLeave(k, c)
          PROVE  LayerInv'
      BY <3>1, RoomCreateKeepsLayer, RoomJoinKeepsLayer, RoomLeaveKeepsLayer
    <3>2. ASSUME NEW k \in Socket, NEW c \in Code, JoinRefused(k, c) PROVE LayerInv'
      BY <3>2, JoinRefusedTouches, ThrottleStepKeepsLayer
    <3> QED
      BY <2>2, <3>1, <3>2, EventStepKeepsLayer DEF EventStep
  <2>3. CASE TimerStep
    <3>1. ASSUME NEW old, SweepFailedJoins(old) PROVE LayerInv'
      BY <3>1, SweepTouches, ThrottleStepKeepsLayer
    <3> QED
      BY <2>3, <3>1, GraceExpireKeepsLayer, TypingExpireKeepsLayer, ReapKeepsLayer DEF TimerStep
  <2>4. CASE Restart
    BY <2>4, RestartKeepsLayer
  <2>5. CASE UNCHANGED vars
    BY <2>5 DEF vars, throttleVars, roomVars, sessionVars, socketVars, ServerInv, LayerInv,
        LayerTypeOK,
       ParticipantsAlive, CapturedSessionCurrent, BroadcastScope, TransientStateCleared, Bound
  <2> QED
    BY <2>1, <2>2, <2>3, <2>4, <2>5 DEF Next
<1> QED
  BY <1>1, <1>2, <1>3 DEF ServerInv

LEMMA ServerInvAlways == Spec => []ServerInv
<1>1. Init => ServerInv
  BY ServerInvInit
<1>2. ServerInv /\ [Next]_vars => ServerInv'
  BY ServerInvInductive
<1> QED
  BY <1>1, <1>2, PTL DEF Spec

(* The whole server implements the specification of each of its two        *)
(* tables: every callback runs at most one operation of either.            *)
THEOREM ServerRunsRoomTable == Spec => RoomSpec
<1>1. Init => RoomInit
  BY DEF Init
<1> QED
  BY <1>1, ServerInvAlways, StepsOfRoomTable, PTL DEF Spec, RoomSpec

THEOREM ServerRunsSessionTable == Spec => SessionSpec
<1>1. Init => SessionInit
  BY DEF Init
<1> QED
  BY <1>1, ServerInvAlways, StepsOfSessionTable, PTL DEF Spec, SessionSpec

(* Only live sessions participate in rooms.                                *)
THEOREM OnlyTheLiveParticipate == Spec => []ParticipantsAlive
BY ServerInvAlways, PTL DEF ServerInv, LayerInv

(* The session id a handler captured is the one its socket holds now.      *)
THEOREM CapturedIdsAreCurrent == Spec => []CapturedSessionCurrent
BY ServerInvAlways, PTL DEF ServerInv, LayerInv

(* Broadcasts to a room reach its connected participants and nobody else.  *)
THEOREM BroadcastsFollowRooms == Spec => []BroadcastScope
BY ServerInvAlways, PTL DEF ServerInv, LayerInv

(* What disconnect and expiry clear stays clear: typing timers belong to   *)
(* connected sessions and ChatService's throttle entries to live ones.     *)
THEOREM ClearedStaysClear == Spec => []TransientStateCleared
BY ServerInvAlways, PTL DEF ServerInv, LayerInv

-----------------------------------------------------------------------------
(* What the server sends, for every number of sessions, sockets and rooms: *)
(* every message has its type, goes to the other participants of its room  *)
(* and to nobody else, and every roster tells the truth.  Each callback is *)
(* taken in turn; ServerInv before and after it says whose sockets are in  *)
(* which broadcast room.  Then what a single step may never do: evict      *)
(* somebody on another's behalf, change a room without telling the people  *)
(* in it, or drop a typing indicator that they are shown.                  *)
OutTypeOK == out \subseteq Message

OutInv == OutTypeOK /\ DeliveredInRoom /\ RosterTruthful

Peers(c, s) == {k \in connected : socketData[k] \in participants[c] \ {s}}

(* A broadcast sent by a step that reaches exactly the peers of the        *)
(* session it names (or at least them, for typing:stop).                   *)
WellBroadcast(m) ==
    /\ m \in Message
    /\ m.ev \notin Answers \cup Signals
    /\ m.ev = "typing:stop" => Peers(m.room, m.sid)' \subseteq m.to
    /\ m.ev # "typing:stop" => m.to = Peers(m.room, m.sid)'

LEMMA BroadcastOK ==
    ASSUME NEW ev \in (Volatile \cup Reliable) \ Signals, NEW to \in SUBSET Socket,
           NEW c \in Code, NEW s \in SessionId, NEW n \in Nat,
           to = Peers(c, s)' \/ (ev = "typing:stop" /\ Peers(c, s)' \subseteq to)
    PROVE  WellBroadcast(Msg(ev, to, c, s, n))
<1>1. PICK m : m = Msg(ev, to, c, s, n)
  OBVIOUS
<1>2. m \in Message /\ m.room = c /\ m.sid = s /\ m.ev = ev /\ m.to = to
  BY <1>1 DEF Msg, Message
<1>3. WellBroadcast(m)
  BY <1>2 DEF WellBroadcast, Volatile, Reliable, Answers, Signals
<1> QED
  BY <1>1, <1>3

(* Messages that are all well broadcast satisfy the invariant.             *)
LEMMA BroadcastsKeepOut ==
    ASSUME \A m \in out' : WellBroadcast(m)
    PROVE  OutInv'
<1> USE DEF WellBroadcast
<1>1. OutTypeOK'
  BY DEF OutTypeOK, Message
<1>2. DeliveredInRoom'
  BY DEF DeliveredInRoom, Peers
<1>3. RosterTruthful'
  BY DEF RosterTruthful
<1> QED
  BY <1>1, <1>2, <1>3 DEF OutInv

LEMMA NothingSent == out' = {} => OutInv'
BY DEF OutInv, OutTypeOK, DeliveredInRoom, RosterTruthful

(* Participant counts are numbers, before and after a step.                *)
LEMMA CountsAreNumbers ==
    ASSUME RoomInv, NEW c \in Code
    PROVE  ParticipantCount(c) \in Nat /\ Cardinality(participants[c]) \in Nat
BY FS_CardinalityType DEF RoomInv, CapacityRespected, ParticipantCount

LEMMA NextCountsAreNumbers ==
    ASSUME RoomInv', NEW c \in Code
    PROVE  ParticipantCount(c)' \in Nat /\ Cardinality(participants'[c]) \in Nat
<1>1. IsFiniteSet(participants'[c])
  BY DEF RoomInv, CapacityRespected
<1>2. Cardinality(participants'[c]) \in Nat
  BY <1>1, FS_CardinalityType
<1> QED
  BY <1>2 DEF ParticipantCount

(* The peers of s are the sockets in the broadcast room that do not speak  *)
(* for s.                                                                  *)
LEMMA PeersInRoom ==
    ASSUME ServerInv, NEW c \in Code, NEW s \in SessionId
    PROVE  Peers(c, s) = {k \in connected : c \in ioRooms[k] /\ socketData[k] # s}
BY DEF Peers, ServerInv, LayerInv, LayerTypeOK, BroadcastScope

LEMMA NextPeersInRoom ==
    ASSUME ServerInv', NEW c \in Code, NEW s \in SessionId
    PROVE  Peers(c, s)' = {k \in connected' : c \in ioRooms'[k] /\ socketData'[k] # s}
BY DEF Peers, ServerInv, LayerInv, LayerTypeOK, BroadcastScope

(* A broadcast of socket k for its own session, when the socket layer does *)
(* not change, or only k enters or leaves room c.                          *)
LEMMA OwnBroadcast ==
    ASSUME ServerInv, ServerInv', NEW k \in connected, NEW c \in Code,
           NEW s, s = socketData[k],
           connected' = connected, socketData' = socketData,
           \A j \in connected \ {k} : ioRooms'[j] = ioRooms[j]
    PROVE  s \in SessionId /\ Others(k, c) = Peers(c, s)' /\ Others(k, c) \in SUBSET Socket
<1>1. s \in SessionId /\ \A j \in connected : socketData[j] = s <=> j = k
  BY SpeakerBound
<1>2. Peers(c, s)' = {j \in connected' : c \in ioRooms'[j] /\ socketData'[j] # s}
  BY <1>1, NextPeersInRoom
<1>3. Peers(c, s)' = {j \in connected : c \in ioRooms[j] /\ j # k}
  BY <1>1, <1>2
<1> QED
  BY <1>1, <1>3 DEF Others, InRoom, ServerInv, LayerInv, LayerTypeOK

(* A live session is bound to a socket exactly if a connected one speaks   *)
(* for it.                                                                 *)
LEMMA BoundMeansSpokenFor ==
    ASSUME ServerInv, NEW s \in sessions
    PROVE  ShownOnline(s) <=> \E k \in connected : socketData[k] = s
<1> USE NullAssumption DEF ServerInv, SessionInv, SessionTypeOK, LayerInv, LayerTypeOK
<1>1. ASSUME socketOf[s] # NoSocket PROVE \E k \in connected : socketData[k] = s
  BY <1>1 DEF SocketBijection, CapturedSessionCurrent
<1>2. ASSUME NEW k \in connected, socketData[k] = s PROVE socketOf[s] # NoSocket
  BY <1>2, SpeakerBound
<1> QED
  BY <1>1, <1>2 DEF ShownOnline

(* A roster in an answer is typed, goes to a connected socket, and tells   *)
(* the truth.                                                              *)
LEMMA RosterOK ==
    ASSUME ServerInv, ServerInv', NEW k \in connected, NEW c \in Code, NEW ev \in Answers,
           UNCHANGED <<sessionVars, connected, socketData>>
    PROVE  LET m == Roster(ev, k, c) IN
             /\ m \in Message
             /\ m.ev \in Answers
             /\ m.to \subseteq connected'
             /\ m.online = {s \in participants'[m.room] : \E j \in connected' : socketData'[j] = s}
<1>1. k \in Socket /\ socketData[k] \in SessionId
  BY SpeakerBound
<1>2. Cardinality(participants'[c]) \in Nat
  BY NextCountsAreNumbers DEF ServerInv
<1>3. participants'[c] \subseteq sessions /\ sessions \subseteq SessionId
  BY DEF sessionVars, ServerInv, LayerInv, ParticipantsAlive, SessionInv, SessionTypeOK
<1>4. \A s \in participants'[c] : ShownOnline(s) <=> \E j \in connected' : socketData'[j] = s
  BY <1>3, BoundMeansSpokenFor
<1>5. Roster(ev, k, c) \in Message
  BY <1>1, <1>2, <1>3 DEF Roster, Message
<1> QED
  BY <1>4, <1>5 DEF Roster

LEMMA JoinKeepsOut ==
    ASSUME ServerInv, ServerInv', NEW k \in Socket, NEW c \in Code, RoomJoin(k, c)
    PROVE  OutInv'
<1>1. /\ k \in connected
      /\ UNCHANGED <<sessionVars, connected, socketData>>
      /\ \A j \in connected \ {k} : ioRooms'[j] = ioRooms[j]
  BY DEF RoomJoin, ServerInv, LayerInv, LayerTypeOK
<1>2. PICK s : s = socketData[k]
  OBVIOUS
<1>3. s \in SessionId /\ Others(k, c) = Peers(c, s)' /\ Others(k, c) \in SUBSET Socket
  BY <1>1, <1>2, OwnBroadcast
<1>4. PICK note : note = Msg("room:peer-joined", Others(k, c), c, s, ParticipantCount(c)')
  OBVIOUS
<1>5. PICK list : list = Roster("room:join", k, c)
  OBVIOUS
<1>6. out' = {note, list}
  BY <1>2, <1>4, <1>5 DEF RoomJoin
<1>7. ParticipantCount(c)' \in Nat
  BY NextCountsAreNumbers DEF ServerInv
<1>8. note \in Message /\ note.ev = "room:peer-joined" /\ note.to = Peers(note.room, note.sid)'
  BY <1>3, <1>4, <1>7 DEF Msg, Message, Reliable
<1>9. /\ list \in Message /\ list.ev \in Answers /\ list.to \subseteq connected'
      /\ list.online = {t \in participants'[list.room] : \E j \in connected' : socketData'[j] = t}
  BY <1>1, <1>5, RosterOK DEF Answers
<1>10. OutTypeOK'
  BY <1>6, <1>8, <1>9 DEF OutTypeOK, Message
<1>11. DeliveredInRoom'
  BY <1>6, <1>8, <1>9 DEF DeliveredInRoom, Peers, Answers, Signals, Volatile, Reliable
<1>12. RosterTruthful'
  BY <1>6, <1>8, <1>9 DEF RosterTruthful, Answers
<1> QED
  BY <1>10, <1>11, <1>12 DEF OutInv

LEMMA PresenceKeepsOut ==
    ASSUME ServerInv, ServerInv', NEW k \in Socket, NEW c \in Code, PresenceRequest(k, c)
    PROVE  OutInv'
<1>0. PICK list : list = Roster("presence:request", k, c)
  OBVIOUS
<1>1. k \in connected /\ out' = {list} /\ UNCHANGED <<sessionVars, connected, socketData>>
  BY <1>0 DEF PresenceRequest, socketVars
<1>2. /\ list \in Message /\ list.ev \in Answers /\ list.to \subseteq connected'
      /\ list.online = {t \in participants'[list.room] : \E j \in connected' : socketData'[j] = t}
  BY <1>0, <1>1, RosterOK DEF Answers
<1>3. OutTypeOK'
  BY <1>1, <1>2 DEF OutTypeOK, Message
<1>4. DeliveredInRoom'
  BY <1>1, <1>2 DEF DeliveredInRoom, Answers, Signals, Volatile, Reliable
<1>5. RosterTruthful'
  BY <1>1, <1>2 DEF RosterTruthful
<1> QED
  BY <1>3, <1>4, <1>5 DEF OutInv

LEMMA SignalKeepsOut ==
    ASSUME ServerInv, ServerInv', NEW k \in Socket, NEW c \in Code, NEW t \in SessionId,
           NEW ev \in Signals, SignalRelay(k, c, t, ev)
    PROVE  OutInv'
<1>0. PICK s : s = socketData[k]
  OBVIOUS
<1>10. PICK m : m = Msg(ev, {socketOf[t]}, c, s, 0)
  OBVIOUS
<1>1. /\ k \in connected /\ out' = {m} /\ CanRelay(s, t, c)
      /\ UNCHANGED <<roomVars, sessionVars, socketVars>>
  BY <1>0, <1>10 DEF SignalRelay
<1>2. s \in SessionId
  BY <1>0, <1>1, SpeakerBound
<1>3. socketOf[t] \in connected /\ socketData[socketOf[t]] = t
  BY <1>1, NullAssumption DEF CanRelay, Bound, ServerInv, SessionInv, SessionTypeOK, LayerInv,
     CapturedSessionCurrent, SocketBijection
<1>4. t \in participants[c] \ {s}
  BY <1>1 DEF CanRelay, IsParticipant
<1>5. socketOf[t] \in Peers(c, s)'
  BY <1>1, <1>3, <1>4 DEF Peers, socketVars, roomVars
<1>6. m \in Message /\ m.ev = ev /\ m.to = {socketOf[t]} /\ m.room = c /\ m.sid = s
  BY <1>2, <1>3, <1>10 DEF Msg, Message, Signals, Volatile, Reliable, ServerInv, LayerInv,
      LayerTypeOK
<1>7. OutTypeOK'
  BY <1>1, <1>6 DEF OutTypeOK, Message
<1>8. DeliveredInRoom'
  BY <1>1, <1>5, <1>6 DEF DeliveredInRoom, Peers, Answers, Signals
<1>9. RosterTruthful'
  BY <1>1, <1>6 DEF RosterTruthful, Answers, Signals
<1> QED
  BY <1>7, <1>8, <1>9 DEF OutInv

(* A step of a connected socket that sends at most one broadcast for its   *)
(* own session.                                                            *)
LEMMA OwnBroadcastKeepsOut ==
    ASSUME ServerInv, ServerInv', NEW k \in connected, NEW c \in Code,
           NEW ev \in (Volatile \cup Reliable) \ Signals, NEW n \in Nat,
           connected' = connected, socketData' = socketData,
           \A j \in connected \ {k} : ioRooms'[j] = ioRooms[j],
           out' \subseteq {Msg(ev, Others(k, c), c, socketData[k], n)}
    PROVE  OutInv'
<1>1. PICK s : s = socketData[k]
  OBVIOUS
<1>2. s \in SessionId /\ Others(k, c) = Peers(c, s)' /\ Others(k, c) \in SUBSET Socket
  BY <1>1, OwnBroadcast
<1>3. \A m \in out' : m = Msg(ev, Others(k, c), c, s, n)
  BY <1>1
<1>4. \A m \in out' : WellBroadcast(m)
  BY <1>2, <1>3, BroadcastOK
<1> QED
  BY <1>4, BroadcastsKeepOut

LEMMA EventKeepsOut ==
    ASSUME ServerInv, ServerInv', EventStep
    PROVE  OutInv'
<1> USE DEF Volatile, Reliable, Signals
<1>1. ASSUME NEW k \in Socket, NEW c \in Code, RoomLeave(k, c) PROVE OutInv'
  <2>1. ParticipantCount(c)' \in Nat
    BY NextCountsAreNumbers DEF ServerInv
  <2>2. PICK n \in Nat : n = ParticipantCount(c)'
    BY <2>1
  <2>3. /\ k \in connected /\ connected' = connected /\ socketData' = socketData
        /\ \A j \in connected \ {k} : ioRooms'[j] = ioRooms[j]
        /\ out' \subseteq {Msg("room:peer-left", Others(k, c), c, socketData[k], n)}
    BY <1>1, <2>2 DEF RoomLeave, ServerInv, LayerInv, LayerTypeOK
  <2> QED
    BY <2>3, OwnBroadcastKeepsOut
<1>2. ASSUME NEW k \in Socket, NEW c \in Code, ChatMessage(k, c) PROVE OutInv'
  <2>1. /\ k \in connected /\ connected' = connected /\ socketData' = socketData /\ ioRooms' = ioRooms
        /\ out' \subseteq {Msg("chat:message", Others(k, c), c, socketData[k], 0)}
    BY <1>2 DEF ChatMessage, socketVars
  <2> QED
    BY <2>1, OwnBroadcastKeepsOut
<1>3. ASSUME NEW k \in Socket, NEW c \in Code, TypingStart(k, c) PROVE OutInv'
  <2>1. /\ k \in connected /\ connected' = connected /\ socketData' = socketData /\ ioRooms' = ioRooms
        /\ out' \subseteq {Msg("typing:start", Others(k, c), c, socketData[k], 0)}
    BY <1>3 DEF TypingStart, socketVars
  <2> QED
    BY <2>1, OwnBroadcastKeepsOut
<1>4. ASSUME NEW k \in Socket, NEW c \in Code, TypingStop(k, c) PROVE OutInv'
  <2>1. /\ k \in connected /\ connected' = connected /\ socketData' = socketData /\ ioRooms' = ioRooms
        /\ out' \subseteq {Msg("typing:stop", Others(k, c), c, socketData[k], 0)}
    BY <1>4 DEF TypingStop, socketVars
  <2> QED
    BY <2>1, OwnBroadcastKeepsOut
<1>5. ASSUME NEW k \in Socket, NEW c \in Code, MediaState(k, c) PROVE OutInv'
  <2>1. /\ k \in connected /\ connected' = connected /\ socketData' = socketData /\ ioRooms' = ioRooms
        /\ out' \subseteq {Msg("media:state", Others(k, c), c, socketData[k], 0)}
    BY <1>5 DEF MediaState, socketVars
  <2> QED
    BY <2>1, OwnBroadcastKeepsOut
<1>6. ASSUME NEW k \in Socket, NEW c \in Code, RoomCreate(k, c) PROVE OutInv'
  BY <1>6, NothingSent DEF RoomCreate
<1>7. ASSUME NEW k \in Socket, Refused(k) PROVE OutInv'
  BY <1>7, NothingSent DEF Refused
<1>8. ASSUME NEW k \in Socket, NEW c \in Code, JoinRefused(k, c) PROVE OutInv'
  BY <1>8, NothingSent DEF JoinRefused
<1> QED
  BY <1>1, <1>2, <1>3, <1>4, <1>5, <1>6, <1>7, <1>8, JoinKeepsOut, PresenceKeepsOut, SignalKeepsOut
  DEF EventStep

LEMMA GraceExpireKeepsOut ==
    ASSUME ServerInv, ServerInv', NEW s \in SessionId, GraceExpire(s)
    PROVE  OutInv'
<1>1. s \in sessions /\ socketOf[s] = NoSocket
  BY DEF GraceExpire, CleanupTimerFires, ServerInv, SessionInv, GraceTimer, InGrace
<1>2. \A k \in connected : socketData[k] # s
  BY <1>1, SpeakerBound, NullAssumption
<1>3. \A c \in Code : Peers(c, s)' = InRoom(c) /\ InRoom(c) \in SUBSET Socket
  <2> TAKE c \in Code
  <2>1. Peers(c, s)' = {k \in connected' : c \in ioRooms'[k] /\ socketData'[k] # s}
    BY NextPeersInRoom
  <2> QED
    BY <1>2, <2>1 DEF GraceExpire, socketVars, InRoom, ServerInv, LayerInv, LayerTypeOK
<1>4. \A c \in Code : ParticipantCount(c)' \in Nat
  BY NextCountsAreNumbers DEF ServerInv
<1>5. \A m \in out' : \E c \in Code, n \in Nat : m = Msg("room:peer-left", InRoom(c), c, s, n)
  BY <1>4 DEF GraceExpire, CodesLeft, ServerInv, RoomInv, RoomTypeOK
<1>6. ASSUME NEW m \in out' PROVE WellBroadcast(m)
  <2>1. PICK c \in Code, n \in Nat : m = Msg("room:peer-left", InRoom(c), c, s, n)
    BY <1>5
  <2>2. Peers(c, s)' = InRoom(c) /\ InRoom(c) \in SUBSET Socket
    BY <1>3
  <2> QED
    BY <2>1, <2>2, BroadcastOK DEF Reliable, Signals
<1> QED
  BY <1>6, BroadcastsKeepOut

LEMMA TypingExpireKeepsOut ==
    ASSUME ServerInv, ServerInv', NEW s \in SessionId, NEW c \in Code, TypingExpire(c, s)
    PROVE  OutInv'
<1>1. Peers(c, s)' = {k \in connected' : c \in ioRooms'[k] /\ socketData'[k] # s}
  BY NextPeersInRoom
<1>2. Peers(c, s)' \subseteq InRoom(c) /\ InRoom(c) \in SUBSET Socket
  BY <1>1 DEF TypingExpire, socketVars, InRoom, ServerInv, LayerInv, LayerTypeOK
<1>3. out' = {Msg("typing:stop", InRoom(c), c, s, 0)}
  BY DEF TypingExpire
<1>4. \A m \in out' : WellBroadcast(m)
  BY <1>2, <1>3, BroadcastOK DEF Volatile, Signals
<1> QED
  BY <1>4, BroadcastsKeepOut

(* When socket k, of session s, is closed, what its disconnect handler     *)
(* sends reaches the peers of s that are left.                             *)
LEMMA GoodbyesOK ==
    ASSUME ServerInv, ServerInv', NEW k \in connected, NEW s, s = socketData[k],
           \A j \in Socket \ {k} : j \in connected /\ socketData[j] # s
                <=> j \in connected' /\ socketData'[j] # s,
           k \notin connected',
           \A j \in connected' : socketData'[j] # s => ioRooms'[j] = ioRooms[j],
           NEW m \in Goodbyes(k)
    PROVE  WellBroadcast(m)
<1>1. s \in SessionId /\ socketToSession[k] = s /\ \A j \in connected : socketData[j] = s <=> j = k
  BY SpeakerBound
<1>2. PICK c \in Code, n \in Nat, ev \in {"typing:stop", "room:peer-disconnected"} :
         m = Msg(ev, Others(k, c), c, s, n)
  BY <1>1, CountsAreNumbers DEF Goodbyes, TypingRooms, ServerInv
<1>3. Peers(c, s)' = {j \in connected' : c \in ioRooms'[j] /\ socketData'[j] # s}
  BY <1>1, NextPeersInRoom
<1>4. connected \subseteq Socket /\ connected' \subseteq Socket
  BY DEF ServerInv, LayerInv, LayerTypeOK
<1>5. Others(k, c) = Peers(c, s)' /\ Others(k, c) \in SUBSET Socket
  BY <1>1, <1>3, <1>4 DEF Others, InRoom
<1> QED
  BY <1>1, <1>2, <1>5, BroadcastOK DEF Volatile, Signals

(* What a returning session s sends reaches its peers.                     *)
LEMMA ReturnsOK ==
    ASSUME ServerInv, ServerInv', NEW s \in SessionId, NEW open \in SUBSET Socket,
           open = {j \in connected' : socketData'[j] # s},
           \A j \in open : ioRooms'[j] = ioRooms[j],
           NEW m \in Returns(s, open)
    PROVE  WellBroadcast(m)
<1>1. PICK c \in Code : m = Msg("room:peer-reconnected", {j \in open : c \in ioRooms[j]}, c, s, ParticipantCount(c))
  BY DEF Returns, GetRoomsBySession, ServerInv, RoomInv, RoomTypeOK
<1>2. ParticipantCount(c) \in Nat
  BY CountsAreNumbers DEF ServerInv
<1>3. Peers(c, s)' = {j \in connected' : c \in ioRooms'[j] /\ socketData'[j] # s}
  BY NextPeersInRoom
<1>4. {j \in open : c \in ioRooms[j]} = Peers(c, s)'
  BY <1>3
<1> QED
  BY <1>1, <1>2, <1>4, BroadcastOK DEF Volatile, Signals

LEMMA ConnectionKeepsOut ==
    ASSUME ServerInv, ServerInv', ConnectionStep
    PROVE  OutInv'
<1> USE NullAssumption DEF ServerInv, LayerInv, LayerTypeOK
<1>1. ASSUME NEW k \in Socket, NEW s \in SessionId, ConnectFresh(k, s) PROVE OutInv'
  BY <1>1, NothingSent DEF ConnectFresh
<1>2. ASSUME NEW k \in Socket, NEW s \in SessionId, ConnectReclaim(k, s) PROVE OutInv'
  <2>1. \A j \in connected : socketData[j] # s
    BY <1>2, SpeakerBound DEF ConnectReclaim
  <2>2. /\ connected = {j \in connected' : socketData'[j] # s}
        /\ \A j \in connected : ioRooms'[j] = ioRooms[j]
        /\ out' = Returns(s, connected) /\ connected \in SUBSET Socket
    BY <1>2, <2>1 DEF ConnectReclaim
  <2>3. \A m \in out' : WellBroadcast(m)
    BY <2>2, ReturnsOK
  <2> QED
    BY <2>3, BroadcastsKeepOut
<1>3. ASSUME NEW k \in Socket, NEW s \in SessionId, ConnectTakeover(k, s) PROVE OutInv'
  <2>1. PICK old \in connected : old = socketOf[s] /\ s \in sessions
    BY <1>3 DEF ConnectTakeover, Reclaim
  <2>2. socketData[old] = s /\ \A j \in connected : socketData[j] = s <=> j = old
    BY <2>1, SpeakerBound DEF SessionInv, SocketBijection, CapturedSessionCurrent
  <2>3. /\ k \notin connected
        /\ connected' = (connected \ {old}) \cup {k}
        /\ socketData' = [socketData EXCEPT ![old] = NoSession, ![k] = s]
        /\ ioRooms' = [ioRooms EXCEPT ![old] = {}, ![k] = GetRoomsBySession(s)]
        /\ out' = Goodbyes(old) \cup Returns(s, connected \ {old})
    BY <1>3, <2>1 DEF ConnectTakeover
  <2>4. /\ connected \ {old} = {j \in connected' : socketData'[j] # s}
        /\ \A j \in connected \ {old} : ioRooms'[j] = ioRooms[j]
        /\ connected \ {old} \in SUBSET Socket
    BY <2>2, <2>3
  <2>5. ASSUME NEW m \in Returns(s, connected \ {old}) PROVE WellBroadcast(m)
    BY <2>4, <2>5, ReturnsOK
  <2>6. /\ old \notin connected'
        /\ \A j \in Socket \ {old} : j \in connected /\ socketData[j] # s
                <=> j \in connected' /\ socketData'[j] # s
        /\ \A j \in connected' : socketData'[j] # s => ioRooms'[j] = ioRooms[j]
    BY <2>2, <2>3, <2>4
  <2>7. ASSUME NEW m \in Goodbyes(old) PROVE WellBroadcast(m)
    BY <2>2, <2>6, <2>7, GoodbyesOK
  <2>8. \A m \in out' : WellBroadcast(m)
    BY <2>3, <2>5, <2>7
  <2> QED
    BY <2>8, BroadcastsKeepOut
<1>4. ASSUME NEW k \in Socket, Disconnect(k) PROVE OutInv'
  <2>1. PICK s : s = socketData[k]
    OBVIOUS
  <2>2. /\ k \in connected
        /\ connected' = connected \ {k}
        /\ socketData' = [socketData EXCEPT ![k] = NoSession]
        /\ ioRooms' = [ioRooms EXCEPT ![k] = {}]
        /\ out' = Goodbyes(k)
    BY <1>4 DEF Disconnect
  <2>3. /\ k \notin connected'
        /\ \A j \in Socket \ {k} : j \in connected /\ socketData[j] # s
                <=> j \in connected' /\ socketData'[j] # s
        /\ \A j \in connected' : socketData'[j] # s => ioRooms'[j] = ioRooms[j]
    BY <2>2
  <2>4. ASSUME NEW m \in out' PROVE WellBroadcast(m)
    BY <2>1, <2>2, <2>3, <2>4, GoodbyesOK
  <2> QED
    BY <2>4, BroadcastsKeepOut
<1> QED
  BY <1>1, <1>2, <1>3, <1>4 DEF ConnectionStep

LEMMA OutInvStep == ServerInv /\ ServerInv' /\ OutInv /\ [Next]_vars => OutInv'
<1> SUFFICES ASSUME ServerInv, ServerInv', OutInv, [Next]_vars PROVE OutInv'
  OBVIOUS
<1>1. CASE ConnectionStep
  BY <1>1, ConnectionKeepsOut
<1>2. CASE EventStep
  BY <1>2, EventKeepsOut
<1>3. CASE TimerStep
  BY <1>3, GraceExpireKeepsOut, TypingExpireKeepsOut, NothingSent DEF TimerStep,
      SweepFailedJoins, Reap
<1>4. CASE Restart
  BY <1>4, NothingSent DEF Restart
<1>5. CASE UNCHANGED vars
  BY <1>5 DEF vars, socketVars, sessionVars, roomVars, OutInv, OutTypeOK, DeliveredInRoom,
      RosterTruthful
<1> QED
  BY <1>1, <1>2, <1>3, <1>4, <1>5 DEF Next

LEMMA OutInvAlways == Spec => []OutInv
<1>1. Init => OutInv
  BY DEF Init, OutInv, OutTypeOK, DeliveredInRoom, RosterTruthful
<1>2. ServerInv /\ ServerInv' /\ OutInv /\ [Next]_vars => OutInv'
  BY OutInvStep
<1> QED
  BY <1>1, <1>2, ServerInvAlways, PTL DEF Spec

(* Every variable of the server keeps its type, messages included.         *)
THEOREM ServerTypeCorrect == Spec => []TypeOK
<1>1. ServerInv /\ OutInv => TypeOK
  BY DEF ServerInv, RoomInv, SessionInv, LayerInv, LayerTypeOK, OutInv, OutTypeOK, TypeOK,
      TypingTypeOK
<1> QED
  BY <1>1, ServerInvAlways, OutInvAlways, PTL

(* A broadcast goes to the sockets of the other participants and nobody    *)
(* else, a signal to one of them.                                          *)
THEOREM DeliveryStaysInRoom == Spec => []DeliveredInRoom
BY OutInvAlways, PTL DEF OutInv

(* A roster shows as online exactly the participants that have a connected *)
(* socket.                                                                 *)
THEOREM RostersAreTruthful == Spec => []RosterTruthful
BY OutInvAlways, PTL DEF OutInv

-----------------------------------------------------------------------------
(* Steps.                                                                  *)

(* The steps other than create, join, leave, expiry and restart.           *)
LEMMA OtherStepsKeepRooms ==
    ASSUME ServerInv,
           \/ ConnectionStep \/ Reap
           \/ \E old \in SUBSET failedJoinAttempts : SweepFailedJoins(old)
           \/ \E s \in SessionId, c \in Code : TypingExpire(c, s)
           \/ \E k \in Socket :
                \/ \E c \in Code :
                     \/ JoinRefused(k, c)
                     \/ ChatMessage(k, c) \/ TypingStart(k, c) \/ TypingStop(k, c)
                     \/ PresenceRequest(k, c) \/ MediaState(k, c)
                     \/ \E t \in SessionId, ev \in Signals : SignalRelay(k, c, t, ev)
                \/ Refused(k)
    PROVE  UNCHANGED participants
<1>1. CASE ConnectionStep
  BY <1>1 DEF ConnectionStep, ConnectFresh, ConnectReclaim, ConnectTakeover, Disconnect, roomVars
<1>2. CASE Reap
  BY <1>2, ReapIsIdle DEF Reap, roomVars
<1>3. CASE \E s \in SessionId, c \in Code : TypingExpire(c, s)
  BY <1>3 DEF TypingExpire, roomVars
<1>4. ASSUME NEW k \in Socket, NEW c \in Code,
             \/ ChatMessage(k, c) \/ TypingStart(k, c) \/ TypingStop(k, c)
             \/ PresenceRequest(k, c) \/ MediaState(k, c)
             \/ \E t \in SessionId, ev \in Signals : SignalRelay(k, c, t, ev)
      PROVE  UNCHANGED participants
  BY <1>4 DEF ChatMessage, TypingStart, TypingStop, PresenceRequest, MediaState, SignalRelay,
      roomVars
<1>5. ASSUME NEW k \in Socket, Refused(k) PROVE UNCHANGED participants
  BY <1>5 DEF Refused, roomVars
<1>6. ASSUME NEW k \in Socket, NEW c \in Code, JoinRefused(k, c) PROVE UNCHANGED participants
  BY <1>6 DEF JoinRefused, roomVars
<1>7. ASSUME NEW old, SweepFailedJoins(old) PROVE UNCHANGED participants
  BY <1>7 DEF SweepFailedJoins, roomVars
<1> QED
  BY <1>1, <1>2, <1>3, <1>4, <1>5, <1>6, <1>7

-----------------------------------------------------------------------------
(* SeatKept.                                                               *)
KeepsSeats ==
    \A c \in Code, s \in SessionId :
        s \in participants[c] \ participants'[c] =>
            \/ RoomLeave(socketOf[s], c)
            \/ s \in armed /\ s \notin sessions'
            \/ rooms' = {} /\ sessions' = {} /\ connected' = {}

LEMMA StepKeepsSeats == ServerInv /\ [Next]_vars => KeepsSeats
<1> SUFFICES ASSUME ServerInv, [Next]_vars PROVE KeepsSeats
  OBVIOUS
<1> USE DEF KeepsSeats, ServerInv, RoomInv, RoomTypeOK
<1>1. ASSUME NEW k \in Socket, NEW c \in Code, RoomCreate(k, c) PROVE KeepsSeats
  <2>1. participants[c] = {}
    BY <1>1 DEF RoomCreate, CreateRoom, CanCreate, RoomOpenIffOccupied
  <2> QED
    BY <1>1, <2>1 DEF RoomCreate, CreateRoom
<1>2. ASSUME NEW k \in Socket, NEW c \in Code, RoomJoin(k, c) PROVE KeepsSeats
  BY <1>2 DEF RoomJoin, JoinRoom
<1>3. ASSUME NEW k \in Socket, NEW c \in Code, RoomLeave(k, c) PROVE KeepsSeats
  <2>1. k \in connected /\ socketOf[socketData[k]] = k
    BY <1>3, SpeakerBound DEF RoomLeave
  <2>2. ASSUME NEW d \in Code, NEW s \in participants[d], s \notin participants'[d]
        PROVE  d = c /\ s = socketData[k]
    BY <1>3, <2>2 DEF RoomLeave, LeaveRoom, roomVars
  <2> QED
    BY <1>3, <2>1, <2>2
<1>4. ASSUME NEW t \in SessionId, GraceExpire(t) PROVE KeepsSeats
  <2>1. t \in armed /\ t \notin sessions'
    BY <1>4 DEF GraceExpire, CleanupTimerFires
  <2>2. ASSUME NEW d \in Code, NEW s \in participants[d], s \notin participants'[d] PROVE s = t
    BY <1>4, <2>2 DEF GraceExpire, RemoveFromAll
  <2> QED
    BY <2>1, <2>2
<1>5. CASE Restart
  BY <1>5 DEF Restart, RoomReset, SessionReset
<1>6. CASE UNCHANGED vars
  BY <1>6 DEF vars, roomVars
<1>7. ASSUME UNCHANGED participants PROVE KeepsSeats
  BY <1>7
<1> HIDE DEF KeepsSeats, ServerInv
<1> QED
  BY <1>1, <1>2, <1>3, <1>4, <1>5, <1>6, <1>7, OtherStepsKeepRooms DEF Next, EventStep, TimerStep

(* A participant loses its seat only by its own room:leave, by the end of  *)
(* its own grace period, or with the whole process.                        *)
THEOREM SeatsAreKept == Spec => SeatKept
<1>1. ServerInv /\ [Next]_vars => KeepsSeats
  BY StepKeepsSeats
<1>2. Spec => [][KeepsSeats]_vars
  BY <1>1, ServerInvAlways, PTL DEF Spec
<1> QED
  BY <1>2 DEF SeatKept, KeepsSeats

-----------------------------------------------------------------------------
(* MembershipAnnounced.                                                    *)
AnnouncesAll ==
    \A c \in Code, s \in SessionId :
        /\ s \in participants[c] \ participants'[c] => Announced("room:peer-left", c, s)
        /\ s \in participants'[c] \ participants[c] => Announced("room:peer-joined", c, s)

LEMMA IsAnnounced ==
    ASSUME NEW ev, NEW to, NEW c, NEW s, NEW n, Msg(ev, to, c, s, n) \in out',
           NextPeers(c, s) \subseteq to, n = Cardinality(participants'[c])
    PROVE  Announced(ev, c, s)
<1>1. PICK m : m = Msg(ev, to, c, s, n)
  OBVIOUS
<1>2. m \in out' /\ m.ev = ev /\ m.room = c /\ m.sid = s /\ m.to = to /\ m.n = n
  BY <1>1 DEF Msg
<1> QED
  BY <1>2 DEF Announced

(* An open room's count, and that of a room that is no longer open.        *)
LEMMA NextCountIsSize ==
    ASSUME RoomInv', NEW c \in Code
    PROVE  ParticipantCount(c)' = Cardinality(participants'[c])
<1>1. c \notin rooms' => participants'[c] = {}
  BY DEF RoomInv, RoomOpenIffOccupied
<1> QED
  BY <1>1, FS_EmptySet DEF ParticipantCount

LEMMA StepAnnounces == ServerInv /\ ServerInv' /\ [Next]_vars => AnnouncesAll
<1> SUFFICES ASSUME ServerInv, ServerInv', [Next]_vars PROVE AnnouncesAll
  OBVIOUS
<1>r. RoomInv /\ RoomInv' /\ RoomTypeOK
  BY DEF ServerInv, RoomInv
<1>1. ASSUME NEW k \in Socket, NEW c \in Code, RoomCreate(k, c) PROVE AnnouncesAll
  <2>1. participants[c] = {}
    BY <1>1, <1>r DEF RoomCreate, CreateRoom, CanCreate, RoomInv, RoomOpenIffOccupied
  <2>2. PICK s : s = socketData[k]
    OBVIOUS
  <2>3. participants' = [participants EXCEPT ![c] = {s}]
    BY <1>1, <2>2 DEF RoomCreate, CreateRoom
  <2>4. participants'[c] = {s} /\ \A d \in Code \ {c} : participants'[d] = participants[d]
    BY <2>3, <1>r DEF RoomTypeOK
  <2>5. NextPeers(c, s) = {}
    BY <2>4 DEF NextPeers
  <2> QED
    BY <2>1, <2>4, <2>5 DEF AnnouncesAll, Announced
<1>2. ASSUME NEW k \in Socket, NEW c \in Code, RoomJoin(k, c) PROVE AnnouncesAll
  <2>1. PICK s : s = socketData[k]
    OBVIOUS
  <2>2. /\ k \in connected /\ connected' = connected /\ socketData' = socketData
        /\ \A j \in connected \ {k} : ioRooms'[j] = ioRooms[j]
    BY <1>2 DEF RoomJoin, ServerInv, LayerInv, LayerTypeOK
  <2>3. s \in SessionId /\ Others(k, c) = NextPeers(c, s)
    BY <2>1, <2>2, OwnBroadcast DEF Peers, NextPeers
  <2>4. Msg("room:peer-joined", Others(k, c), c, s, ParticipantCount(c)') \in out'
    BY <1>2, <2>1 DEF RoomJoin
  <2>5. Announced("room:peer-joined", c, s)
    BY <2>3, <2>4, <1>r, IsAnnounced, NextCountIsSize
  <2>6. participants' = [participants EXCEPT ![c] = @ \cup {s}]
    BY <1>2, <2>1 DEF RoomJoin, JoinRoom
  <2> QED
    BY <2>5, <2>6, <1>r DEF AnnouncesAll, RoomTypeOK
<1>3. ASSUME NEW k \in Socket, NEW c \in Code, RoomLeave(k, c) PROVE AnnouncesAll
  <2>1. PICK s : s = socketData[k]
    OBVIOUS
  <2>2. /\ k \in connected /\ connected' = connected /\ socketData' = socketData
        /\ \A j \in connected \ {k} : ioRooms'[j] = ioRooms[j]
    BY <1>3 DEF RoomLeave, ServerInv, LayerInv, LayerTypeOK
  <2>3. s \in SessionId /\ Others(k, c) = NextPeers(c, s)
    BY <2>1, <2>2, OwnBroadcast DEF Peers, NextPeers
  <2>4. Msg("room:peer-left", Others(k, c), c, s, ParticipantCount(c)') \in out'
    BY <1>3, <2>1 DEF RoomLeave
  <2>5. Announced("room:peer-left", c, s)
    BY <2>3, <2>4, <1>r, IsAnnounced, NextCountIsSize
  <2>6. participants' = [participants EXCEPT ![c] = @ \ {s}] \/ participants' = participants
    BY <1>3, <2>1 DEF RoomLeave, LeaveRoom, roomVars
  <2> QED
    BY <2>5, <2>6, <1>r DEF AnnouncesAll, RoomTypeOK
<1>4. ASSUME NEW s \in SessionId, GraceExpire(s) PROVE AnnouncesAll
  <2>1. ASSUME NEW c \in CodesLeft(s) PROVE Announced("room:peer-left", c, s)
    <3>1. c \in Code
      BY <2>1, <1>r DEF CodesLeft, RoomTypeOK
    <3>2. NextPeers(c, s) \subseteq InRoom(c)
      BY <3>1, <1>4, NextPeersInRoom DEF GraceExpire, socketVars, InRoom, Peers, NextPeers
    <3>3. Msg("room:peer-left", InRoom(c), c, s, ParticipantCount(c)') \in out'
      BY <1>4, <2>1 DEF GraceExpire
    <3> QED
      BY <3>1, <3>2, <3>3, <1>r, IsAnnounced, NextCountIsSize
  <2>2. participants' = [c \in Code |->
            IF c \in CodesLeft(s) THEN participants[c] \ {s} ELSE participants[c]]
    BY <1>4 DEF GraceExpire, RemoveFromAll
  <2>3. \A c \in Code : /\ participants'[c] \subseteq participants[c]
                        /\ c \notin CodesLeft(s) => participants'[c] = participants[c]
                        /\ participants[c] \ participants'[c] \subseteq {s}
    BY <2>2
  <2> QED
    BY <2>1, <2>3 DEF AnnouncesAll
<1>5. CASE Restart
  BY <1>5, <1>r DEF Restart, RoomReset, AnnouncesAll, Announced, NextPeers
<1>6. ASSUME UNCHANGED participants PROVE AnnouncesAll
  BY <1>6 DEF AnnouncesAll
<1>7. UNCHANGED vars => UNCHANGED participants
  BY DEF vars, roomVars
<1> QED
  BY <1>1, <1>2, <1>3, <1>4, <1>5, <1>6, <1>7, OtherStepsKeepRooms DEF Next, EventStep, TimerStep

(* Nobody leaves a room or enters it without a notice, with the new count, *)
(* to every other connected participant.                                   *)
THEOREM MembershipIsAnnounced == Spec => MembershipAnnounced
<1>1. ServerInv /\ ServerInv' /\ [Next]_vars => AnnouncesAll
  BY StepAnnounces
<1>2. Spec => [][AnnouncesAll]_vars
  BY <1>1, ServerInvAlways, PTL DEF Spec
<1> QED
  BY <1>2 DEF MembershipAnnounced, AnnouncesAll

-----------------------------------------------------------------------------
(* TypingEndTold.                                                          *)
EndTold(c, s) ==
    NextPeers(c, s) # {} =>
        \E m \in out' : /\ m.ev \in {"typing:stop", "chat:message"}
                       /\ m.room = c /\ m.sid = s
                       /\ NextPeers(c, s) \subseteq m.to

EndsTold == \A c \in Code, s \in SessionId : <<c, s>> \in typing \ typing' => EndTold(c, s)

LEMMA IsEndTold ==
    ASSUME NEW ev \in {"typing:stop", "chat:message"}, NEW to, NEW c, NEW s, NEW n,
           Msg(ev, to, c, s, n) \in out', NextPeers(c, s) \subseteq to
    PROVE  EndTold(c, s)
<1>1. PICK m : m = Msg(ev, to, c, s, n)
  OBVIOUS
<1>2. m \in out' /\ m.ev = ev /\ m.room = c /\ m.sid = s /\ m.to = to
  BY <1>1 DEF Msg
<1> QED
  BY <1>2 DEF EndTold

(* A socket that stays open and whose session stays in room c is in the    *)
(* broadcast room of c already.                                            *)
LEMMA PeersHear ==
    ASSUME ServerInv, NEW c \in Code, NEW s, NEW k,
           UNCHANGED participants,
           \A j \in connected' : socketData'[j] # s =>
                j \in connected \ {k} /\ socketData'[j] = socketData[j]
    PROVE  NextPeers(c, s) \subseteq Others(k, c)
BY DEF NextPeers, Others, InRoom, ServerInv, LayerInv, LayerTypeOK, BroadcastScope

LEMMA StepTellsEnd == ServerInv /\ [Next]_vars => EndsTold
<1> SUFFICES ASSUME ServerInv, [Next]_vars PROVE EndsTold
  OBVIOUS
<1>1. ASSUME NEW k \in Socket, NEW c \in Code, ChatMessage(k, c) \/ TypingStop(k, c) PROVE EndsTold
  <2>1. PICK s : s = socketData[k]
    OBVIOUS
  <2>2. k \in connected /\ UNCHANGED <<participants, connected, socketData>> /\ StopTyping(c, s)
    BY <1>1, <2>1 DEF ChatMessage, TypingStop, roomVars, socketVars
  <2>3. \A j \in connected : socketData[j] = s => j = k
    BY <2>1, <2>2, SpeakerBound
  <2>4. \A j \in connected' : socketData'[j] # s => j \in connected \ {k} /\ socketData'[j] = socketData[j]
    BY <2>1, <2>2, <2>3
  <2>5. NextPeers(c, s) \subseteq Others(k, c)
    BY <2>2, <2>4, PeersHear
  <2>6. <<c, s>> \in typing =>
            \E ev \in {"typing:stop", "chat:message"} : Msg(ev, Others(k, c), c, s, 0) \in out'
    BY <1>1, <2>1 DEF ChatMessage, TypingStop, IsTyping
  <2>7. <<c, s>> \in typing => EndTold(c, s)
    BY <2>5, <2>6, IsEndTold
  <2> QED
    BY <2>2, <2>7 DEF EndsTold, StopTyping
<1>2. ASSUME NEW c \in Code, NEW s \in SessionId, TypingExpire(c, s) PROVE EndsTold
  <2>1. NextPeers(c, s) \subseteq InRoom(c)
    BY <1>2 DEF TypingExpire, NextPeers, InRoom, roomVars, socketVars, ServerInv, LayerInv,
        LayerTypeOK, BroadcastScope
  <2>2. Msg("typing:stop", InRoom(c), c, s, 0) \in out'
    BY <1>2 DEF TypingExpire
  <2>3. EndTold(c, s)
    BY <2>1, <2>2, IsEndTold
  <2> QED
    BY <1>2, <2>3 DEF EndsTold, TypingExpire, TypingTimerFires
<1>3. ASSUME NEW k, NEW s, k \in connected, s = socketData[k], ClearTyping(s),
             UNCHANGED participants, Goodbyes(k) \subseteq out',
             \A j \in connected' : socketData'[j] # s =>
                j \in connected \ {k} /\ socketData'[j] = socketData[j]
      PROVE  EndsTold
  <2>1. ASSUME NEW c \in Code, <<c, s>> \in typing PROVE EndTold(c, s)
    <3>1. Msg("typing:stop", Others(k, c), c, s, 0) \in out'
      BY <1>3, <2>1 DEF Goodbyes, TypingRooms
    <3>2. NextPeers(c, s) \subseteq Others(k, c)
      BY <1>3, PeersHear
    <3> QED
      BY <3>1, <3>2, IsEndTold
  <2> QED
    BY <1>3, <2>1 DEF EndsTold, ClearTyping
<1>4. ASSUME NEW k \in Socket, Disconnect(k) PROVE EndsTold
  <2>1. PICK s : s = socketData[k]
    OBVIOUS
  <2>2. /\ k \in connected /\ ClearTyping(s) /\ UNCHANGED participants
        /\ Goodbyes(k) \subseteq out'
    BY <1>4, <2>1 DEF Disconnect, roomVars
  <2>3. \A j \in connected' : j \in connected \ {k} /\ socketData'[j] = socketData[j]
    BY <1>4 DEF Disconnect, ServerInv, LayerInv, LayerTypeOK
  <2> QED
    BY <2>1, <2>2, <2>3, <1>3
<1>5. ASSUME NEW k \in Socket, NEW s \in SessionId, ConnectTakeover(k, s) PROVE EndsTold
  <2>1. PICK old : old = socketOf[s]
    OBVIOUS
  <2>2. old \in connected /\ k \notin connected
    BY <1>5, <2>1 DEF ConnectTakeover
  <2>3. socketData[old] = s /\ old \in Socket
    BY <1>5, <2>1, <2>2, NullAssumption DEF ConnectTakeover, Reclaim, ServerInv, SessionInv,
       SessionTypeOK, SocketBijection, LayerInv, CapturedSessionCurrent, LayerTypeOK
  <2>4. /\ ClearTyping(s) /\ UNCHANGED participants
        /\ Goodbyes(old) \subseteq out'
    BY <1>5, <2>1, <2>3 DEF ConnectTakeover, roomVars
  <2>5. /\ connected' = (connected \ {old}) \cup {k}
        /\ socketData' = [socketData EXCEPT ![old] = NoSession, ![k] = s]
    BY <1>5, <2>1 DEF ConnectTakeover
  <2>6. \A j \in connected' : socketData'[j] # s =>
                j \in connected \ {old} /\ socketData'[j] = socketData[j]
    BY <2>2, <2>3, <2>5 DEF ServerInv, LayerInv, LayerTypeOK
  <2> QED
    BY <2>2, <2>3, <2>4, <2>6, <1>3
<1>6. ASSUME NEW s \in SessionId, GraceExpire(s) PROVE EndsTold
  <2>1. \A c \in Code : <<c, s>> \notin typing
    BY <1>6 DEF GraceExpire, CleanupTimerFires, ServerInv, LayerInv, SessionInv,
        TransientStateCleared,
                GraceTimer, InGrace, Bound
  <2> QED
    BY <1>6, <2>1 DEF EndsTold, GraceExpire, ClearTyping
<1>7. CASE Restart
  BY <1>7 DEF Restart, EndsTold, EndTold, NextPeers
<1>8. ASSUME typing \subseteq typing' PROVE EndsTold
  BY <1>8 DEF EndsTold
<1>9. ASSUME NEW k \in Socket, NEW c \in Code,
             \/ RoomCreate(k, c) \/ RoomJoin(k, c) \/ JoinRefused(k, c) \/ RoomLeave(k, c)
             \/ TypingStart(k, c)
             \/ PresenceRequest(k, c) \/ MediaState(k, c)
             \/ \E t \in SessionId, ev \in Signals : SignalRelay(k, c, t, ev)
      PROVE  typing \subseteq typing'
  BY <1>9 DEF RoomCreate, RoomJoin, JoinRefused, RoomLeave, TypingStart, StartTyping,
      PresenceRequest,
             MediaState, SignalRelay
<1>10. ASSUME NEW k \in Socket, NEW s \in SessionId,
              Refused(k) \/ ConnectFresh(k, s) \/ ConnectReclaim(k, s) \/ Reap \/ UNCHANGED vars
       PROVE  typing \subseteq typing'
  BY <1>10 DEF Refused, ConnectFresh, ConnectReclaim, Reap, vars
<1>11. CASE ConnectionStep
  BY <1>11, <1>4, <1>5, <1>8, <1>10 DEF ConnectionStep
<1>12. ASSUME NEW k \in Socket, Refused(k) PROVE EndsTold
  BY <1>12, <1>8 DEF Refused
<1>13. CASE EventStep
  BY <1>13, <1>1, <1>8, <1>9, <1>12 DEF EventStep
<1>14. CASE Reap \/ UNCHANGED vars
  BY <1>14, <1>8 DEF Reap, vars
<1>15. ASSUME NEW old, SweepFailedJoins(old) PROVE EndsTold
  BY <1>15, <1>8 DEF SweepFailedJoins
<1> QED
  BY <1>2, <1>6, <1>7, <1>11, <1>13, <1>14, <1>15 DEF Next, TimerStep

(* A typing entry never goes away under peers that are shown it without    *)
(* their being sent typing:stop or the message itself.                     *)
THEOREM TypingEndIsTold == Spec => TypingEndTold
<1>1. ServerInv /\ [Next]_vars => EndsTold
  BY StepTellsEnd
<1>2. Spec => [][EndsTold]_vars
  BY <1>1, ServerInvAlways, PTL DEF Spec
<1> QED
  BY <1>2 DEF TypingEndTold, EndsTold, EndTold

-----------------------------------------------------------------------------
(* The server implements RoomMembership: each callback is one abstract step*)
(* or changes nothing that the abstract specification sees.                *)
presence == [s \in SessionId |-> presenceOf(s)]

(* The presence of everybody else is left alone when only s changes.       *)
LEMMA PresenceOfOne ==
    ASSUME NEW s \in SessionId, NEW v,
           presenceOf(s)' = v,
           \A t \in SessionId \ {s} : presenceOf(t)' = presenceOf(t)
    PROVE  presence' = [presence EXCEPT ![s] = v]
BY DEF presence

LEMMA RefineConnection ==
    ASSUME ServerInv, ServerInv', ConnectionStep
    PROVE  \/ \E s \in SessionId : RM!Arrive(s) \/ RM!Resume(s) \/ RM!Lapse(s)
           \/ UNCHANGED RM!membershipVars
<1> USE NullAssumption DEF ServerInv, SessionInv, SessionTypeOK
<1>1. ASSUME NEW k \in Socket, NEW s \in SessionId, ConnectFresh(k, s) PROVE RM!Arrive(s)
  <2> USE <1>1 DEF ConnectFresh, Create
  <2>1. presenceOf(s) = "unborn" /\ presenceOf(s)' = "online"
    BY DEF presenceOf
  <2>2. \A t \in SessionId \ {s} : presenceOf(t)' = presenceOf(t)
    BY DEF presenceOf
  <2>3. presence' = [presence EXCEPT ![s] = "online"]
    BY <2>1, <2>2, PresenceOfOne
  <2> QED
    BY <2>1, <2>3 DEF RM!Arrive, presence, roomVars
<1>2. ASSUME NEW k \in Socket, NEW s \in SessionId, ConnectReclaim(k, s) PROVE RM!Resume(s)
  <2> USE <1>2 DEF ConnectReclaim, Reclaim
  <2>1. socketOf[s] = NoSocket
    BY DEF LayerInv, CapturedSessionCurrent, SocketBijection
  <2>2. presenceOf(s) = "grace" /\ presenceOf(s)' = "online"
    BY <2>1 DEF presenceOf
  <2>3. \A t \in SessionId \ {s} : presenceOf(t)' = presenceOf(t)
    BY DEF presenceOf
  <2>4. presence' = [presence EXCEPT ![s] = "online"]
    BY <2>2, <2>3, PresenceOfOne
  <2> QED
    BY <2>2, <2>4 DEF RM!Resume, presence, roomVars
<1>3. ASSUME NEW k \in Socket, NEW s \in SessionId, ConnectTakeover(k, s)
      PROVE  UNCHANGED RM!membershipVars
  <2> USE <1>3 DEF ConnectTakeover, Reclaim
  <2>1. \A t \in SessionId : presenceOf(t)' = presenceOf(t)
    BY DEF presenceOf, LayerInv, LayerTypeOK
  <2> QED
    BY <2>1 DEF RM!membershipVars, roomVars
<1>4. ASSUME NEW k \in Socket, Disconnect(k) PROVE \E s \in SessionId : RM!Lapse(s)
  <2>1. PICK s \in SessionId : s \in sessions /\ socketOf[s] = k /\ socketToSession[k] = s
    BY <1>4, SpeakerBound DEF Disconnect
  <2>2. /\ socketOf' = [socketOf EXCEPT ![s] = NoSocket]
        /\ UNCHANGED <<sessions, issued, participants>>
    BY <1>4, <2>1 DEF Disconnect, HandleDisconnect, roomVars
  <2>3. presenceOf(s) = "online" /\ presenceOf(s)' = "grace"
    BY <2>1, <2>2 DEF presenceOf
  <2>4. \A t \in SessionId \ {s} : presenceOf(t)' = presenceOf(t)
    BY <2>2 DEF presenceOf
  <2>5. presence' = [presence EXCEPT ![s] = "grace"]
    BY <2>3, <2>4, PresenceOfOne
  <2> QED
    BY <2>2, <2>3, <2>5 DEF RM!Lapse, presence
<1> QED
  BY <1>1, <1>2, <1>3, <1>4 DEF ConnectionStep

LEMMA RefineEvent ==
    ASSUME ServerInv, EventStep
    PROVE  \/ \E s \in SessionId, c \in Code : RM!Open(s, c) \/ RM!Enter(s, c) \/ RM!Exit(s, c)
           \/ UNCHANGED RM!membershipVars
<1>1. UNCHANGED sessionVars
  BY EventsLeaveSessions
<1>2. \A t \in SessionId : presenceOf(t)' = presenceOf(t)
  BY <1>1 DEF sessionVars, presenceOf
<1>3. UNCHANGED presence
  BY <1>2 DEF presence
<1>4. \A k \in connected : socketData[k] \in SessionId /\ presence[socketData[k]] = "online"
  BY SpeakerBound, NullAssumption DEF presence, presenceOf, ServerInv, LayerInv, LayerTypeOK
<1> USE DEF ServerInv, RoomInv, RoomTypeOK
<1>5. ASSUME NEW k \in Socket, NEW c \in Code, RoomCreate(k, c) PROVE RM!Open(socketData[k], c)
  BY <1>3, <1>4, <1>5 DEF RoomCreate, CreateRoom, CanCreate, RoomOpenIffOccupied, RM!Open, presence
<1>6. ASSUME NEW k \in Socket, NEW c \in Code, RoomJoin(k, c) PROVE RM!Enter(socketData[k], c)
  <2>1. /\ CanJoin(c, socketData[k])
        /\ participants' = [participants EXCEPT ![c] = @ \cup {socketData[k]}]
        /\ presence[socketData[k]] = "online" /\ socketData[k] \in SessionId
    BY <1>4, <1>6 DEF RoomJoin, JoinRoom
  <2>2. participants[c] # {}
    BY <2>1 DEF CanJoin, RoomOpenIffOccupied
  <2>3. UNCHANGED [s \in SessionId |-> presenceOf(s)]
    BY <1>3 DEF presence
  <2>4. [s \in SessionId |-> presenceOf(s)][socketData[k]] = "online"
    BY <2>1 DEF presence
  <2>5. socketData[k] \notin participants[c] /\ Cardinality(participants[c]) < MAX_PARTICIPANTS
    BY <2>1 DEF CanJoin
  <2> QED
    BY <2>1, <2>2, <2>3, <2>4, <2>5 DEF RM!Enter, RM!Cardinality, Cardinality
<1>7. ASSUME NEW k \in Socket, NEW c \in Code, RoomLeave(k, c)
      PROVE  RM!Exit(socketData[k], c) \/ UNCHANGED RM!membershipVars
  <2>1. CASE socketData[k] \in participants[c]
    BY <1>3, <1>4, <1>7, <2>1 DEF RoomLeave, LeaveRoom, RoomOpenIffOccupied, RM!Exit, presence
  <2>2. CASE socketData[k] \notin participants[c]
    <3>1. participants' = participants
      BY <1>7, <2>2 DEF RoomLeave, LeaveRoom, roomVars
    <3> QED
      BY <1>3, <3>1 DEF RM!membershipVars, presence
  <2> QED
    BY <2>1, <2>2
<1>8. ASSUME NEW k \in Socket,
             \/ \E c \in Code :
                  \/ JoinRefused(k, c)
                  \/ ChatMessage(k, c) \/ TypingStart(k, c) \/ TypingStop(k, c)
                  \/ PresenceRequest(k, c) \/ MediaState(k, c)
                  \/ \E t \in SessionId, ev \in Signals : SignalRelay(k, c, t, ev)
             \/ Refused(k)
      PROVE  UNCHANGED RM!membershipVars
  BY <1>3, <1>8 DEF JoinRefused, ChatMessage, TypingStart, TypingStop, PresenceRequest, MediaState,
                    SignalRelay, Refused, roomVars, RM!membershipVars, presence
<1>9. \A k \in Socket, c \in Code :
        RoomCreate(k, c) \/ RoomJoin(k, c) \/ RoomLeave(k, c) => socketData[k] \in SessionId
  BY <1>4 DEF RoomCreate, RoomJoin, RoomLeave
<1> QED
  BY <1>5, <1>6, <1>7, <1>8, <1>9 DEF EventStep

LEMMA RefineTimer ==
    ASSUME ServerInv, TimerStep
    PROVE  (\E s \in SessionId : RM!Evict(s)) \/ UNCHANGED RM!membershipVars
<1> USE DEF ServerInv, RoomInv, RoomTypeOK, SessionInv, SessionTypeOK
<1>1. ASSUME NEW s \in SessionId, GraceExpire(s) PROVE RM!Evict(s)
  <2> USE <1>1 DEF GraceExpire, CleanupTimerFires, RemoveFromAll, CodesLeft
  <2>1. s \in sessions /\ socketOf[s] = NoSocket /\ s \in issued
    BY DEF GraceTimer, InGrace
  <2>2. presenceOf(s) = "grace" /\ presenceOf(s)' = "gone"
    BY <2>1 DEF presenceOf
  <2>3. \A t \in SessionId \ {s} : presenceOf(t)' = presenceOf(t)
    BY DEF presenceOf
  <2>4. presence' = [presence EXCEPT ![s] = "gone"]
    BY <2>2, <2>3, PresenceOfOne
  <2>5. participants' = [c \in Code |-> participants[c] \ {s}]
    BY DEF IndexConsistent, RoomOpenIffOccupied
  <2> QED
    BY <2>2, <2>4, <2>5 DEF RM!Evict, presence
<1>2. ASSUME UNCHANGED <<roomVars, sessionVars>> PROVE UNCHANGED RM!membershipVars
  <2>1. \A t \in SessionId : presenceOf(t)' = presenceOf(t)
    BY <1>2 DEF sessionVars, presenceOf
  <2> QED
    BY <1>2, <2>1 DEF roomVars, RM!membershipVars
<1>3. ASSUME NEW s \in SessionId, NEW c \in Code, TypingExpire(c, s) PROVE UNCHANGED RM!membershipVars
  BY <1>2, <1>3 DEF TypingExpire
<1>4. CASE Reap
  BY <1>2, <1>4, ReapIsIdle DEF Reap
<1>5. ASSUME NEW old, SweepFailedJoins(old) PROVE UNCHANGED RM!membershipVars
  BY <1>2, <1>5, SweepTouches
<1> QED
  BY <1>1, <1>3, <1>4, <1>5 DEF TimerStep

LEMMA RefineRestart == ServerInv /\ Restart => RM!Crash
<1> SUFFICES ASSUME ServerInv, Restart PROVE RM!Crash
  OBVIOUS
<1>1. \A t \in SessionId :
        presenceOf(t)' = IF presenceOf(t) = "unborn" THEN "unborn" ELSE "gone"
  BY DEF Restart, SessionReset, presenceOf, ServerInv, SessionInv
<1> QED
  BY <1>1 DEF RM!Crash, Restart, RoomReset

LEMMA RefineInit == Init => RM!MembershipInit
BY DEF Init, RoomInit, SessionInit, RM!MembershipInit, presenceOf

LEMMA RefineStep == ServerInv /\ ServerInv' /\ [Next]_vars => [RM!MembershipNext]_(RM!membershipVars)
<1> SUFFICES ASSUME ServerInv, ServerInv', [Next]_vars
             PROVE  [RM!MembershipNext]_(RM!membershipVars)
  OBVIOUS
<1>1. CASE ConnectionStep
  BY <1>1, RefineConnection DEF RM!MembershipNext
<1>2. CASE EventStep
  BY <1>2, RefineEvent DEF RM!MembershipNext
<1>3. CASE TimerStep
  BY <1>3, RefineTimer DEF RM!MembershipNext
<1>4. CASE Restart
  BY <1>4, RefineRestart DEF RM!MembershipNext
<1>5. CASE UNCHANGED vars
  BY <1>5 DEF vars, roomVars, sessionVars, presenceOf, RM!membershipVars
<1> QED
  BY <1>1, <1>2, <1>3, <1>4, <1>5 DEF Next

(* Seats are gained and lost only as RoomMembership says: by people who    *)
(* are online, one step at a time, or all at once when a grace period ends *)
(* or the process restarts.                                                *)
THEOREM ServerImplementsMembership == Spec => ImplementsMembership
<1>1. Init => RM!MembershipInit
  BY RefineInit
<1>2. ServerInv /\ ServerInv' /\ [Next]_vars => [RM!MembershipNext]_(RM!membershipVars)
  BY RefineStep
<1> QED
  BY <1>1, <1>2, ServerInvAlways, PTL DEF Spec, ImplementsMembership, RM!MembershipSpec
=============================================================================
