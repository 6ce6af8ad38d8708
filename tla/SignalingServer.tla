--------------------------- MODULE SignalingServer ---------------------------
(***************************************************************************)
(* The signaling server as a whole: the socket layer                       *)
(* (apps/server/src/socket) driving the session, room, typing and chat     *)
(* services, with socket.io's own state (which sockets are connected, and  *)
(* which broadcast rooms each has joined).                                 *)
(*                                                                         *)
(* Node runs one callback at a time, so a handler or a timer callback is   *)
(* one step, with everything it calls.  Interleaving is between callbacks: *)
(* connections, disconnections, client events, grace-period and typing     *)
(* timers, the reaper, and a crash with restart, in any order.             *)
(*                                                                         *)
(* Time is left out.  A limiter's verdict is a free choice: an event it    *)
(* rejects is a Refused step, or no step at all.  out holds what the last  *)
(* callback sent (plain {ok} answers excepted); a client that is gone, or  *)
(* a volatile message, may miss it.                                        *)
(***************************************************************************)
EXTENDS TypingService, SessionService

VARIABLES
    recentMessages,   \* sessions with a throttle entry in ChatService
    failedJoinAttempts, \* sessions with an entry in the join throttle of rooms.ts
    connected,        \* io.sockets.sockets
    ioRooms,          \* ioRooms[k]: the broadcast rooms of socket k
    socketData,       \* socketData[k]: socket.data.sessionId, set once per connection
    out               \* messages sent by the last step

throttleVars == <<recentMessages, failedJoinAttempts>>

socketVars == <<connected, ioRooms, socketData>>
vars == <<roomVars, sessionVars, typing, throttleVars, socketVars, out>>

Volatile == {"typing:start", "typing:stop", "room:peer-disconnected",
             "room:peer-reconnected", "signal:ice-candidate"}

Reliable == {"room:peer-joined", "room:peer-left", "chat:message",
             "signal:offer", "signal:answer", "media:state"}

Answers == {"room:join", "presence:request"}

Signals == {"signal:offer", "signal:answer", "signal:ice-candidate"}

(* c is the room the message is about, s the session it names, n the       *)
(* participant count it carries, online the participants that a roster     *)
(* in an answer reports as online.                                         *)
Message == [ev : Volatile \cup Reliable \cup Answers, to : SUBSET Socket,
            room : Code, sid : SessionId, n : Nat, online : SUBSET SessionId]

Msg(ev, to, c, s, n) ==
    [ev |-> ev, to |-> to, room |-> c, sid |-> s, n |-> n, online |-> {}]

TypeOK ==
    /\ RoomTypeOK
    /\ SessionTypeOK
    /\ TypingTypeOK
    /\ recentMessages \subseteq SessionId
    /\ failedJoinAttempts \subseteq SessionId
    /\ connected \subseteq Socket
    /\ ioRooms \in [Socket -> SUBSET Code]
    /\ socketData \in [Socket -> SessionId \cup {NoSession}]
    /\ out \subseteq Message

Init ==
    /\ RoomInit
    /\ SessionInit
    /\ typing = {}
    /\ recentMessages = {}
    /\ failedJoinAttempts = {}
    /\ connected = {}
    /\ ioRooms = [k \in Socket |-> {}]
    /\ socketData = [k \in Socket |-> NoSession]
    /\ out = {}

-----------------------------------------------------------------------------
(* io.to(c), and socket.to(c), which leaves out the sender.                *)
InRoom(c) == {k \in connected : c \in ioRooms[k]}
Others(k, c) == InRoom(c) \ {k}

(* Slip: a roster that reports every session in the table as online.       *)
ShownOnlineIfKnown(s) == s \in sessions

(* getRoomPresence's online flag: session?.socketId !== null, which is     *)
(* also true of a participant whose session is gone.                       *)
ShownOnline(s) == s \notin sessions \/ socketOf[s] # NoSocket

Roster(ev, k, c) ==
    [ev |-> ev, to |-> {k}, room |-> c, sid |-> socketData[k],
     n |-> Cardinality(participants'[c]),
     online |-> {s \in participants'[c] : ShownOnline(s)}]

(* Slip: the typing state cleared before its rooms are read.               *)
GoodbyesNoTyping(k) ==
    LET found == socketToSession[k]
    IN  {Msg("room:peer-disconnected", Others(k, c), c, found, ParticipantCount(c)) :
            c \in {d \in Code : found \in sessions /\ d \in GetRoomsBySession(found)}}

(* What the disconnect handler of socket k sends: typing:stop for the      *)
(* session captured when k connected, room:peer-disconnected for the one   *)
(* that the session table binds to k.                                      *)
Goodbyes(k) ==
    LET captured == socketData[k]
        found    == socketToSession[k]
    IN  {Msg("typing:stop", Others(k, c), c, captured, 0) : c \in TypingRooms(captured)}
        \cup {Msg("room:peer-disconnected", Others(k, c), c, found, ParticipantCount(c)) :
                c \in {d \in Code : found \in sessions /\ d \in GetRoomsBySession(found)}}

(* What the connection handler sends for a reclaimed session s, among the  *)
(* sockets still open.                                                     *)
Returns(s, open) ==
    {Msg("room:peer-reconnected", {j \in open : c \in ioRooms[j]}, c, s, ParticipantCount(c)) :
            c \in GetRoomsBySession(s)}

-----------------------------------------------------------------------------
(* Connections.  k is a fresh socket; the client offers no session id, or  *)
(* one that is no longer known.                                            *)
ConnectFresh(k, s) ==
    /\ k \notin connected
    /\ Create(s, k)
    /\ connected' = connected \cup {k}
    /\ socketData' = [socketData EXCEPT ![k] = s]
    /\ out' = {}
    /\ UNCHANGED <<roomVars, typing, throttleVars, ioRooms>>

(* The client offers s, and no live socket holds it.                       *)
ConnectReclaim(k, s) ==
    /\ k \notin connected
    /\ socketOf[s] \notin connected
    /\ Reclaim(s, k)
    /\ connected' = connected \cup {k}
    /\ socketData' = [socketData EXCEPT ![k] = s]
    /\ ioRooms' = [ioRooms EXCEPT ![k] = GetRoomsBySession(s)]
    /\ out' = Returns(s, connected)
    /\ UNCHANGED <<roomVars, typing, throttleVars>>

(* Slip: the old socket is not closed.                                     *)
ConnectTakeoverKeepsSocket(k, s) ==
    /\ k \notin connected
    /\ socketOf[s] \in connected
    /\ Reclaim(s, k)
    /\ connected' = connected \cup {k}
    /\ socketData' = [socketData EXCEPT ![k] = s]
    /\ ioRooms' = [ioRooms EXCEPT ![k] = GetRoomsBySession(s)]
    /\ out' = Returns(s, connected)
    /\ UNCHANGED <<roomVars, typing, throttleVars>>

(* The client offers s while another socket still holds it: resolveSession *)
(* closes that socket, whose disconnect handler runs at once, and reclaims *)
(* s.  handleDisconnect arms the timer that reclaim clears and unbinds the *)
(* socket that reclaim would unbind: together they do what reclaim does.   *)
ConnectTakeover(k, s) ==
    LET old == socketOf[s] IN
    /\ k \notin connected
    /\ old \in connected
    /\ Reclaim(s, k)
    /\ ClearTyping(socketData[old])
    /\ connected' = (connected \ {old}) \cup {k}
    /\ socketData' = [socketData EXCEPT ![old] = NoSession, ![k] = s]
    /\ ioRooms' = [ioRooms EXCEPT ![old] = {}, ![k] = GetRoomsBySession(s)]
    /\ out' = Goodbyes(old) \cup Returns(s, connected \ {old})
    /\ UNCHANGED <<roomVars, throttleVars>>

(* Slips: the typing state is kept; the seats are given up at once.        *)
DisconnectKeepsTyping(k) ==
    /\ k \in connected
    /\ HandleDisconnect(k)
    /\ connected' = connected \ {k}
    /\ socketData' = [socketData EXCEPT ![k] = NoSession]
    /\ ioRooms' = [ioRooms EXCEPT ![k] = {}]
    /\ out' = Goodbyes(k)
    /\ UNCHANGED <<roomVars, typing, throttleVars>>

DisconnectEvicts(k) ==
    /\ k \in connected
    /\ HandleDisconnect(k)
    /\ RemoveFromAll(socketData[k])
    /\ ClearTyping(socketData[k])
    /\ connected' = connected \ {k}
    /\ socketData' = [socketData EXCEPT ![k] = NoSession]
    /\ ioRooms' = [ioRooms EXCEPT ![k] = {}]
    /\ out' = Goodbyes(k)
    /\ UNCHANGED throttleVars

(* A transport closes, for any reason.  socket.io takes the socket out of  *)
(* its rooms first; the handler uses the session id captured when the      *)
(* socket connected for the typing state, and the socket id for the rest.  *)
Disconnect(k) ==
    /\ k \in connected
    /\ HandleDisconnect(k)
    /\ ClearTyping(socketData[k])
    /\ connected' = connected \ {k}
    /\ socketData' = [socketData EXCEPT ![k] = NoSession]
    /\ ioRooms' = [ioRooms EXCEPT ![k] = {}]
    /\ out' = Goodbyes(k)
    /\ UNCHANGED <<roomVars, throttleVars>>

-----------------------------------------------------------------------------
(* Client events.  Each acts for socketData[k], the session captured when  *)
(* socket k connected.                                                     *)
(* Slip: socket.join given the session id.                                 *)
RoomCreateJoinsSession(k, c) ==
    /\ k \in connected
    /\ CreateRoom(socketData[k], c)
    /\ ioRooms' = [ioRooms EXCEPT ![k] = @ \cup {socketData[k]}]
    /\ out' = {}
    /\ UNCHANGED <<sessionVars, typing, throttleVars, connected, socketData>>

RoomCreate(k, c) ==
    /\ k \in connected
    /\ CreateRoom(socketData[k], c)
    /\ ioRooms' = [ioRooms EXCEPT ![k] = @ \cup {c}]
    /\ out' = {}
    /\ UNCHANGED <<sessionVars, typing, throttleVars, connected, socketData>>

(* isJoinAllowed, which makes the entry before anything else is tested.    *)
CountAttempt(s) == failedJoinAttempts' = failedJoinAttempts \cup {s}

RoomJoin(k, c) ==
    LET s == socketData[k] IN
    /\ k \in connected
    /\ CountAttempt(s)
    /\ JoinRoom(c, s)
    /\ ioRooms' = [ioRooms EXCEPT ![k] = @ \cup {c}]
    /\ out' = {Msg("room:peer-joined", Others(k, c), c, s, ParticipantCount(c)'),
               Roster("room:join", k, c)}
    /\ UNCHANGED <<sessionVars, typing, recentMessages, connected, socketData>>

(* joinRoom fails, or the throttle of a session that failed before refuses *)
(* to try: either way the attempt leaves an entry.                         *)
JoinRefused(k, c) ==
    LET s == socketData[k] IN
    /\ k \in connected
    /\ s \in failedJoinAttempts \/ ~CanJoin(c, s)
    /\ CountAttempt(s)
    /\ out' = {}
    /\ UNCHANGED <<roomVars, sessionVars, typing, recentMessages, socketVars>>

(* Slip: room:leave without socket.leave.                                  *)
RoomLeaveStaysSubscribed(k, c) ==
    LET s == socketData[k] IN
    /\ k \in connected
    /\ LeaveRoom(c, s)
    /\ out' = {Msg("room:peer-left", Others(k, c), c, s, ParticipantCount(c)')}
    /\ UNCHANGED <<sessionVars, typing, throttleVars, socketVars>>

(* The handler does not ask whether the session is in the room.            *)
RoomLeave(k, c) ==
    LET s == socketData[k] IN
    /\ k \in connected
    /\ LeaveRoom(c, s)
    /\ ioRooms' = [ioRooms EXCEPT ![k] = @ \ {c}]
    /\ out' = {Msg("room:peer-left", Others(k, c), c, s, ParticipantCount(c)')}
    /\ UNCHANGED <<sessionVars, typing, throttleVars, connected, socketData>>

(* Slip: io.to for socket.to, so that the sender gets its own message.     *)
ChatMessageEchoes(k, c) ==
    LET s == socketData[k] IN
    /\ k \in connected
    /\ IsParticipant(c, s)
    /\ StopTyping(c, s)
    /\ recentMessages' = recentMessages \cup {s}
    /\ out' = {Msg("chat:message", InRoom(c), c, s, 0)}
    /\ UNCHANGED <<roomVars, sessionVars, failedJoinAttempts, socketVars>>

(* Sending clears the sender's typing entry and announces no typing:stop.  *)
ChatMessage(k, c) ==
    LET s == socketData[k] IN
    /\ k \in connected
    /\ IsParticipant(c, s)
    /\ StopTyping(c, s)
    /\ recentMessages' = recentMessages \cup {s}
    /\ out' = {Msg("chat:message", Others(k, c), c, s, 0)}
    /\ UNCHANGED <<roomVars, sessionVars, failedJoinAttempts, socketVars>>

TypingStart(k, c) ==
    /\ k \in connected
    /\ StartTyping(c, socketData[k])
    /\ out' = {Msg("typing:start", Others(k, c), c, socketData[k], 0)}
    /\ UNCHANGED <<roomVars, sessionVars, throttleVars, socketVars>>

TypingStop(k, c) ==
    LET s == socketData[k] IN
    /\ k \in connected
    /\ StopTyping(c, s)
    /\ out' = IF IsTyping(c, s)
              THEN {Msg("typing:stop", Others(k, c), c, s, 0)} ELSE {}
    /\ UNCHANGED <<roomVars, sessionVars, throttleVars, socketVars>>

PresenceRequest(k, c) ==
    /\ k \in connected
    /\ IsParticipant(c, socketData[k])
    /\ UNCHANGED <<roomVars, sessionVars, typing, throttleVars, socketVars>>
    /\ out' = {Roster("presence:request", k, c)}

(* validateRelay, then io.to(targetSocketId).                              *)
CanRelay(s, t, c) ==
    /\ s # t
    /\ IsParticipant(c, s)
    /\ IsParticipant(c, t)
    /\ Bound(t)

SignalRelay(k, c, t, ev) ==
    LET s == socketData[k] IN
    /\ k \in connected
    /\ CanRelay(s, t, c)
    /\ out' = {Msg(ev, {socketOf[t]}, c, s, 0)}
    /\ UNCHANGED <<roomVars, sessionVars, typing, throttleVars, socketVars>>

MediaState(k, c) ==
    /\ k \in connected
    /\ IsParticipant(c, socketData[k])
    /\ out' = {Msg("media:state", Others(k, c), c, socketData[k], 0)}
    /\ UNCHANGED <<roomVars, sessionVars, typing, throttleVars, socketVars>>

(* A handler refuses (bad payload, a limit, not a participant, room full,  *)
(* target offline ...) and answers {ok: false}.                            *)
Refused(k) ==
    /\ k \in connected
    /\ out' = {}
    /\ UNCHANGED <<roomVars, sessionVars, typing, throttleVars, socketVars>>

-----------------------------------------------------------------------------
(* Timers, and the end of the process.                                     *)

(* Slips: removeFromAll left to the reaper; the count taken before it.     *)
GraceExpireKeepsSeats(s) ==
    /\ CleanupTimerFires(s)
    /\ recentMessages' = recentMessages \ {s}
    /\ ClearTyping(s)
    /\ out' = {}
    /\ UNCHANGED <<roomVars, failedJoinAttempts, socketVars>>

GraceExpireCountsFirst(s) ==
    /\ CleanupTimerFires(s)
    /\ RemoveFromAll(s)
    /\ recentMessages' = recentMessages \ {s}
    /\ ClearTyping(s)
    /\ out' = {Msg("room:peer-left", InRoom(c), c, s, ParticipantCount(c)) : c \in CodesLeft(s)}
    /\ UNCHANGED <<failedJoinAttempts, socketVars>>

(* destroy(s), then the expiry callback of services/index.ts and the       *)
(* notifier of initSocket.                                                 *)
GraceExpire(s) ==
    /\ CleanupTimerFires(s)
    /\ RemoveFromAll(s)
    /\ recentMessages' = recentMessages \ {s}
    /\ ClearTyping(s)
    /\ out' = {Msg("room:peer-left", InRoom(c), c, s, ParticipantCount(c)') : c \in CodesLeft(s)}
    /\ UNCHANGED <<failedJoinAttempts, socketVars>>

TypingExpire(c, s) ==
    /\ TypingTimerFires(c, s)
    /\ out' = {Msg("typing:stop", InRoom(c), c, s, 0)}
    /\ UNCHANGED <<roomVars, sessionVars, throttleVars, socketVars>>

Reap ==
    /\ ReapStale(sessions)
    /\ out' = {}
    /\ UNCHANGED <<sessionVars, typing, throttleVars, socketVars>>

(* Slip: the window is cut, and the empty entry stays.                     *)
SweepKeepsEmpty(old) ==
    /\ out' = {}
    /\ UNCHANGED <<roomVars, sessionVars, typing, throttleVars, socketVars>>

(* The interval of rooms.ts drops the entries whose failed attempts (there *)
(* may be none) are all over a minute ago.  Nothing else drops one: the    *)
(* expiry callback does not know of this map.                              *)
SweepFailedJoins(old) ==
    /\ failedJoinAttempts' = failedJoinAttempts \ old
    /\ out' = {}
    /\ UNCHANGED <<roomVars, sessionVars, typing, recentMessages, socketVars>>

(* A crash or a deployment: the container comes back with empty memory.    *)
Restart ==
    /\ RoomReset
    /\ SessionReset
    /\ typing' = {}
    /\ recentMessages' = {}
    /\ failedJoinAttempts' = {}
    /\ connected' = {}
    /\ ioRooms' = [k \in Socket |-> {}]
    /\ socketData' = [k \in Socket |-> NoSession]
    /\ out' = {}

ConnectionStep ==
    \E k \in Socket :
        \/ \E s \in SessionId : ConnectFresh(k, s) \/ ConnectReclaim(k, s) \/ ConnectTakeover(k, s)
        \/ Disconnect(k)

EventStep ==
    \E k \in Socket :
        \/ \E c \in Code :
             \/ RoomCreate(k, c) \/ RoomJoin(k, c) \/ JoinRefused(k, c) \/ RoomLeave(k, c)
             \/ ChatMessage(k, c) \/ TypingStart(k, c) \/ TypingStop(k, c)
             \/ PresenceRequest(k, c) \/ MediaState(k, c)
             \/ \E t \in SessionId, ev \in Signals : SignalRelay(k, c, t, ev)
        \/ Refused(k)

TimerStep ==
    \/ \E s \in SessionId : GraceExpire(s) \/ \E c \in Code : TypingExpire(c, s)
    \/ \E old \in SUBSET failedJoinAttempts : SweepFailedJoins(old)
    \/ Reap

Next == ConnectionStep \/ EventStep \/ TimerStep \/ Restart

Spec == Init /\ [][Next]_vars

(* Fairness: the event loop runs a timer callback once its delay is over   *)
(* and nothing has cleared it.  A typing timer is set again by every       *)
(* typing:start, so only that of a session that is no longer in the room,  *)
(* whose starts are refused, is bound to fire; and only a session that can *)
(* try to join no more is bound to be swept.  Nothing is assumed of        *)
(* clients.                                                                *)
FairSpec ==
    /\ Spec
    /\ \A s \in SessionId : WF_vars(GraceExpire(s))
    /\ \A s \in SessionId, c \in Code :
            WF_vars(s \notin participants[c] /\ TypingExpire(c, s))
    /\ \A s \in SessionId :
            WF_vars(s \notin sessions /\ \E old \in SUBSET failedJoinAttempts :
                                            s \in old /\ SweepFailedJoins(old))

-----------------------------------------------------------------------------
(* Invariants.                                                             *)

(* Only live sessions participate in rooms: eviction is complete.  So the  *)
(* reaper never finds anything (it removes people without telling the      *)
(* others), and a roster never shows a dead session as online.             *)
ParticipantsAlive == \A c \in Code : participants[c] \subseteq sessions

(* What a handler captured when its socket connected never goes stale: a   *)
(* connected socket and its captured session are bound to each other, and  *)
(* no session is bound to a closed socket.  So two sockets never act for   *)
(* one session, and every session not in grace can be reached.             *)
CapturedSessionCurrent ==
    /\ \A k \in Socket : socketData[k] = socketToSession[k]
    /\ \A k \in Socket : k \in connected <=> socketToSession[k] \in sessions

(* socket.io's broadcast rooms follow the room table: the socket of a      *)
(* connected session has joined exactly the rooms it participates in,      *)
(* across reconnects, takeovers and leaves of rooms it is not in.          *)
BroadcastScope ==
    \A k \in Socket : ioRooms[k] = {c \in Code : k \in connected /\ socketData[k] \in participants[c]}

(* What the disconnect handler and the expiry callback clear is clear for  *)
(* good: typing timers belong to connected sessions and ChatService's      *)
(* throttle entries to live ones, whatever ran in between.  The throttle   *)
(* of rooms.ts is not among it: its entries outlive their sessions until   *)
(* the sweep (LeftoversSwept).                                             *)
TransientStateCleared ==
    /\ \A p \in typing : Bound(p[2])
    /\ recentMessages \subseteq sessions

(* A broadcast reaches the sockets of the other connected participants,    *)
(* and a relayed signal one of them: nobody outside the room hears it and  *)
(* nobody in it is skipped.  (typing:stop on expiry goes to its own author *)
(* as well.)                                                               *)
DeliveredInRoom ==
    \A m \in out :
        LET peers == {k \in connected : socketData[k] \in participants[m.room] \ {m.sid}}
        IN  /\ m.ev \in Answers => m.to \subseteq connected
            /\ m.ev \in Signals => m.to # {} /\ m.to \subseteq peers
            /\ m.ev = "typing:stop" => peers \subseteq m.to
            /\ m.ev \in (Volatile \cup Reliable) \ (Signals \cup {"typing:stop"}) => m.to = peers

(* The roster in an answer tells the truth: a participant is shown online  *)
(* exactly when a connected socket speaks for it.                          *)
RosterTruthful ==
    \A m \in out : m.ev \in Answers =>
        m.online = {s \in participants[m.room] : \E k \in connected : socketData[k] = s}

-----------------------------------------------------------------------------
(* Action properties.                                                      *)

(* The sockets of the other participants that are connected after a step,  *)
(* and that they are sent, in that step, a notice with the new count.      *)
NextPeers(c, s) == {k \in connected' : socketData'[k] \in participants'[c] \ {s}}

Announced(ev, c, s) ==
    NextPeers(c, s) # {} =>
        \E m \in out' :
            /\ m.ev = ev /\ m.room = c /\ m.sid = s
            /\ NextPeers(c, s) \subseteq m.to
            /\ m.n = Cardinality(participants'[c])

(* Nobody disappears from, or turns up in, a room silently: every other    *)
(* participant that is connected gets a non-volatile notice that names the *)
(* session and carries the new count, in the very step that changes the    *)
(* room, whether it is a join, a leave, an expiry or the reaper.           *)
MembershipAnnounced ==
    [][\A c \in Code, s \in SessionId :
         /\ s \in participants[c] \ participants'[c] => Announced("room:peer-left", c, s)
         /\ s \in participants'[c] \ participants[c] => Announced("room:peer-joined", c, s)
      ]_vars

(* A participant loses its place only by its own room:leave or because its *)
(* grace period ran out (or with the whole process): another client, the   *)
(* reaper, a disconnect or a reconnect never evicts it.                    *)
SeatKept ==
    [][\A c \in Code, s \in SessionId :
         s \in participants[c] \ participants'[c] =>
            \/ RoomLeave(socketOf[s], c)
            \/ s \in armed /\ s \notin sessions'
            \/ rooms' = {} /\ sessions' = {} /\ connected' = {}
      ]_vars

(* An indicator that peers were shown does not go stale: when a typing     *)
(* entry goes away, in whatever step, every other connected participant is *)
(* told in that step, by typing:stop or by the message that was typed.     *)
TypingEndTold ==
    [][\A c \in Code, s \in SessionId :
         <<c, s>> \in typing \ typing' =>
            (NextPeers(c, s) # {} =>
                \E m \in out' : /\ m.ev \in {"typing:stop", "chat:message"}
                               /\ m.room = c /\ m.sid = s
                               /\ NextPeers(c, s) \subseteq m.to)
      ]_vars

(* What chat.ts says of chat:message, "Sending a message implicitly stops  *)
(* the typing indicator": the indicator that peers show is stopped by      *)
(* typing:stop only, and the handler drops the entry without sending one.  *)
TypingStopSent ==
    [][\A c \in Code, s \in SessionId :
         <<c, s>> \in typing \ typing' /\ NextPeers(c, s) # {} =>
            \E m \in out' : m.ev = "typing:stop" /\ m.room = c /\ m.sid = s
      ]_vars

(* What use-chat.ts renders on room:peer-left, "has left the room": the    *)
(* session it names was in the room.  room:leave does not check, and the   *)
(* people in the room are told that a stranger left.                       *)
OnlyParticipantsLeave ==
    [][\A m \in out' : m.ev = "room:peer-left" /\ m.to # {} =>
                            m.sid \in participants[m.room]]_vars

-----------------------------------------------------------------------------
(* Liveness.                                                               *)

(* A room whose participants have all gone offline does not hold its code  *)
(* and its seats for ever: one of them returns or the room closes.         *)
AbandonedRoomCloses ==
    \A c \in Code :
        (c \in rooms /\ \A s \in participants[c] : InGrace(s))
            ~> (c \notin rooms \/ \E s \in participants[c] : Bound(s))

(* leaveRoom does not clear the typing timer of the leaver: it goes away   *)
(* all the same, unless the session comes back to the room.                *)
GhostTypingEnds ==
    \A c \in Code, s \in SessionId :
        (<<c, s>> \in typing /\ s \notin participants[c])
            ~> (<<c, s>> \notin typing \/ s \in participants[c])

(* The expiry callback forgets the join throttle, and an attempt makes an  *)
(* entry even when it succeeds: what a session that is gone left there     *)
(* goes away all the same, so the map does not grow with every visitor.    *)
LeftoversSwept ==
    \A s \in SessionId :
        (s \in failedJoinAttempts /\ s \notin sessions) ~> s \notin failedJoinAttempts
==============================================================================
