---------------------------- MODULE SessionService ----------------------------
(***************************************************************************)
(* Anonymous sessions and their reconnect grace period                     *)
(* (apps/server/src/services/session-service.ts).  A session is bound to   *)
(* at most one socket; when that socket goes away a timer starts, and the  *)
(* session is destroyed when the timer fires unless a new socket reclaims  *)
(* it first.  Time is left out: an armed timer may fire at any moment.     *)
(* disconnectedAt is written and never read; nicknames have no bearing on  *)
(* a session's life.  Neither is a variable here.                          *)
(***************************************************************************)
EXTENDS SessionIds

CONSTANTS
    Socket,    \* socket.io connections
    NoSession, NoSocket

ASSUME NullAssumption == NoSession \notin SessionId /\ NoSocket \notin Socket

VARIABLES
    sessions,          \* keys of the Map id -> Session
    socketOf,          \* socketOf[s]: session.socketId
    armed,             \* sessions whose cleanupTimer is pending
    socketToSession,   \* the Map socketId -> id
    issued             \* ids handed out so far (no variable of the code: UUIDs are unique)

sessionVars == <<sessions, socketOf, armed, socketToSession, issued>>

SessionTypeOK ==
    /\ sessions \subseteq SessionId
    /\ socketOf \in [SessionId -> Socket \cup {NoSocket}]
    /\ armed \subseteq SessionId
    /\ socketToSession \in [Socket -> SessionId \cup {NoSession}]
    /\ issued \subseteq SessionId

SessionInit ==
    /\ sessions = {}
    /\ socketOf = [s \in SessionId |-> NoSocket]
    /\ armed = {}
    /\ socketToSession = [k \in Socket |-> NoSession]
    /\ issued = {}

-----------------------------------------------------------------------------
Bound(s) == s \in sessions /\ socketOf[s] # NoSocket

InGrace(s) == s \in sessions /\ socketOf[s] = NoSocket

(* Slip: the socket mapped to itself.                                      *)
CreateSwapped(s, k) ==
    /\ s \notin issued
    /\ sessions' = sessions \cup {s}
    /\ socketOf' = [socketOf EXCEPT ![s] = k]
    /\ socketToSession' = [socketToSession EXCEPT ![k] = k]
    /\ issued' = issued \cup {s}
    /\ UNCHANGED armed

Create(s, k) ==
    /\ s \notin issued
    /\ sessions' = sessions \cup {s}
    /\ socketOf' = [socketOf EXCEPT ![s] = k]
    /\ socketToSession' = [socketToSession EXCEPT ![k] = s]
    /\ issued' = issued \cup {s}
    /\ UNCHANGED armed

(* Slips: reclaim without clearTimeout; without deleting the old socket.   *)
ReclaimKeepsTimer(s, k) ==
    /\ s \in sessions
    /\ socketOf' = [socketOf EXCEPT ![s] = k]
    /\ socketToSession' = [j \in Socket |->
            IF j = k THEN s
            ELSE IF j = socketOf[s] THEN NoSession ELSE socketToSession[j]]
    /\ UNCHANGED <<sessions, issued, armed>>

ReclaimKeepsSocket(s, k) ==
    /\ s \in sessions
    /\ armed' = armed \ {s}
    /\ socketOf' = [socketOf EXCEPT ![s] = k]
    /\ socketToSession' = [socketToSession EXCEPT ![k] = s]
    /\ UNCHANGED <<sessions, issued>>

(* reclaim takes any session that exists.  Its comment says "exists and is *)
(* in grace period", but the grace period is never tested: a session that  *)
(* another socket still holds is taken over.                               *)
Reclaim(s, k) ==
    /\ s \in sessions
    /\ armed' = armed \ {s}
    /\ socketOf' = [socketOf EXCEPT ![s] = k]
    /\ socketToSession' = [j \in Socket |->
            IF j = k THEN s
            ELSE IF j = socketOf[s] THEN NoSession ELSE socketToSession[j]]
    /\ UNCHANGED <<sessions, issued>>

(* Slip: no timer is started.                                              *)
HandleDisconnectNoTimer(k) ==
    /\ socketToSession[k] \in sessions
    /\ socketOf' = [socketOf EXCEPT ![socketToSession[k]] = NoSocket]
    /\ socketToSession' = [socketToSession EXCEPT ![k] = NoSession]
    /\ UNCHANGED <<sessions, armed, issued>>

HandleDisconnect(k) ==
    \/ /\ socketToSession[k] \in sessions
       /\ socketOf' = [socketOf EXCEPT ![socketToSession[k]] = NoSocket]
       /\ armed' = armed \cup {socketToSession[k]}
       /\ socketToSession' = [socketToSession EXCEPT ![k] = NoSession]
       /\ UNCHANGED <<sessions, issued>>
    \/ /\ socketToSession[k] \notin sessions
       /\ UNCHANGED sessionVars

(* The cleanup timer fires: destroy(s).  onSessionExpired runs next, in    *)
(* the same callback (SignalingServer!GraceExpire adds its effect).        *)
CleanupTimerFires(s) ==
    /\ s \in armed
    /\ armed' = armed \ {s}
    /\ sessions' = sessions \ {s}
    /\ socketToSession' = [k \in Socket |->
            IF s \in sessions /\ k = socketOf[s] THEN NoSession ELSE socketToSession[k]]
    /\ socketOf' = [socketOf EXCEPT ![s] = NoSocket]
    /\ UNCHANGED issued

(* The process stops and starts again: Maps and timers are gone, and the   *)
(* ids that clients hold are still never handed out again.                 *)
SessionReset ==
    /\ sessions' = {}
    /\ socketOf' = [s \in SessionId |-> NoSocket]
    /\ armed' = {}
    /\ socketToSession' = [k \in Socket |-> NoSession]
    /\ UNCHANGED issued

(* create and reclaim are called once per connection, with its own, fresh  *)
(* socket id: k is bound to nothing.                                       *)
SessionNext ==
    \/ \E k \in Socket :
         \/ /\ socketToSession[k] = NoSession
            /\ \E s \in SessionId : Create(s, k) \/ Reclaim(s, k)
         \/ HandleDisconnect(k)
    \/ \E s \in SessionId : CleanupTimerFires(s)
    \/ SessionReset

SessionSpec == SessionInit /\ [][SessionNext]_sessionVars

(* setTimeout fires once its delay has passed, unless it is cleared first. *)
SessionFairSpec ==
    SessionSpec /\ \A s \in SessionId : WF_sessionVars(CleanupTimerFires(s))

-----------------------------------------------------------------------------
(* A cleanup timer is pending exactly for the sessions without a socket:   *)
(* no session that a client holds can be destroyed under it, no            *)
(* handleDisconnect overwrites a pending timer, and no abandoned session   *)
(* stays for ever.                                                         *)
GraceTimer == \A s \in SessionId : s \in armed <=> InGrace(s)

(* The two maps are inverse to each other on live sessions: no socket      *)
(* resolves to a session that another socket took over, or to a dead one.  *)
SocketBijection ==
    \A s \in SessionId, k \in Socket :
        socketToSession[k] = s <=> s \in sessions /\ socketOf[s] = k

(* A session that lost its socket is reclaimed or destroyed in the end.    *)
GraceEnds == \A s \in SessionId : InGrace(s) ~> ~InGrace(s)
===============================================================================
