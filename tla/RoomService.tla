----------------------------- MODULE RoomService -----------------------------
(***************************************************************************)
(* The room table of the signaling server                                  *)
(* (apps/server/src/services/room-service.ts): which rooms are open, who   *)
(* participates in each, and the reverse index from a session to the codes *)
(* of its rooms.  Node runs every method to completion, so a method call   *)
(* is one step.  An absent Map entry is the empty set: the service deletes *)
(* an entry exactly when its set becomes empty, and size and has() cannot  *)
(* tell the two apart, except for a room, whose presence in the table is   *)
(* kept in rooms.                                                          *)
(***************************************************************************)
EXTENDS SessionIds, Integers, FiniteSets

CONSTANTS
    Code,                   \* room codes (900 000 of them in the source)
    MAX_PARTICIPANTS,
    MAX_ROOMS_PER_SESSION

ASSUME LimitsAssumption ==
    /\ MAX_PARTICIPANTS \in Nat \ {0}
    /\ MAX_ROOMS_PER_SESSION \in Nat \ {0}

VARIABLES
    rooms,           \* keys of the Map code -> Room
    participants,    \* participants[c]: the Set in the room of code c
    sessionToRooms   \* the reverse index

roomVars == <<rooms, participants, sessionToRooms>>

RoomTypeOK ==
    /\ rooms \subseteq Code
    /\ participants \in [Code -> SUBSET SessionId]
    /\ sessionToRooms \in [SessionId -> SUBSET Code]

RoomInit ==
    /\ rooms = {}
    /\ participants = [c \in Code |-> {}]
    /\ sessionToRooms = [s \in SessionId |-> {}]

-----------------------------------------------------------------------------
IsParticipant(c, s) == c \in rooms /\ s \in participants[c]

GetRoomsBySession(s) == sessionToRooms[s]

ParticipantCount(c) == IF c \in rooms THEN Cardinality(participants[c]) ELSE 0

AtRoomLimit(s) == Cardinality(sessionToRooms[s]) >= MAX_ROOMS_PER_SESSION

(* createRoom with the code that generateUniqueCode drew: any unused one.  *)
(* The call fails at the limit, and it may fail when 100 draws all hit an  *)
(* open room, which leaves the state alone.                                *)
CanCreate(s, c) == ~AtRoomLimit(s) /\ c \notin rooms

(* Slip: the arguments of addSessionIndex swapped.                         *)
CreateRoomSwapped(s, c) ==
    /\ CanCreate(s, c)
    /\ rooms' = rooms \cup {c}
    /\ participants' = [participants EXCEPT ![c] = {s}]
    /\ sessionToRooms' = [sessionToRooms EXCEPT ![s] = @ \cup {s}]

CreateRoom(s, c) ==
    /\ CanCreate(s, c)
    /\ rooms' = rooms \cup {c}
    /\ participants' = [participants EXCEPT ![c] = {s}]
    /\ sessionToRooms' = [sessionToRooms EXCEPT ![s] = @ \cup {c}]

CreateFails(s) ==
    /\ AtRoomLimit(s) \/ rooms # {}
    /\ UNCHANGED roomVars

(* Slip: > for >= in the test for a full room.                             *)
CanJoinOneTooMany(c, s) ==
    /\ c \in rooms
    /\ s \notin participants[c]
    /\ Cardinality(participants[c]) <= MAX_PARTICIPANTS

CanJoin(c, s) ==
    /\ c \in rooms
    /\ s \notin participants[c]
    /\ Cardinality(participants[c]) < MAX_PARTICIPANTS

JoinRoom(c, s) ==
    /\ CanJoin(c, s)
    /\ participants' = [participants EXCEPT ![c] = @ \cup {s}]
    /\ sessionToRooms' = [sessionToRooms EXCEPT ![s] = @ \cup {c}]
    /\ UNCHANGED rooms

(* Slip: leaveRoom without removeSessionIndex.                             *)
LeaveRoomKeepsIndex(c, s) ==
    /\ c \in rooms
    /\ participants' = [participants EXCEPT ![c] = @ \ {s}]
    /\ rooms' = IF participants[c] \subseteq {s} THEN rooms \ {c} ELSE rooms
    /\ UNCHANGED sessionToRooms

(* leaveRoom deletes s from the room whether or not it is in it.           *)
LeaveRoom(c, s) ==
    \/ /\ c \in rooms
       /\ participants' = [participants EXCEPT ![c] = @ \ {s}]
       /\ sessionToRooms' = [sessionToRooms EXCEPT ![s] = @ \ {c}]
       /\ rooms' = IF participants[c] \subseteq {s} THEN rooms \ {c} ELSE rooms
    \/ /\ c \notin rooms
       /\ UNCHANGED roomVars

(* removeFromAll walks the reverse index, never the rooms: a room that the *)
(* index misses keeps the session.  CodesLeft is the array it returns.     *)
CodesLeft(s) == sessionToRooms[s] \cap rooms

(* Slip: an emptied room is not deleted.                                   *)
RemoveFromAllKeepsRoom(s) ==
    /\ participants' = [c \in Code |->
            IF c \in CodesLeft(s) THEN participants[c] \ {s} ELSE participants[c]]
    /\ sessionToRooms' = [sessionToRooms EXCEPT ![s] = {}]
    /\ UNCHANGED rooms

RemoveFromAll(s) ==
    /\ participants' = [c \in Code |->
            IF c \in CodesLeft(s) THEN participants[c] \ {s} ELSE participants[c]]
    /\ rooms' = rooms \ {c \in CodesLeft(s) : participants[c] \subseteq {s}}
    /\ sessionToRooms' = [sessionToRooms EXCEPT ![s] = {}]

(* reapStale(isSessionAlive), the callback given as the set of live ids.   *)
ReapStale(alive) ==
    /\ participants' = [c \in Code |->
            IF c \in rooms THEN participants[c] \cap alive ELSE participants[c]]
    /\ rooms' = {c \in rooms : participants[c] \cap alive # {}}
    /\ sessionToRooms' = [s \in SessionId |->
            IF s \in alive THEN sessionToRooms[s]
            ELSE sessionToRooms[s] \ {c \in rooms : s \in participants[c]}]

(* The process stops and starts again: the Maps live in memory only.       *)
RoomReset ==
    /\ rooms' = {}
    /\ participants' = [c \in Code |-> {}]
    /\ sessionToRooms' = [s \in SessionId |-> {}]

RoomNext ==
    \/ \E s \in SessionId, c \in Code :
            CreateRoom(s, c) \/ JoinRoom(c, s) \/ LeaveRoom(c, s)
    \/ \E s \in SessionId : CreateFails(s) \/ RemoveFromAll(s)
    \/ \E alive \in SUBSET SessionId : ReapStale(alive)
    \/ RoomReset

RoomSpec == RoomInit /\ [][RoomNext]_roomVars

-----------------------------------------------------------------------------
(* The reverse index and the participant sets say the same thing, so       *)
(* removeFromAll, which trusts the index, evicts a session from every room *)
(* it is in, and a reconnect rejoins exactly those rooms.                  *)
IndexConsistent ==
    \A s \in SessionId, c \in Code : c \in sessionToRooms[s] <=> s \in participants[c]

(* A room is in the table exactly while somebody participates in it: no    *)
(* empty room keeps its code taken, and nobody participates in a room that *)
(* joinRoom would report as not found.                                     *)
RoomOpenIffOccupied == \A c \in Code : c \in rooms <=> participants[c] # {}

(* joinRoom's check keeps every room a one-to-one call, whatever mix of    *)
(* create, join, leave, eviction and reaping ran before.                   *)
CapacityRespected ==
    \A c \in Code : IsFiniteSet(participants[c])
                 /\ Cardinality(participants[c]) <= MAX_PARTICIPANTS
==============================================================================
