------------------------------ MODULE Nicknames ------------------------------
(***************************************************************************)
(* The names people carry in rooms: the handlers of room:create, room:join *)
(* and room:leave (apps/server/src/socket/handlers/rooms.ts) over the room *)
(* table.  A session has one nickname, wherever it is: entering a room     *)
(* replaces the one it shows in the rooms it is in already.                *)
(*                                                                         *)
(* A name is the sequence of the base a user typed and the number that     *)
(* follows it, if any: "Bob" is <<Bob>>, "Bob2" is <<Bob, 2>>.  Trimming   *)
(* and the allowed characters are left out; a rejected name becomes a      *)
(* guest name, which is one more base, and can be typed as well.  A session*)
(* that has not entered a room has the empty name.                         *)
(* Two of these sequences can spell one string, <<Bob, 2, 2>> and          *)
(* <<Bob, 22>>, but a room of few people never counts to 22.               *)
(***************************************************************************)
EXTENDS RoomService, Sequences

CONSTANT Base

VARIABLES
    nickname,      \* nickname[s]: Session.nickname
    namedIn        \* ghost: the room whose entry gave s that name

names == <<nickname, namedIn>>
nicknameVars == <<roomVars, names>>

NoName == <<>>
Typed == {<<b>> : b \in Base} \cup {<<b, 2>> : b \in Base}

NicknamesInit ==
    /\ RoomInit
    /\ nickname = [s \in SessionId |-> NoName]
    /\ namedIn = [s \in SessionId |-> {}]

-----------------------------------------------------------------------------
(* deduplicateNickname runs after joinRoom, so the participants include    *)
(* the newcomer with the name it had until now.                            *)
Existing(people) == {nickname[t] : t \in people}

Suffixed(name, n) == Append(name, n)

(* Slip: the numbered name is not checked against the names there are.     *)
DeduplicateOnce(name, people) ==
    IF name \in Existing(people) THEN Suffixed(name, 2) ELSE name

(* The first free number from 2 on.  The name itself is taken, so one of   *)
(* the next Cardinality(people) numbers is free.                           *)
Deduplicate(name, people) ==
    IF name \notin Existing(people) THEN name
    ELSE Suffixed(name, CHOOSE n \in 2..(Cardinality(people) + 1) :
            /\ Suffixed(name, n) \notin Existing(people)
            /\ \A i \in 2..(n - 1) : Suffixed(name, i) \in Existing(people))

SetNickname(s, c, name) ==
    /\ nickname' = [nickname EXCEPT ![s] = name]
    /\ namedIn' = [namedIn EXCEPT ![s] = {c}]

NamedCreate(s, c) ==
    /\ CreateRoom(s, c)
    /\ \E name \in Typed : SetNickname(s, c, name)

NamedJoin(s, c) ==
    /\ JoinRoom(c, s)
    /\ \E name \in Typed : SetNickname(s, c, Deduplicate(name, participants'[c]))

NamedLeave(s, c) == LeaveRoom(c, s) /\ UNCHANGED names

(* What becomes of the names of sessions that are gone.                    *)
Forget(gone) ==
    /\ nickname' = [s \in SessionId |-> IF s \in gone THEN NoName ELSE nickname[s]]
    /\ namedIn' = [s \in SessionId |-> IF s \in gone THEN {} ELSE namedIn[s]]

(* The end of a grace period, the reaper, a refused creation, a restart.   *)
Expire(s) == RemoveFromAll(s) /\ Forget({s})

ReapRooms(alive) == ReapStale(alive) /\ Forget(SessionId \ alive)

RefuseCreate(s) == CreateFails(s) /\ UNCHANGED names

RestartEmpty == RoomReset /\ Forget(SessionId)

NicknamesNext ==
    \/ \E s \in SessionId, c \in Code : NamedCreate(s, c) \/ NamedJoin(s, c) \/ NamedLeave(s, c)
    \/ \E s \in SessionId : Expire(s) \/ RefuseCreate(s)
    \/ \E alive \in SUBSET SessionId : ReapRooms(alive)
    \/ RestartEmpty

NicknamesSpec == NicknamesInit /\ [][NicknamesNext]_nicknameVars

-----------------------------------------------------------------------------
(* Two people whose names were given to them on entering this room do not  *)
(* share a name: leaving, entering again, expiry and numbers that users    *)
(* typed themselves never make two.  Whoever took a new name in another    *)
(* room meanwhile is not covered: that name is not compared with the ones  *)
(* in this room.                                                           *)
NamesDistinct ==
    \A c \in Code : \A s, t \in participants[c] :
        s # t /\ c \in namedIn[s] \cap namedIn[t] => nickname[s] # nickname[t]
==============================================================================
