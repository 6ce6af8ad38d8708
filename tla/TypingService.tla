---------------------------- MODULE TypingService ----------------------------
(***************************************************************************)
(* Who is typing where (apps/server/src/services/typing-service.ts): a     *)
(* pair <<c, s>> stands for the auto-expire timer of session s under room  *)
(* c.  An entry is made for a participant only, and nothing removes it     *)
(* when the session leaves the room.                                       *)
(***************************************************************************)
EXTENDS RoomService

VARIABLE typing

TypingTypeOK == typing \subseteq Code \X SessionId

(* A repeated start clears the old timer and sets a new one.               *)
StartTyping(c, s) ==
    /\ IsParticipant(c, s)
    /\ typing' = typing \cup {<<c, s>>}

IsTyping(c, s) == <<c, s>> \in typing

StopTyping(c, s) == typing' = typing \ {<<c, s>>}

TypingRooms(s) == {c \in Code : <<c, s>> \in typing}

ClearTyping(s) == typing' = {p \in typing : p[2] # s}

(* Slip: expire notifies but leaves the entry in the maps.                 *)
TypingTimerKeepsEntry(c, s) ==
    /\ <<c, s>> \in typing
    /\ UNCHANGED typing

TypingTimerFires(c, s) ==
    /\ <<c, s>> \in typing
    /\ typing' = typing \ {<<c, s>>}
==============================================================================
