-------------------------- MODULE RoomServiceProofs --------------------------
(***************************************************************************)
(* RoomService keeps its promises for every set of sessions and codes and  *)
(* every limit.  The inductive invariant adds to the type invariant that   *)
(* index and participant sets agree, which is what makes removeFromAll     *)
(* complete, and that a room is open exactly while it is occupied.         *)
(***************************************************************************)
EXTENDS RoomService, FiniteSetTheorems, TLAPS

RoomInv ==
    /\ RoomTypeOK
    /\ IndexConsistent
    /\ RoomOpenIffOccupied
    /\ CapacityRespected

(* Removing people never takes a room over its capacity.                   *)
LEMMA ShrinkingKeepsCapacity ==
    ASSUME NEW S, NEW T, IsFiniteSet(T), Cardinality(T) <= MAX_PARTICIPANTS, S \subseteq T
    PROVE  IsFiniteSet(S) /\ Cardinality(S) <= MAX_PARTICIPANTS
<1>1. IsFiniteSet(S) /\ Cardinality(S) <= Cardinality(T)
  BY FS_Subset
<1>2. Cardinality(S) \in Nat /\ Cardinality(T) \in Nat
  BY <1>1, FS_CardinalityType
<1> QED
  BY <1>1, <1>2, LimitsAssumption

(* An empty table satisfies the invariant; so does the table after each    *)
(* method.                                                                 *)
LEMMA RoomInvInit == RoomInit => RoomInv
<1> SUFFICES ASSUME RoomInit PROVE RoomInv
  OBVIOUS
<1>1. RoomTypeOK /\ IndexConsistent /\ RoomOpenIffOccupied
  BY DEF RoomInit, RoomTypeOK, IndexConsistent, RoomOpenIffOccupied
<1>2. CapacityRespected
  BY FS_EmptySet, LimitsAssumption DEF RoomInit, CapacityRespected
<1> QED
  BY <1>1, <1>2 DEF RoomInv

LEMMA CreateRoomKeepsInv ==
    ASSUME NEW s \in SessionId, NEW c \in Code, RoomInv, CreateRoom(s, c)
    PROVE  RoomInv'
<1> USE DEF CreateRoom, CanCreate, RoomInv, RoomTypeOK
<1>1. RoomTypeOK'
  OBVIOUS
<1>2. IndexConsistent'
  BY DEF IndexConsistent, RoomOpenIffOccupied
<1>3. RoomOpenIffOccupied'
  BY DEF RoomOpenIffOccupied
<1>4. CapacityRespected'
  <2>1. IsFiniteSet({s}) /\ Cardinality({s}) = 1
    BY FS_Singleton
  <2>2. \A d \in Code : participants'[d] = IF d = c THEN {s} ELSE participants[d]
    OBVIOUS
  <2> QED
    BY <2>1, <2>2, LimitsAssumption DEF CapacityRespected
<1> QED
  BY <1>1, <1>2, <1>3, <1>4

LEMMA JoinRoomKeepsInv ==
    ASSUME NEW s \in SessionId, NEW c \in Code, RoomInv, JoinRoom(c, s)
    PROVE  RoomInv'
<1> USE DEF JoinRoom, CanJoin, RoomInv, RoomTypeOK
<1>1. RoomTypeOK'
  OBVIOUS
<1>2. IndexConsistent'
  BY DEF IndexConsistent
<1>3. RoomOpenIffOccupied'
  BY DEF RoomOpenIffOccupied
<1>4. CapacityRespected'
  <2>1. IsFiniteSet(participants[c]) /\ Cardinality(participants[c]) \in Nat
    BY FS_CardinalityType DEF CapacityRespected
  <2>2. IsFiniteSet(participants[c] \cup {s})
        /\ Cardinality(participants[c] \cup {s}) = Cardinality(participants[c]) + 1
    BY <2>1, FS_AddElement
  <2>3. Cardinality(participants'[c]) <= MAX_PARTICIPANTS /\ IsFiniteSet(participants'[c])
    BY <2>1, <2>2, LimitsAssumption
  <2>4. \A d \in Code : d # c => participants'[d] = participants[d]
    OBVIOUS
  <2> QED
    BY <2>3, <2>4 DEF CapacityRespected
<1> QED
  BY <1>1, <1>2, <1>3, <1>4

LEMMA LeaveRoomKeepsInv ==
    ASSUME NEW s \in SessionId, NEW c \in Code, RoomInv, LeaveRoom(c, s)
    PROVE  RoomInv'
<1>1. CASE c \notin rooms
  BY <1>1 DEF LeaveRoom, RoomInv, roomVars, RoomTypeOK, IndexConsistent,
              RoomOpenIffOccupied, CapacityRespected
<1>2. CASE c \in rooms
  <2> USE <1>2 DEF LeaveRoom, RoomInv, RoomTypeOK
  <2>1. RoomTypeOK'
    OBVIOUS
  <2>2. IndexConsistent'
    BY DEF IndexConsistent
  <2>3. RoomOpenIffOccupied'
    BY DEF RoomOpenIffOccupied
  <2>4. \A d \in Code : participants'[d] \subseteq participants[d]
    OBVIOUS
  <2>5. CapacityRespected'
    BY <2>4, ShrinkingKeepsCapacity DEF CapacityRespected
  <2> QED
    BY <2>1, <2>2, <2>3, <2>5
<1> QED
  BY <1>1, <1>2

LEMMA RemoveFromAllKeepsInv ==
    ASSUME NEW s \in SessionId, RoomInv, RemoveFromAll(s)
    PROVE  RoomInv'
<1> USE DEF RemoveFromAll, CodesLeft, RoomInv, RoomTypeOK
<1>1. RoomTypeOK'
  OBVIOUS
<1>2. IndexConsistent'
  BY DEF IndexConsistent, RoomOpenIffOccupied
<1>3. RoomOpenIffOccupied'
  BY DEF RoomOpenIffOccupied, IndexConsistent
<1>4. \A d \in Code : participants'[d] \subseteq participants[d]
  OBVIOUS
<1>5. CapacityRespected'
  BY <1>4, ShrinkingKeepsCapacity DEF CapacityRespected
<1> QED
  BY <1>1, <1>2, <1>3, <1>5

LEMMA ReapStaleKeepsInv ==
    ASSUME NEW alive \in SUBSET SessionId, RoomInv, ReapStale(alive)
    PROVE  RoomInv'
<1> USE DEF ReapStale, RoomInv, RoomTypeOK
<1>1. RoomTypeOK'
  OBVIOUS
<1>2. IndexConsistent'
  BY DEF IndexConsistent, RoomOpenIffOccupied
<1>3. RoomOpenIffOccupied'
  BY DEF RoomOpenIffOccupied
<1>4. \A d \in Code : participants'[d] \subseteq participants[d]
  OBVIOUS
<1>5. CapacityRespected'
  BY <1>4, ShrinkingKeepsCapacity DEF CapacityRespected
<1> QED
  BY <1>1, <1>2, <1>3, <1>5

LEMMA RoomResetKeepsInv == RoomReset => RoomInv'
<1> SUFFICES ASSUME RoomReset PROVE RoomInv'
  OBVIOUS
<1>1. RoomTypeOK' /\ IndexConsistent' /\ RoomOpenIffOccupied'
  BY DEF RoomReset, RoomTypeOK, IndexConsistent, RoomOpenIffOccupied
<1>2. CapacityRespected'
  BY FS_EmptySet, LimitsAssumption DEF RoomReset, CapacityRespected
<1> QED
  BY <1>1, <1>2 DEF RoomInv

LEMMA RoomStutterKeepsInv == RoomInv /\ UNCHANGED roomVars => RoomInv'
BY DEF roomVars, RoomInv, RoomTypeOK, IndexConsistent, RoomOpenIffOccupied, CapacityRespected

(* Every method of the room service keeps the invariant.                   *)
THEOREM RoomInvInductive == RoomInv /\ [RoomNext]_roomVars => RoomInv'
<1> SUFFICES ASSUME RoomInv, [RoomNext]_roomVars PROVE RoomInv'
  OBVIOUS
<1>1. ASSUME NEW s \in SessionId, NEW c \in Code, CreateRoom(s, c) PROVE RoomInv'
  BY <1>1, CreateRoomKeepsInv
<1>2. ASSUME NEW s \in SessionId, NEW c \in Code, JoinRoom(c, s) PROVE RoomInv'
  BY <1>2, JoinRoomKeepsInv
<1>3. ASSUME NEW s \in SessionId, NEW c \in Code, LeaveRoom(c, s) PROVE RoomInv'
  BY <1>3, LeaveRoomKeepsInv
<1>4. ASSUME NEW s \in SessionId, CreateFails(s) PROVE RoomInv'
  BY <1>4, RoomStutterKeepsInv DEF CreateFails
<1>5. ASSUME NEW s \in SessionId, RemoveFromAll(s) PROVE RoomInv'
  BY <1>5, RemoveFromAllKeepsInv
<1>6. ASSUME NEW alive \in SUBSET SessionId, ReapStale(alive) PROVE RoomInv'
  BY <1>6, ReapStaleKeepsInv
<1>7. CASE RoomReset
  BY <1>7, RoomResetKeepsInv
<1>8. CASE UNCHANGED roomVars
  BY <1>8, RoomStutterKeepsInv
<1> QED
  BY <1>1, <1>2, <1>3, <1>4, <1>5, <1>6, <1>7, <1>8 DEF RoomNext

LEMMA RoomInvAlways == RoomSpec => []RoomInv
<1>1. RoomInit => RoomInv
  BY RoomInvInit
<1>2. RoomInv /\ [RoomNext]_roomVars => RoomInv'
  BY RoomInvInductive
<1> QED
  BY <1>1, <1>2, PTL DEF RoomSpec

(* Type correctness of the room table.                                     *)
THEOREM RoomTypeCorrect == RoomSpec => []RoomTypeOK
BY RoomInvAlways, PTL DEF RoomInv

(* The reverse index says who participates where, in every reachable state.*)
THEOREM IndexStaysConsistent == RoomSpec => []IndexConsistent
BY RoomInvAlways, PTL DEF RoomInv

(* A code is in the table exactly while somebody is in its room.           *)
THEOREM RoomsOpenIffOccupied == RoomSpec => []RoomOpenIffOccupied
BY RoomInvAlways, PTL DEF RoomInv

(* No sequence of operations seats more people than a room has seats.      *)
THEOREM CapacityIsRespected == RoomSpec => []CapacityRespected
BY RoomInvAlways, PTL DEF RoomInv
==============================================================================
