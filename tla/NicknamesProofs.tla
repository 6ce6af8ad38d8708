--------------------------- MODULE NicknamesProofs ---------------------------
(***************************************************************************)
(* Two people named on entering the same room never share a name, for      *)
(* every set of sessions, codes and names and every limit.  The argument   *)
(* rests on deduplicateNickname returning a name that nobody has, and that *)
(* on the pigeonhole principle: k people, one of whom has the plain name,  *)
(* cannot have all k numbered names after it.                              *)
(***************************************************************************)
EXTENDS Nicknames, RoomServiceProofs, WellFoundedInduction

(* A set of numbers that is not empty has a least one.                     *)
LEMMA LeastNumber ==
    ASSUME NEW T \in SUBSET Nat, T # {}
    PROVE  \E n \in T : \A i \in T : ~(i < n)
<1>1. \E n \in T : \A i \in T : ~(<<i, n>> \in OpToRel(<, Nat))
  BY NatLessThanWellFounded, WFMin, Zenon
<1>2. ASSUME NEW n \in T, NEW i \in T, i < n
      PROVE  <<i, n>> \in OpToRel(<, Nat)
  <2>1. i \in Nat /\ n \in Nat
    OBVIOUS
  <2> QED
    BY <1>2, <2>1, Zenon DEF OpToRel
<1> QED
  BY <1>1, <1>2, Zenon

(* The names in a finite room are finite and no more than the people.      *)
LEMMA ExistingFinite ==
    ASSUME NEW people, IsFiniteSet(people)
    PROVE  /\ IsFiniteSet(Existing(people))
           /\ Cardinality(Existing(people)) <= Cardinality(people)
<1> DEFINE f == [t \in people |-> nickname[t]]
<1>1. f \in Surjection(people, Existing(people))
  BY DEF Surjection, Existing
<1> QED
  BY <1>1, FS_Surjection

(* Different numbers make different names, and none is the plain name.     *)
LEMMA SuffixesDiffer ==
    ASSUME NEW name \in Typed, NEW m \in Nat, NEW n \in Nat
    PROVE  /\ Suffixed(name, n) # name
           /\ Suffixed(name, m) = Suffixed(name, n) => m = n
<1>1. CASE \E b \in Base : name = <<b>>
  BY <1>1 DEF Suffixed
<1>2. CASE \E b \in Base : name = <<b, 2>>
  BY <1>2 DEF Suffixed
<1> QED
  BY <1>1, <1>2 DEF Typed

(* One of the numbers 2 .. k + 1 is free in a room of k people where the   *)
(* plain name is taken.                                                    *)
LEMMA SomeNumberFree ==
    ASSUME NEW people, IsFiniteSet(people), NEW name \in Typed, name \in Existing(people)
    PROVE  \E n \in 2..(Cardinality(people) + 1) : Suffixed(name, n) \notin Existing(people)
<1> DEFINE S == 2..(Cardinality(people) + 1)
           T == Existing(people) \ {name}
           f == [n \in S |-> Suffixed(name, n)]
<1> SUFFICES ASSUME \A n \in S : Suffixed(name, n) \in Existing(people) PROVE FALSE
  OBVIOUS
<1>1. PICK k \in Nat : k = Cardinality(people)
  BY FS_CardinalityType
<1>2. IsFiniteSet(S) /\ Cardinality(S) = k
  <2>1. PICK a \in Int : a = 2
    OBVIOUS
  <2>2. PICK b \in Int : b = k + 1
    OBVIOUS
  <2>3. IsFiniteSet(a..b) /\ Cardinality(a..b) = IF a > b THEN 0 ELSE b - a + 1
    BY FS_Interval
  <2> QED
    BY <1>1, <2>1, <2>2, <2>3
<1>3. IsFiniteSet(Existing(people)) /\ Cardinality(Existing(people)) <= k
  BY <1>1, ExistingFinite
<1>4. Cardinality(Existing(people)) \in Nat
  BY <1>3, FS_CardinalityType
<1>5. IsFiniteSet(T) /\ Cardinality(T) = Cardinality(Existing(people)) - 1
  BY <1>3, FS_RemoveElement
<1>6. Cardinality(T) < Cardinality(S)
  BY <1>1, <1>2, <1>3, <1>4, <1>5
<1>7. \A n \in S : n \in Nat
  BY <1>1
<1>8. f \in [S -> T]
  BY <1>7, SuffixesDiffer
<1>9. PICK x, y \in S : x # y /\ f[x] = f[y]
  <2> HIDE DEF f, S, T
  <2> QED
    BY <1>2, <1>5, <1>6, <1>8, FS_PigeonHole
<1>10. Suffixed(name, x) = Suffixed(name, y)
  BY <1>9
<1> QED
  BY <1>7, <1>9, <1>10, SuffixesDiffer

(* deduplicateNickname returns a name that nobody in a finite room has,    *)
(* the one who asks included.                                              *)
THEOREM DeduplicateFresh ==
    ASSUME NEW people, IsFiniteSet(people), NEW name \in Typed
    PROVE  Deduplicate(name, people) \notin Existing(people)
<1>1. CASE name \notin Existing(people)
  BY <1>1 DEF Deduplicate
<1>2. CASE name \in Existing(people)
  <2> DEFINE S == 2..(Cardinality(people) + 1)
             Free == {n \in S : Suffixed(name, n) \notin Existing(people)}
             First(n) == /\ Suffixed(name, n) \notin Existing(people)
                         /\ \A i \in 2..(n - 1) : Suffixed(name, i) \in Existing(people)
  <2>1. Cardinality(people) \in Nat
    BY FS_CardinalityType
  <2>2. Free \in SUBSET Nat /\ Free # {}
    BY <1>2, <2>1, SomeNumberFree
  <2>3. PICK n \in Free : \A i \in Free : ~(i < n)
    <3> HIDE DEF Free
    <3> QED
      BY <2>2, LeastNumber
  <2>4. ASSUME NEW i \in 2..(n - 1) PROVE Suffixed(name, i) \in Existing(people)
    BY <2>1, <2>3
  <2>5. \E m \in S : First(m)
    BY <2>3, <2>4
  <2>6. First(CHOOSE m \in S : First(m))
    <3> HIDE DEF First, S
    <3> QED
      BY <2>5
  <2>7. Deduplicate(name, people) = Suffixed(name, CHOOSE m \in S : First(m))
    BY <1>2 DEF Deduplicate
  <2> QED
    BY <2>6, <2>7
<1> QED
  BY <1>1, <1>2

-----------------------------------------------------------------------------
NamesTypeOK ==
    /\ nickname = [s \in SessionId |-> nickname[s]]
    /\ namedIn \in [SessionId -> SUBSET Code]

NamesInv == RoomInv /\ NamesTypeOK /\ NamesDistinct

(* Steps after which nobody is in a room they were not in, and everyone    *)
(* still in a room keeps the name and the room that gave it.               *)
LEMMA ShrinkingKeepsNames ==
    ASSUME NamesInv,
           \A c \in Code : participants'[c] \subseteq participants[c],
           participants' \in [Code -> SUBSET SessionId],
           \A s \in SessionId : \/ nickname'[s] = nickname[s] /\ namedIn'[s] = namedIn[s]
                                \/ namedIn'[s] = {}
    PROVE  NamesDistinct'
BY DEF NamesInv, RoomInv, RoomTypeOK, NamesDistinct

LEMMA NamedCreateKeepsNames ==
    ASSUME NEW s \in SessionId, NEW c \in Code, NamesInv, NamedCreate(s, c)
    PROVE  NamesInv'
<1>1. RoomInv'
  BY CreateRoomKeepsInv DEF NamedCreate, NamesInv
<1>2. PICK name \in Typed : SetNickname(s, c, name)
  BY DEF NamedCreate
<1>3. NamesTypeOK'
  BY <1>2 DEF NamesInv, NamesTypeOK, SetNickname
<1>4. \A t \in SessionId : t # s => nickname'[t] = nickname[t] /\ namedIn'[t] = namedIn[t]
  BY <1>2 DEF NamesInv, NamesTypeOK, SetNickname
<1>5. namedIn'[s] = {c}
  BY <1>2 DEF NamesInv, NamesTypeOK, SetNickname
<1>6. \A d \in Code : participants'[d] = IF d = c THEN {s} ELSE participants[d]
  BY DEF NamedCreate, CreateRoom, NamesInv, RoomInv, RoomTypeOK
<1>7. NamesDistinct'
  BY <1>4, <1>5, <1>6 DEF NamesDistinct, NamesInv, RoomInv, RoomTypeOK
<1> QED
  BY <1>1, <1>3, <1>7 DEF NamesInv

LEMMA NamedJoinKeepsNames ==
    ASSUME NEW s \in SessionId, NEW c \in Code, NamesInv, NamedJoin(s, c)
    PROVE  NamesInv'
<1>1. RoomInv'
  BY JoinRoomKeepsInv DEF NamedJoin, NamesInv
<1> DEFINE given(name) == Deduplicate(name, participants'[c])
<1>2. PICK name \in Typed : SetNickname(s, c, given(name))
  BY DEF NamedJoin
<1>3. given(name) \notin Existing(participants'[c])
  <2>1. IsFiniteSet(participants'[c])
    BY <1>1 DEF RoomInv, CapacityRespected
  <2> QED
    BY <2>1, DeduplicateFresh
<1> HIDE DEF given
<1>4. NamesTypeOK'
  BY <1>2 DEF NamesInv, NamesTypeOK, SetNickname
<1>5. \A t \in SessionId : t # s => nickname'[t] = nickname[t] /\ namedIn'[t] = namedIn[t]
  BY <1>2 DEF NamesInv, NamesTypeOK, SetNickname
<1>6. nickname'[s] = given(name) /\ namedIn'[s] = {c}
  BY <1>2 DEF NamesInv, NamesTypeOK, SetNickname
<1>7. \A d \in Code : participants'[d] = IF d = c THEN participants[c] \cup {s} ELSE participants[d]
  BY DEF NamedJoin, JoinRoom, NamesInv, RoomInv, RoomTypeOK
<1>8. \A t \in participants[c] : nickname[t] # given(name)
  BY <1>3, <1>7 DEF Existing
<1>9. NamesDistinct'
  BY <1>5, <1>6, <1>7, <1>8 DEF NamesDistinct, NamesInv, RoomInv, RoomTypeOK
<1> QED
  BY <1>1, <1>4, <1>9 DEF NamesInv

LEMMA NamedLeaveKeepsNames ==
    ASSUME NEW s \in SessionId, NEW c \in Code, NamesInv, NamedLeave(s, c)
    PROVE  NamesInv'
<1>1. RoomInv'
  BY LeaveRoomKeepsInv DEF NamedLeave, NamesInv
<1>2. \A d \in Code : participants'[d] \subseteq participants[d]
  BY DEF NamedLeave, LeaveRoom, roomVars, NamesInv, RoomInv, RoomTypeOK
<1>3. UNCHANGED <<nickname, namedIn>>
  BY DEF NamedLeave, names
<1>4. NamesDistinct'
  BY <1>1, <1>2, <1>3, ShrinkingKeepsNames DEF RoomInv, RoomTypeOK
<1> QED
  BY <1>1, <1>3, <1>4 DEF NamesInv, NamesTypeOK

(* Sessions that go take their name and its room with them.                *)
LEMMA ForgettingKeepsNames ==
    ASSUME NEW gone \in SUBSET SessionId, NamesInv, Forget(gone), RoomInv',
           \A c \in Code : participants'[c] \subseteq participants[c]
    PROVE  NamesInv'
<1>1. \A s \in SessionId : \/ nickname'[s] = nickname[s] /\ namedIn'[s] = namedIn[s]
                           \/ namedIn'[s] = {}
  BY DEF Forget
<1>2. NamesTypeOK'
  BY DEF Forget, NamesInv, NamesTypeOK
<1>3. NamesDistinct'
  BY <1>1, ShrinkingKeepsNames DEF RoomInv, RoomTypeOK
<1> QED
  BY <1>2, <1>3 DEF NamesInv

LEMMA ExpireKeepsNames ==
    ASSUME NEW s \in SessionId, NamesInv, Expire(s)
    PROVE  NamesInv'
<1>1. RoomInv'
  BY RemoveFromAllKeepsInv DEF Expire, NamesInv
<1>2. \A c \in Code : participants'[c] \subseteq participants[c]
  BY DEF Expire, RemoveFromAll
<1> QED
  BY <1>1, <1>2, ForgettingKeepsNames DEF Expire

LEMMA ReapKeepsNames ==
    ASSUME NEW alive \in SUBSET SessionId, NamesInv, ReapRooms(alive)
    PROVE  NamesInv'
<1>1. RoomInv'
  BY ReapStaleKeepsInv DEF ReapRooms, NamesInv
<1>2. \A c \in Code : participants'[c] \subseteq participants[c]
  BY DEF ReapRooms, ReapStale
<1> QED
  BY <1>1, <1>2, ForgettingKeepsNames DEF ReapRooms

LEMMA RestartKeepsNames ==
    ASSUME NamesInv, RestartEmpty
    PROVE  NamesInv'
<1>1. RoomInv'
  BY RoomResetKeepsInv DEF RestartEmpty
<1>2. \A c \in Code : participants'[c] \subseteq participants[c]
  BY DEF RestartEmpty, RoomReset
<1> QED
  BY <1>1, <1>2, ForgettingKeepsNames DEF RestartEmpty

LEMMA NamesStutter ==
    ASSUME NamesInv, UNCHANGED nicknameVars
    PROVE  NamesInv'
<1>1. RoomInv'
  BY RoomStutterKeepsInv DEF NamesInv, nicknameVars
<1> QED
  BY <1>1 DEF NamesInv, NamesTypeOK, NamesDistinct, nicknameVars, roomVars, names

(* Whatever happens to the rooms, two people named on entering the same    *)
(* room carry different names.                                             *)
THEOREM NamesAlwaysDistinct == NicknamesSpec => []NamesDistinct
<1>1. NicknamesInit => NamesInv
  <2> SUFFICES ASSUME NicknamesInit PROVE NamesInv
    OBVIOUS
  <2>1. RoomInv
    BY RoomInvInit DEF NicknamesInit
  <2>2. NamesTypeOK /\ NamesDistinct
    BY DEF NicknamesInit, RoomInit, NamesTypeOK, NamesDistinct
  <2> QED
    BY <2>1, <2>2 DEF NamesInv
<1>2. NamesInv /\ [NicknamesNext]_nicknameVars => NamesInv'
  <2> SUFFICES ASSUME NamesInv, [NicknamesNext]_nicknameVars PROVE NamesInv'
    OBVIOUS
  <2>1. ASSUME NEW s \in SessionId, NEW c \in Code, NamedCreate(s, c) PROVE NamesInv'
    BY <2>1, NamedCreateKeepsNames
  <2>2. ASSUME NEW s \in SessionId, NEW c \in Code, NamedJoin(s, c) PROVE NamesInv'
    BY <2>2, NamedJoinKeepsNames
  <2>3. ASSUME NEW s \in SessionId, NEW c \in Code, NamedLeave(s, c) PROVE NamesInv'
    BY <2>3, NamedLeaveKeepsNames
  <2>4. ASSUME NEW s \in SessionId, Expire(s) PROVE NamesInv'
    BY <2>4, ExpireKeepsNames
  <2>5. ASSUME NEW s \in SessionId, RefuseCreate(s) PROVE NamesInv'
    BY <2>5, NamesStutter DEF RefuseCreate, CreateFails, nicknameVars
  <2>6. ASSUME NEW alive \in SUBSET SessionId, ReapRooms(alive) PROVE NamesInv'
    BY <2>6, ReapKeepsNames
  <2>7. CASE RestartEmpty
    BY <2>7, RestartKeepsNames
  <2>8. CASE UNCHANGED nicknameVars
    BY <2>8, NamesStutter
  <2> QED
    BY <2>1, <2>2, <2>3, <2>4, <2>5, <2>6, <2>7, <2>8 DEF NicknamesNext
<1> QED
  BY <1>1, <1>2, PTL DEF NicknamesSpec, NamesInv
==============================================================================
