------------------------- MODULE SlidingWindowProofs -------------------------
(***************************************************************************)
(* The promises of the sliding windows, for every limit, every window and  *)
(* every history of the clock.  MaxTime and the other bounds play no part. *)
(*                                                                         *)
(* The list is short of the history by a prefix, and every entry of that   *)
(* prefix is older than the window, unless the clock was set forward since.*)
(***************************************************************************)
EXTENDS SlidingWindow, TLAPS

Missing == Len(passed) - Len(timestamps)

(* The history is in order, and as old as it says.                         *)
HistoryOrdered ==
    /\ \A i \in DOMAIN passed : passed[i].at <= now /\ passed[i].advances <= advances
    /\ \A i, j \in DOMAIN passed :
          i < j => passed[i].at <= passed[j].at /\ passed[i].advances <= passed[j].advances

(* How wrong the clock was at an entry, against how wrong it is now.       *)
ErrorBounded ==
    \A i \in DOMAIN passed :
        LET then == passed[i].stamp - passed[i].at IN
        /\ then - error <= setBack
        /\ passed[i].advances = advances => error <= then

DroppedAreOld ==
    \A i \in DOMAIN passed :
        i <= Missing => passed[i].advances < advances \/ passed[i].at < now - WINDOW

WindowInv ==
    /\ TypeOK
    /\ ListIsLatest
    /\ HistoryOrdered
    /\ ErrorBounded
    /\ DroppedAreOld
    /\ LimitHolds

(* The types of what the history holds, entry by entry.                    *)
LEMMA HistoryTyped ==
    ASSUME TypeOK
    PROVE  /\ Len(passed) \in Nat /\ DOMAIN passed = 1..Len(passed)
           /\ \A i \in DOMAIN passed :
                 passed[i].at \in Nat /\ passed[i].stamp \in Int /\ passed[i].advances \in Nat
<1>1. passed \in Seq(Pass)
  BY DEF TypeOK
<1>2. /\ Len(passed) \in Nat /\ DOMAIN passed = 1..Len(passed)
      /\ \A i \in DOMAIN passed : passed[i] \in Pass
  BY <1>1
<1> QED
  BY <1>2 DEF Pass

LEMMA ListTyped ==
    ASSUME TypeOK
    PROVE  /\ Len(timestamps) \in Nat /\ DOMAIN timestamps = 1..Len(timestamps)
           /\ \A i \in DOMAIN timestamps : timestamps[i] \in Int
           /\ now \in Nat /\ error \in Int /\ advances \in Nat /\ setBack \in Nat
           /\ WINDOW \in Nat /\ LIMIT \in Nat \ {0}
BY WindowAssumption DEF TypeOK

(* What dropping outdated entries leaves: the latest of the list, and of   *)
(* the history only old entries are missing from it.                       *)
LEMMA Pruning ==
    ASSUME WindowInv, NEW n \in 0..Len(timestamps), Dropped(n)
    PROVE  /\ Kept(n) \in Seq(Int)
           /\ Len(Kept(n)) = Len(timestamps) - n
           /\ \A i \in 1..Len(Kept(n)) :
                 Kept(n)[i] = passed[Len(passed) - Len(Kept(n)) + i].stamp
           /\ \A i \in DOMAIN passed :
                 i <= Len(passed) - Len(Kept(n)) =>
                     passed[i].advances < advances \/ passed[i].at < now - WINDOW
<1> USE DEF WindowInv, TypeOK
<1>1. Kept(n) \in Seq(Int) /\ Len(Kept(n)) = Len(timestamps) - n
  BY DEF Kept
<1>2. \A i \in 1..Len(Kept(n)) : Kept(n)[i] = timestamps[i + n]
  BY <1>1 DEF Kept
<1>3. \A i \in 1..Len(Kept(n)) :
          Kept(n)[i] = passed[Len(passed) - Len(Kept(n)) + i].stamp
  <2> TAKE i \in 1..Len(Kept(n))
  <2>1. i + n \in DOMAIN timestamps
    BY <1>1
  <2>2. timestamps[i + n] = passed[Len(passed) - Len(timestamps) + (i + n)].stamp
    BY <2>1 DEF ListIsLatest
  <2>3. Len(passed) - Len(timestamps) + (i + n) = Len(passed) - Len(Kept(n)) + i
    BY <1>1
  <2> QED
    BY <1>2, <2>2, <2>3
<1>4. \A i \in DOMAIN passed :
          i <= Len(passed) - Len(Kept(n)) =>
              passed[i].advances < advances \/ passed[i].at < now - WINDOW
  <2> SUFFICES ASSUME NEW i \in DOMAIN passed, i <= Len(passed) - Len(Kept(n))
               PROVE  passed[i].advances < advances \/ passed[i].at < now - WINDOW
    OBVIOUS
  <2>1. CASE i <= Missing
    BY <2>1 DEF DroppedAreOld
  <2>2. CASE i > Missing
    <3> DEFINE k == i - Missing
    <3>1. k \in 1..n /\ k \in DOMAIN timestamps
      BY <1>1, <2>2 DEF Missing, ListIsLatest
    <3>2. Outdated(timestamps[k])
      BY <3>1 DEF Dropped
    <3>3. timestamps[k] = passed[i].stamp
      <4>1. timestamps[k] = passed[Len(passed) - Len(timestamps) + k].stamp
        BY <3>1 DEF ListIsLatest
      <4>2. Len(passed) - Len(timestamps) + k = i
        BY HistoryTyped, ListTyped DEF Missing
      <4> QED
        BY <4>1, <4>2
    <3>4. passed[i].stamp < (now + error) - WINDOW
      BY <3>2, <3>3, Zenon DEF Outdated, Cutoff, WallClock
    <3>5. passed[i].advances <= advances
      BY DEF HistoryOrdered
    <3>6. passed[i].advances = advances => error <= passed[i].stamp - passed[i].at
      BY DEF ErrorBounded
    <3>7. /\ passed[i].at \in Nat /\ passed[i].stamp \in Int /\ passed[i].advances \in Nat
          /\ now \in Nat /\ error \in Int /\ advances \in Nat /\ WINDOW \in Nat
      BY HistoryTyped, ListTyped
    <3> HIDE DEF WindowInv, TypeOK
    <3> QED
      BY <3>4, <3>5, <3>6, <3>7
  <2> QED
    BY <2>1, <2>2 DEF Missing
<1> QED
  BY <1>1, <1>3, <1>4

LEMMA WindowInvInit == Init => WindowInv
BY DEF Init, WindowInv, TypeOK, ListIsLatest, HistoryOrdered, ErrorBounded, DroppedAreOld,
       Missing, LimitHolds

(* An attempt that gets through is more than a window behind the one LIMIT *)
(* places before it, which is no longer in the list.                       *)
LEMMA AdmitKeepsInv == WindowInv /\ Admit => WindowInv'
<1> SUFFICES ASSUME WindowInv, Admit PROVE WindowInv'
  OBVIOUS
<1> USE DEF WindowInv, TypeOK
<1> DEFINE new == [at |-> now, stamp |-> WallClock, advances |-> advances]
<1>1. PICK n \in 0..Len(timestamps) :
          Dropped(n) /\ HasRoom(n) /\ timestamps' = Append(Kept(n), WallClock)
  BY DEF Admit
<1>2. /\ passed' = Append(passed, new)
      /\ UNCHANGED <<now, error, settings, advances, setBack>>
      /\ verdict' = "passed"
  BY DEF Admit
<1>3. WallClock \in Int /\ new \in Pass
  BY DEF WallClock, Pass
<1> DEFINE kept == Kept(n)
           L == Len(passed)
           K == Len(kept)
<1>4. /\ kept \in Seq(Int)
      /\ \A i \in 1..K : kept[i] = passed[L - K + i].stamp
      /\ \A i \in DOMAIN passed :
            i <= L - K => passed[i].advances < advances \/ passed[i].at < now - WINDOW
      /\ K = Len(timestamps) - n
  BY <1>1, Pruning
<1>5. K \in Nat /\ L \in Nat /\ K <= L /\ K < LIMIT
  BY <1>1, <1>4, WindowAssumption DEF HasRoom, ListIsLatest
<1> HIDE DEF new, kept
<1>6. /\ Len(passed') = L + 1 /\ DOMAIN passed' = 1..(L + 1)
      /\ \A i \in 1..L : passed'[i] = passed[i]
      /\ passed'[L + 1] = new
      /\ passed' \in Seq(Pass)
  BY <1>2, <1>3
<1>typed. /\ \A i \in 1..L : /\ passed[i].at \in Nat /\ passed[i].stamp \in Int
                          /\ passed[i].advances \in Nat
      /\ now \in Nat /\ error \in Int /\ advances \in Nat /\ setBack \in Nat
      /\ WINDOW \in Nat /\ LIMIT \in Nat \ {0} /\ DOMAIN passed = 1..L
  BY HistoryTyped, ListTyped
<1>7. /\ Len(timestamps') = K + 1 /\ DOMAIN timestamps' = 1..(K + 1)
      /\ \A i \in 1..K : timestamps'[i] = kept[i]
      /\ timestamps'[K + 1] = WallClock
      /\ timestamps' \in Seq(Int)
  BY <1>1, <1>3, <1>4 DEF kept
<1>8. new.at = now /\ new.stamp = WallClock /\ new.advances = advances
  BY DEF new
<1>9. TypeOK'
  BY <1>2, <1>6, <1>7
<1>10. ListIsLatest'
  <2> SUFFICES ASSUME NEW i \in 1..(K + 1)
               PROVE  timestamps'[i] = passed'[(L + 1) - (K + 1) + i].stamp
    <3>1. Len(timestamps') <= Len(passed')
      BY <1>5, <1>6, <1>7
    <3> QED
      BY <1>6, <1>7, <3>1, Zenon DEF ListIsLatest
  <2>1. CASE i \in 1..K
    <3>1. L - K + i \in 1..L /\ (L + 1) - (K + 1) + i = L - K + i
      BY <1>5, <2>1
    <3> QED
      BY <1>4, <1>6, <1>7, <2>1, <3>1
  <2>2. CASE i = K + 1
    <3>1. (L + 1) - (K + 1) + i = L + 1
      BY <1>5, <2>2
    <3> QED
      BY <1>6, <1>7, <1>8, <2>2, <3>1
  <2> QED
    BY <1>5, <2>1, <2>2
<1>11. HistoryOrdered'
  <2>1. /\ \A i \in 1..L : passed[i].at <= now /\ passed[i].advances <= advances
        /\ \A i, j \in 1..L :
              i < j => passed[i].at <= passed[j].at /\ passed[i].advances <= passed[j].advances
    BY <1>typed DEF HistoryOrdered
  <2> HIDE DEF WindowInv, TypeOK
  <2>2. \A i \in 1..(L + 1) : passed'[i].at <= now /\ passed'[i].advances <= advances
    BY <1>5, <1>6, <1>8, <1>typed, <2>1
  <2>3. ASSUME NEW i \in 1..(L + 1), NEW j \in 1..(L + 1), i < j
        PROVE  passed'[i].at <= passed'[j].at /\ passed'[i].advances <= passed'[j].advances
    <3>1. i \in 1..L
      BY <1>5, <2>3
    <3>2. CASE j \in 1..L
      BY <1>6, <2>1, <2>3, <3>1, <3>2
    <3>3. CASE j = L + 1
      BY <1>6, <1>8, <2>1, <3>1, <3>3
    <3> QED
      BY <1>5, <3>2, <3>3
  <2> QED
    BY <1>2, <1>6, <2>2, <2>3 DEF HistoryOrdered
<1>12. ErrorBounded'
  <2> SUFFICES ASSUME NEW i \in 1..(L + 1)
               PROVE  /\ (passed'[i].stamp - passed'[i].at) - error <= setBack
                      /\ passed'[i].advances = advances => error <= passed'[i].stamp - passed'[i].at
    BY <1>2, <1>6 DEF ErrorBounded
  <2>1. CASE i \in 1..L
    BY <1>6, <1>typed, <2>1 DEF ErrorBounded
  <2>2. CASE i = L + 1
    BY <1>6, <1>8, <1>typed, <2>2 DEF WallClock
  <2> QED
    BY <1>5, <2>1, <2>2
<1>13. \A i \in 1..L : i <= L - K => passed'[i].advances < advances \/ passed'[i].at < now - WINDOW
  <2> TAKE i \in 1..L
  <2>1. i \in DOMAIN passed /\ passed'[i] = passed[i]
    BY <1>6, <1>typed
  <2>2. i <= L - K => passed[i].advances < advances \/ passed[i].at < now - WINDOW
    BY <1>4, <2>1
  <2> QED
    BY <2>1, <2>2
<1>14. DroppedAreOld'
  <2> SUFFICES ASSUME NEW i \in 1..(L + 1), i <= (L + 1) - (K + 1)
               PROVE  passed'[i].advances < advances \/ passed'[i].at < now - WINDOW
    BY <1>2, <1>6, <1>7 DEF DroppedAreOld, Missing
  <2>1. i \in 1..L /\ i <= L - K
    BY <1>5
  <2> QED
    BY <1>13, <2>1
<1>15. LimitHolds'
  <2> SUFFICES ASSUME NEW i \in 1..(L + 1), NEW j \in 1..(L + 1),
                      j = i + LIMIT, passed'[i].advances = passed'[j].advances
               PROVE  passed'[j].at > passed'[i].at + WINDOW
    BY <1>6 DEF LimitHolds
  <2>1. i \in 1..L /\ passed'[i] = passed[i]
    BY <1>5, <1>6, WindowAssumption
  <2>2. CASE j \in 1..L
    BY <1>6, <2>1, <2>2 DEF LimitHolds
  <2>3. CASE j = L + 1
    <3>1. i <= L - K
      BY <1>5, <2>3, WindowAssumption
    <3>2. passed'[j].at = now /\ passed'[j].advances = advances
      BY <1>6, <1>8, <2>3
    <3>3. passed[i].advances = advances
      <4>1. passed'[i].advances = passed'[j].advances
        OBVIOUS
      <4> QED
        BY <2>1, <3>2, <4>1
    <3>4. /\ passed[i].advances < advances \/ passed[i].at < now - WINDOW
          /\ passed[i].at \in Nat
      BY <1>13, <1>typed, <2>1, <3>1
    <3> HIDE DEF WindowInv, TypeOK
    <3>5. passed[i].at < now - WINDOW
      BY <1>typed, <3>3, <3>4
    <3> QED
      BY <1>typed, <2>1, <3>2, <3>4, <3>5
  <2> QED
    BY <1>5, <2>2, <2>3
<1> QED
  BY <1>9, <1>10, <1>11, <1>12, <1>14, <1>15

(* The list loses outdated entries and the history stays.                  *)
LEMMA PruneKeepsInv ==
    ASSUME WindowInv, NEW n \in 0..Len(timestamps), Dropped(n), timestamps' = Kept(n),
           UNCHANGED <<now, error, settings, advances, setBack, passed>>,
           verdict' \in {"none", "refused"}
    PROVE  WindowInv'
<1> USE DEF WindowInv, TypeOK
<1>1. /\ Kept(n) \in Seq(Int)
      /\ Len(Kept(n)) = Len(timestamps) - n
      /\ \A i \in 1..Len(Kept(n)) :
            Kept(n)[i] = passed[Len(passed) - Len(Kept(n)) + i].stamp
      /\ \A i \in DOMAIN passed :
            i <= Len(passed) - Len(Kept(n)) =>
                passed[i].advances < advances \/ passed[i].at < now - WINDOW
  BY Pruning
<1>2. TypeOK'
  BY <1>1
<1>3. ListIsLatest'
  <2>1. /\ Len(passed) \in Nat /\ Len(timestamps) \in Nat /\ Len(timestamps) <= Len(passed)
        /\ DOMAIN Kept(n) = 1..Len(Kept(n))
    BY <1>1 DEF ListIsLatest
  <2>2. Len(Kept(n)) <= Len(passed)
    BY <1>1, <2>1
  <2> QED
    BY <1>1, <2>1, <2>2, Zenon DEF ListIsLatest
<1>4. HistoryOrdered' /\ ErrorBounded' /\ LimitHolds'
  BY DEF HistoryOrdered, ErrorBounded, LimitHolds
<1>5. DroppedAreOld'
  BY <1>1 DEF DroppedAreOld, Missing
<1> QED
  BY <1>2, <1>3, <1>4, <1>5

LEMMA ClearKeepsInv == WindowInv /\ Clear => WindowInv'
BY DEF WindowInv, TypeOK, Clear, ListIsLatest, HistoryOrdered, ErrorBounded, DroppedAreOld,
       Missing, LimitHolds

LEMMA TickKeepsInv == WindowInv /\ Tick => WindowInv'
<1> SUFFICES ASSUME WindowInv, Tick PROVE WindowInv'
  OBVIOUS
<1>1. TypeOK /\ ListIsLatest /\ HistoryOrdered /\ ErrorBounded /\ DroppedAreOld /\ LimitHolds
  BY DEF WindowInv
<1>2. now' = now + 1 /\ UNCHANGED <<timestamps, error, advances, setBack, passed>>
  BY DEF Tick
<1>3. TypeOK'
  BY <1>1 DEF TypeOK, Tick
<1>4. ListIsLatest' /\ ErrorBounded' /\ LimitHolds'
  BY <1>1, <1>2 DEF ListIsLatest, ErrorBounded, LimitHolds
<1>5. /\ \A i \in DOMAIN passed : passed[i].at \in Nat
      /\ now \in Nat /\ WINDOW \in Nat
  BY <1>1, HistoryTyped, ListTyped
<1>6. HistoryOrdered'
  <2>1. \A i \in DOMAIN passed : passed[i].at <= now + 1
    BY <1>1, <1>5 DEF HistoryOrdered
  <2> QED
    BY <1>1, <1>2, <2>1 DEF HistoryOrdered
<1>7. DroppedAreOld'
  <2>1. \A i \in DOMAIN passed : passed[i].at < now - WINDOW => passed[i].at < (now + 1) - WINDOW
    BY <1>5
  <2> QED
    BY <1>1, <1>2, <2>1 DEF DroppedAreOld, Missing
<1> QED
  BY <1>3, <1>4, <1>6, <1>7 DEF WindowInv

(* Setting the clock back makes entries look younger than they are, by no  *)
(* more than setBack; setting it forward is counted in advances.           *)
LEMMA SetClockKeepsInv == WindowInv /\ SetClock => WindowInv'
<1> SUFFICES ASSUME WindowInv, SetClock PROVE WindowInv'
  OBVIOUS
<1>1. TypeOK /\ ListIsLatest /\ HistoryOrdered /\ ErrorBounded /\ DroppedAreOld /\ LimitHolds
  BY DEF WindowInv
<1>2. /\ error' \in Int
      /\ advances' = IF error' > error THEN advances + 1 ELSE advances
      /\ setBack' = IF error' < error THEN setBack + (error - error') ELSE setBack
      /\ UNCHANGED <<timestamps, now, passed>>
  BY WindowAssumption DEF SetClock
<1>3. now \in Nat /\ error \in Int /\ advances \in Nat /\ setBack \in Nat
  BY <1>1, ListTyped
<1>4. /\ advances' \in Nat /\ advances' >= advances
      /\ error' > error => advances' > advances
      /\ setBack' \in Nat /\ error - error' <= setBack' - setBack
  <2>1. PICK e, f, b : e = error' /\ f = advances' /\ b = setBack'
    OBVIOUS
  <2>2. /\ e \in Int
        /\ f = IF e > error THEN advances + 1 ELSE advances
        /\ b = IF e < error THEN setBack + (error - e) ELSE setBack
    BY <1>2, <2>1
  <2>3. f \in Nat /\ f >= advances /\ (e > error => f > advances)
    BY <1>3, <2>2
  <2>4. b \in Nat /\ error - e <= b - setBack
    BY <1>3, <2>2
  <2> QED
    BY <2>1, <2>3, <2>4
<1>5. TypeOK'
  <2>1. settings' \in Nat /\ verdict' \in {"none", "passed", "refused"}
    BY <1>1 DEF TypeOK, SetClock
  <2> QED
    BY <1>1, <1>2, <1>4, <2>1 DEF TypeOK
<1>6. ListIsLatest' /\ LimitHolds'
  BY <1>1, <1>2 DEF ListIsLatest, LimitHolds
<1>7. \A i \in DOMAIN passed :
          passed[i].at \in Nat /\ passed[i].stamp \in Int /\ passed[i].advances \in Nat
  BY <1>1, HistoryTyped
<1>8. HistoryOrdered'
  <2>1. \A i \in DOMAIN passed : passed[i].advances <= advances'
    BY <1>1, <1>3, <1>4, <1>7 DEF HistoryOrdered
  <2> QED
    BY <1>1, <1>2, <2>1 DEF HistoryOrdered
<1>9. ErrorBounded'
  <2> SUFFICES ASSUME NEW i \in DOMAIN passed
               PROVE  /\ (passed[i].stamp - passed[i].at) - error' <= setBack'
                      /\ passed[i].advances = advances' => error' <= passed[i].stamp - passed[i].at
    BY <1>2 DEF ErrorBounded
  <2>1. /\ (passed[i].stamp - passed[i].at) - error <= setBack
        /\ passed[i].advances = advances => error <= passed[i].stamp - passed[i].at
        /\ passed[i].advances <= advances
    BY <1>1 DEF ErrorBounded, HistoryOrdered
  <2> QED
    BY <1>2, <1>3, <1>4, <1>7, <2>1
<1>10. DroppedAreOld'
  <2>1. \A i \in DOMAIN passed : passed[i].advances < advances => passed[i].advances < advances'
    BY <1>3, <1>4, <1>7
  <2> QED
    BY <1>1, <1>2, <2>1 DEF DroppedAreOld, Missing
<1> QED
  BY <1>5, <1>6, <1>8, <1>9, <1>10 DEF WindowInv

LEMMA WindowInvInductive == WindowInv /\ [Next]_vars => WindowInv'
<1> SUFFICES ASSUME WindowInv, [Next]_vars PROVE WindowInv'
  OBVIOUS
<1>1. CASE Admit
  BY <1>1, AdmitKeepsInv
<1>2. CASE Refuse
  <2>1. PICK n \in 0..Len(timestamps) : Dropped(n) /\ timestamps' = Kept(n)
    BY <1>2 DEF Refuse
  <2> QED
    BY <1>2, <2>1, PruneKeepsInv DEF Refuse
<1>3. CASE CleanUp
  <2>1. PICK n \in 0..Len(timestamps) : Dropped(n) /\ timestamps' = Kept(n)
    BY <1>3 DEF CleanUp
  <2> QED
    BY <1>3, <2>1, PruneKeepsInv DEF CleanUp
<1>4. CASE Clear
  BY <1>4, ClearKeepsInv
<1>5. CASE Tick
  BY <1>5, TickKeepsInv
<1>6. CASE SetClock
  BY <1>6, SetClockKeepsInv
<1>7. CASE UNCHANGED vars
  BY <1>7 DEF vars, WindowInv, TypeOK, ListIsLatest, HistoryOrdered, ErrorBounded,
              DroppedAreOld, Missing, LimitHolds
<1> QED
  BY <1>1, <1>2, <1>3, <1>4, <1>5, <1>6, <1>7 DEF Next

(* A refusal finds LIMIT entries in the list of which the first is not     *)
(* outdated.                                                               *)
LEMMA RefusalsJustified == WindowInv /\ RefusalJustified /\ [Next]_vars => RefusalJustified'
<1> SUFFICES ASSUME WindowInv, RefusalJustified, [Next]_vars, verdict' = "refused"
             PROVE  RefusalJustified'
  BY DEF RefusalJustified
<1> USE DEF WindowInv, TypeOK
<1>1. CASE UNCHANGED vars
  BY <1>1 DEF vars, RefusalJustified
<1>2. CASE Refuse
  <2>1. PICK n \in 0..Len(timestamps) : Dropped(n) /\ ~HasRoom(n)
    BY <1>2 DEF Refuse
  <2> DEFINE f == Missing + n + 1
             i == Len(passed) - LIMIT + 1
  <2>2. /\ LIMIT \in Nat \ {0} /\ n + LIMIT <= Len(timestamps)
        /\ n + 1 \in DOMAIN timestamps
        /\ f \in DOMAIN passed /\ i \in DOMAIN passed /\ f <= i
        /\ n < Len(timestamps) /\ LIMIT <= Len(passed)
    BY <2>1, WindowAssumption DEF HasRoom, Missing, ListIsLatest
  <2>3. /\ passed[f].at \in Nat /\ passed[f].stamp \in Int /\ passed[i].at \in Nat
        /\ now \in Nat /\ error \in Int /\ setBack \in Nat /\ WINDOW \in Nat
    BY <2>2, HistoryTyped, ListTyped
  <2>4. timestamps[n + 1] = passed[f].stamp
    <3>1. timestamps[n + 1] = passed[Len(passed) - Len(timestamps) + (n + 1)].stamp
      BY <2>2 DEF ListIsLatest
    <3>2. Len(passed) - Len(timestamps) + (n + 1) = f
      BY HistoryTyped, ListTyped DEF Missing
    <3> QED
      BY <3>1, <3>2
  <2>5. ~(passed[f].stamp < (now + error) - WINDOW)
    <3>1. ~Outdated(timestamps[n + 1])
      BY <2>1, <2>2 DEF Dropped
    <3> QED
      BY <2>4, <3>1, Zenon DEF Outdated, Cutoff, WallClock
  <2>6. (passed[f].stamp - passed[f].at) - error <= setBack
    BY <2>2 DEF ErrorBounded
  <2>7. passed[f].at <= passed[i].at
    BY <2>2, <2>3 DEF HistoryOrdered
  <2> HIDE DEF WindowInv, TypeOK, f, i
  <2>8. passed[i].at >= (now - WINDOW) - setBack
    BY <2>3, <2>5, <2>6, <2>7
  <2> USE DEF i
  <2> QED
    BY <1>2, <2>2, <2>8 DEF Refuse, RefusalJustified
<1>3. CASE ~Refuse /\ Next
  BY <1>3 DEF Next, Admit, CleanUp, Clear, Tick, SetClock
<1> QED
  BY <1>1, <1>2, <1>3

-----------------------------------------------------------------------------
(* The inductive invariant holds in every reachable state.                 *)
THEOREM WindowInvAlways == Spec => []WindowInv
BY WindowInvInit, WindowInvInductive, PTL DEF Spec

(* A limiter's list is made of the latest attempts that got through, for   *)
(* every history of the wall clock.                                        *)
THEOREM WindowListIsLatest == Spec => []ListIsLatest
BY WindowInvAlways, PTL DEF WindowInv

(* No more than LIMIT attempts get through in a WINDOW of real time, unless*)
(* the clock is set forward in between.                                    *)
THEOREM WindowLimitHolds == Spec => []LimitHolds
BY WindowInvAlways, PTL DEF WindowInv

(* Whoever is refused got through LIMIT times within the WINDOW, prolonged *)
(* by what the clock was set back.                                         *)
THEOREM WindowRefusalJustified == Spec => []RefusalJustified
<1>1. Init => RefusalJustified
  BY DEF Init, RefusalJustified
<1> QED
  BY <1>1, RefusalsJustified, WindowInvAlways, PTL DEF Spec
==============================================================================
