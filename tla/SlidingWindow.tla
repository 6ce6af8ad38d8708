---------------------------- MODULE SlidingWindow ----------------------------
(***************************************************************************)
(* The sliding windows that limit connections per address, events per      *)
(* socket (apps/server/src/socket/index.ts), failed joins per session      *)
(* (socket/handlers/rooms.ts) and chat messages per session                *)
(* (services/chat-service.ts): one list of time stamps, all four alike.    *)
(* Lists of different keys have nothing to do with each other: this is one.*)
(*                                                                         *)
(* Date.now() is a wall clock: it shows the real time plus an error, which *)
(* changes when somebody sets it.  passed is the history of what went      *)
(* through, with the real time, which the program does not have.           *)
(***************************************************************************)
EXTENDS Integers, Sequences

CONSTANTS
    LIMIT, WINDOW,
    MaxTime,         \* bound: real time
    MaxSettings,     \* bound: how often the clock is set
    MaxError         \* bound: by how much it is wrong

ASSUME WindowAssumption ==
    /\ LIMIT \in Nat \ {0} /\ WINDOW \in Nat
    /\ MaxTime \in Nat /\ MaxSettings \in Nat /\ MaxError \in Nat

VARIABLES
    timestamps,      \* the list
    now, error,      \* real time, and the wall clock minus real time
    settings,        \* how often the clock was set
    advances,        \* ghost: how often it was set forward
    setBack,         \* ghost: by how much it was set back, in total
    passed,          \* ghost: what the list was told of since it was created
    verdict          \* of the last step: "none", "passed", "refused"

vars == <<timestamps, now, error, settings, advances, setBack, passed, verdict>>

WallClock == now + error
Cutoff == WallClock - WINDOW

Pass == [at : Nat, stamp : Int, advances : Nat]

TypeOK ==
    /\ timestamps \in Seq(Int)
    /\ now \in Nat /\ error \in Int
    /\ settings \in Nat /\ advances \in Nat /\ setBack \in Nat
    /\ passed \in Seq(Pass)
    /\ verdict \in {"none", "passed", "refused"}

Init ==
    /\ timestamps = <<>>
    /\ now = 0 /\ error = 0
    /\ settings = 0 /\ advances = 0 /\ setBack = 0
    /\ passed = <<>>
    /\ verdict = "none"

-----------------------------------------------------------------------------
(* Slip: <= for <.                                                         *)
OutdatedAtCutoff(t) == t <= Cutoff

Outdated(t) == t < Cutoff

(* while (timestamps[0] < cutoff) timestamps.shift(): the loop stops at the*)
(* first entry that is not outdated, whatever comes after it.              *)
Dropped(n) ==
    /\ n \in 0..Len(timestamps)
    /\ \A i \in 1..n : Outdated(timestamps[i])
    /\ n < Len(timestamps) => ~Outdated(timestamps[n + 1])

(* Slip: pop() for shift().                                                *)
KeptOldest(n) == SubSeq(timestamps, 1, Len(timestamps) - n)

Kept(n) == SubSeq(timestamps, n + 1, Len(timestamps))

(* Slip: the list is tested before outdated entries are dropped.           *)
HasRoomUnpruned(n) == Len(timestamps) < LIMIT

HasRoom(n) == Len(timestamps) - n < LIMIT

(* An attempt is let through and recorded at once: a connection, an event, *)
(* a message, and a join that then fails.                                  *)
Admit ==
    /\ \E n \in 0..Len(timestamps) :
         /\ Dropped(n) /\ HasRoom(n)
         /\ timestamps' = Append(Kept(n), WallClock)
    /\ passed' = Append(passed, [at |-> now, stamp |-> WallClock, advances |-> advances])
    /\ verdict' = "passed"
    /\ UNCHANGED <<now, error, settings, advances, setBack>>

Refuse ==
    /\ \E n \in 0..Len(timestamps) :
         /\ Dropped(n) /\ ~HasRoom(n)
         /\ timestamps' = Kept(n)
    /\ verdict' = "refused"
    /\ UNCHANGED <<now, error, settings, advances, setBack, passed>>

(* The list is only brought up to date: before a join that succeeds, and   *)
(* every five minutes.                                                     *)
CleanUp ==
    /\ \E n \in 0..Len(timestamps) : Dropped(n) /\ timestamps' = Kept(n)
    /\ verdict' = "none"
    /\ UNCHANGED <<now, error, settings, advances, setBack, passed>>

(* The list goes away with its session (ChatService.clearSession) or its   *)
(* socket.                                                                 *)
Clear ==
    /\ timestamps' = <<>>
    /\ passed' = <<>>
    /\ verdict' = "none"
    /\ UNCHANGED <<now, error, settings, advances, setBack>>

Tick ==
    /\ now < MaxTime
    /\ now' = now + 1
    /\ verdict' = "none"
    /\ UNCHANGED <<timestamps, error, settings, advances, setBack, passed>>

SetClock ==
    /\ settings < MaxSettings
    /\ settings' = settings + 1
    /\ error' \in -MaxError..MaxError
    /\ advances' = IF error' > error THEN advances + 1 ELSE advances
    /\ setBack' = IF error' < error THEN setBack + (error - error') ELSE setBack
    /\ verdict' = "none"
    /\ UNCHANGED <<timestamps, now, passed>>

Next == Admit \/ Refuse \/ CleanUp \/ Clear \/ Tick \/ SetClock

Spec == Init /\ [][Next]_vars

-----------------------------------------------------------------------------
(* The list is made of the latest that got through, none left out, in the  *)
(* order in which they did, whatever the clock was set to in between.      *)
ListIsLatest ==
    /\ Len(timestamps) <= Len(passed)
    /\ \A i \in DOMAIN timestamps :
          timestamps[i] = passed[Len(passed) - Len(timestamps) + i].stamp

(* No more than LIMIT attempts get through in any WINDOW of real time, its *)
(* ends included, even if the clock is set back in between.  Setting it    *)
(* forward does let more through.                                          *)
LimitHolds ==
    \A i \in DOMAIN passed : \A j \in DOMAIN passed :
        j = i + LIMIT /\ passed[i].advances = passed[j].advances
            => passed[j].at > passed[i].at + WINDOW

(* Nobody is refused without having got through LIMIT times in the last    *)
(* WINDOW, prolonged by what the clock was set back in total: a limiter    *)
(* that loses its sense of time closes for that long, and not for good.    *)
RefusalJustified ==
    verdict = "refused" =>
        /\ Len(passed) >= LIMIT
        /\ passed[Len(passed) - LIMIT + 1].at >= now - WINDOW - setBack
==============================================================================
