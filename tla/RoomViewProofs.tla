--------------------------- MODULE RoomViewProofs ---------------------------
(***************************************************************************)
(* A page shows a room only to somebody with a seat in it (ShownHasSeat),  *)
(* and the room on the page is the server's, up to what is still on its    *)
(* way (ViewMatches), for every finite set of codes, every set of people   *)
(* and every bound.                                                        *)
(*                                                                         *)
(* The invariant of the first is about what is in transit: the form's      *)
(* request is the last thing sent and its answer the last thing answered,  *)
(* so that a room the form was let into is not left again before the       *)
(* answer arrives; and on a room's page everything asked and answered is   *)
(* about that room.  The second adds what is in transit while a room is    *)
(* being left, and a fold: what the page will believe is After folded over *)
(* the messages on their way, about which the lemmas that begin with       *)
(* Believed speak.                                                         *)
(***************************************************************************)
EXTENDS RoomView, FiniteSetTheorems, WellFoundedInduction, TLAPS

Place == Code \cup {Home}
RoomState == [code : Place, list : List, count : Nat]

FormRequest == {"room:create", "room:join"}
FormAnswer == {"created", "joined", "refused"}
GuardAnswer == {"present", "absent"}
RoomEvent == {"room:peer-joined", "room:peer-left", "room:peer-disconnected",
              "room:peer-reconnected"}

Requests ==
    {q \in [type : FormRequest \cup {"room:leave", "presence:request"},
            code : Place, live : BOOLEAN] : q.type # "room:create" => q.code \in Code}
Messages == [type : FormAnswer \cup GuardAnswer \cup RoomEvent \cup {"session:created"},
             who : Person \cup {Me}, room : RoomState, live : BOOLEAN]

ViewTypeOK ==
    /\ seats \in [Code -> SUBSET (Person \cup {Me})]
    /\ \A c \in Code : IsFiniteSet(seats[c])
    /\ link \in {"up", "down", "denied"}
    /\ up \in Seq(Requests) /\ down \in Seq(Messages)
    /\ url \in Place /\ room \in RoomState
    /\ form \in {"idle", "waiting"}

(* The form's request is the last thing the page has sent, and is on its   *)
(* way or has been answered or is lost: never two of these.                *)
FormAsksLast ==
    \A i \in 1..Len(up) : up[i].type \in FormRequest =>
        /\ i = Len(up) /\ form = "waiting"
        /\ \A j \in 1..Len(down) : down[j].type \notin FormAnswer

(* When its answer is on the way, nothing else is but room events behind   *)
(* it, and an admission is to a seat that is still there.                  *)
FormHearsLast ==
    \A i \in 1..Len(down) : down[i].type \in FormAnswer =>
        /\ form = "waiting" /\ up = <<>>
        /\ \A j \in 1..Len(down) : j > i => down[j].type \notin FormAnswer \cup GuardAnswer
        /\ down[i].type # "refused" => Seated(down[i].room.code)

FormAtHome == form = "waiting" => url = Home

(* On a room's page everything asked and answered is about that room, and  *)
(* the seat that an answer speaks of is still there.                       *)
PageAsksForItself ==
    url # Home =>
        /\ \A i \in 1..Len(up) : up[i].type = "presence:request" /\ up[i].code = url
        /\ \A i \in 1..Len(down) : down[i].type \in GuardAnswer =>
              /\ down[i].room.code = url
              /\ down[i].type = "present" => Seated(url)

(* Without a connection nothing is on its way to the page, and the send    *)
(* buffer holds what is sent without looking at the status.                *)
BufferHoldsLeaves ==
    link # "up" =>
        /\ down = <<>>
        /\ \A i \in 1..Len(up) : up[i].type = "room:leave"

ViewInv ==
    /\ ViewTypeOK
    /\ FormAsksLast /\ FormHearsLast /\ FormAtHome
    /\ PageAsksForItself /\ BufferHoldsLeaves
    /\ ShownHasSeat

(* The id of a new session is the first thing that a connection brings; no *)
(* room was shown before it, but to somebody evicted from it.              *)
IdComesFirst ==
    /\ ~stored /\ link = "up" => down # <<>> /\ down[1].type = "session:created"
    /\ ~stored => room = NoRoom \/ evicted

-----------------------------------------------------------------------------
LEMMA HomeIsNoCode == Home \notin Code /\ Me \notin Person
BY NamesApart

LEMMA NoRoomTyped == NoRoom \in RoomState
BY DEF NoRoom, RoomState, List, Nobody, Place

LEMMA RosterTyped ==
    ASSUME NEW c \in Code, NEW S \in SUBSET (Person \cup {Me}), IsFiniteSet(S)
    PROVE  Roster(c, S) \in RoomState /\ Roster(c, S).code = c
BY FS_CardinalityType DEF Roster, Room, RoomState, List, Place

(* A room event changes neither the type of the context nor its code.      *)
LEMMA EventsKeepCode ==
    ASSUME NEW r \in RoomState, NEW e \in Messages,
           e.type \in RoomEvent \cup {"session:created", "refused"}
    PROVE  After(r, e) \in RoomState /\ After(r, e).code = r.code
<1> USE DEF RoomEvent
<1>1. e.type = "room:peer-joined" => After(r, e) = r \/ After(r, e) = Entered(r, e)
  BY DEF After
<1>2. e.type = "room:peer-left" => After(r, e) = r \/ After(r, e) = Left(r, e)
  BY DEF After
<1>3. e.type = "room:peer-disconnected" => After(r, e) = r \/ After(r, e) = Marked(r, e, "offline")
  BY DEF After
<1>4. e.type = "room:peer-reconnected" => After(r, e) = r \/ After(r, e) = Marked(r, e, "online")
  BY DEF After
<1>5. e.type \in {"session:created", "refused"} => After(r, e) = r
  BY DEF After
<1>6. Entered(r, e) \in RoomState /\ Entered(r, e).code = r.code
  BY DEF Entered, Room, RoomState, List, Messages
<1>7. Left(r, e) \in RoomState /\ Left(r, e).code = r.code
  BY DEF Left, Room, RoomState, List, Messages
<1>8. Marked(r, e, "offline") \in RoomState /\ Marked(r, e, "offline").code = r.code
  BY DEF Marked, Room, RoomState, List, Messages
<1>9. Marked(r, e, "online") \in RoomState /\ Marked(r, e, "online").code = r.code
  BY DEF Marked, Room, RoomState, List, Messages
<1> QED
  BY <1>1, <1>2, <1>3, <1>4, <1>5, <1>6, <1>7, <1>8, <1>9

LEMMA AnswersSetRoom ==
    ASSUME NEW r \in RoomState, NEW e \in Messages
    PROVE  /\ e.type \in {"created", "joined", "present"} => After(r, e) = e.room
           /\ e.type = "absent" => After(r, e) = NoRoom \/ After(r, e) = r
BY DEF After, Unrestored

LEMMA AfterTyped ==
    ASSUME NEW r \in RoomState, NEW e \in Messages
    PROVE  After(r, e) \in RoomState
<1>1. NoRoom \in RoomState
  BY NoRoomTyped
<1>2. e.room \in RoomState
  BY DEF Messages
<1>3. e.type \in {"created", "joined", "present", "absent"}
      \/ e.type \in RoomEvent \cup {"session:created", "refused"}
  BY DEF Messages, FormAnswer, GuardAnswer
<1> QED
  BY <1>1, <1>2, <1>3, AnswersSetRoom, EventsKeepCode

LEMMA CancelledTyped ==
    ASSUME NEW q \in Requests
    PROVE  /\ Cancelled(q) \in Requests
           /\ Cancelled(q).type = q.type /\ Cancelled(q).code = q.code
BY DEF Cancelled, Request, Requests

LEMMA IgnoredTyped ==
    ASSUME NEW e \in Messages
    PROVE  /\ Ignored(e) \in Messages
           /\ Ignored(e).type = e.type /\ Ignored(e).room = e.room
BY DEF Ignored, Message, Messages

LEMMA AppendTyped ==
    ASSUME NEW S, NEW q \in Seq(S), NEW x \in S
    PROVE  /\ Append(q, x) \in Seq(S) /\ q \o <<x>> = Append(q, x)
           /\ Len(Append(q, x)) = Len(q) + 1 /\ Append(q, x)[Len(q) + 1] = x
           /\ \A i \in 1..Len(q) : Append(q, x)[i] = q[i]
OBVIOUS

LEMMA ConcatTyped ==
    ASSUME NEW S, NEW q \in Seq(S), NEW r \in Seq(S)
    PROVE  /\ q \o r \in Seq(S)
           /\ \A i \in 1..Len(q \o r) : \/ i \in 1..Len(q) /\ (q \o r)[i] = q[i]
                                        \/ \E j \in 1..Len(r) : (q \o r)[i] = r[j]
<1>1. \A i \in 1..Len(q \o r) : i \in 1..Len(q) \/ i - Len(q) \in 1..Len(r)
  OBVIOUS
<1>2. \A i \in 1..Len(q \o r) : i \in 1..Len(q) => (q \o r)[i] = q[i]
  OBVIOUS
<1>3. \A i \in 1..Len(q \o r) : i - Len(q) \in 1..Len(r) => (q \o r)[i] = r[i - Len(q)]
  OBVIOUS
<1> QED
  BY <1>1, <1>2, <1>3

LEMMA TailTyped ==
    ASSUME NEW S, NEW q \in Seq(S), q # <<>>
    PROVE  /\ Head(q) \in S /\ Head(q) = q[1] /\ 1 \in 1..Len(q)
           /\ Tail(q) \in Seq(S) /\ Len(Tail(q)) = Len(q) - 1
           /\ \A i \in 1..Len(Tail(q)) : Tail(q)[i] = q[i + 1]
OBVIOUS

LEMMA RequestTyped ==
    ASSUME NEW type \in FormRequest \cup {"room:leave", "presence:request"}, NEW c \in Code,
           NEW live \in BOOLEAN
    PROVE  /\ Request(type, c, live) \in Requests
           /\ Request(type, c, live).type = type /\ Request(type, c, live).code = c
BY DEF Request, Requests, Place

(* Cancelling requests and ignoring answers changes nothing else.          *)
LEMMA CancelledQueue ==
    ASSUME NEW q \in Seq(Requests)
    PROVE  /\ AllCancelled(q) \in Seq(Requests) /\ Len(AllCancelled(q)) = Len(q)
           /\ \A i \in 1..Len(q) : /\ AllCancelled(q)[i].type = q[i].type
                                   /\ AllCancelled(q)[i].code = q[i].code
<1>1. \A i \in 1..Len(q) : q[i] \in Requests
  OBVIOUS
<1>2. \A i \in 1..Len(q) : /\ Cancelled(q[i]) \in Requests
                           /\ Cancelled(q[i]).type = q[i].type
                           /\ Cancelled(q[i]).code = q[i].code
  BY <1>1, CancelledTyped
<1> QED
  BY <1>2 DEF AllCancelled

LEMMA IgnoredQueue ==
    ASSUME NEW q \in Seq(Messages)
    PROVE  /\ AllIgnored(q) \in Seq(Messages) /\ Len(AllIgnored(q)) = Len(q)
           /\ \A i \in 1..Len(q) : /\ AllIgnored(q)[i].type = q[i].type
                                   /\ AllIgnored(q)[i].room = q[i].room
<1>1. \A i \in 1..Len(q) : q[i] \in Messages
  OBVIOUS
<1>2. \A i \in 1..Len(q) : /\ Ignored(q[i]) \in Messages
                           /\ Ignored(q[i]).type = q[i].type
                           /\ Ignored(q[i]).room = q[i].room
  BY <1>1, IgnoredTyped
<1> QED
  BY <1>2 DEF AllIgnored

(* What the guard's effect does to the queues.                             *)
LEMMA GuardSends ==
    ASSUME NEW sent \in Seq(Requests), NEW coming \in Seq(Messages),
           GuardRuns(sent, coming), url' \in Place
    PROVE  /\ down' \in Seq(Messages) /\ Len(down') = Len(coming)
           /\ \A i \in 1..Len(coming) : /\ down'[i].type = coming[i].type
                                        /\ down'[i].room = coming[i].room
           /\ up' \in Seq(Requests)
           /\ \A i \in 1..Len(sent) : /\ up'[i].type = sent[i].type
                                      /\ up'[i].code = sent[i].code
           /\ \/ Len(up') = Len(sent)
              \/ /\ Len(up') = Len(sent) + 1
                 /\ url' # Home /\ link' = "up"
                 /\ up'[Len(sent) + 1].type = "presence:request"
                 /\ up'[Len(sent) + 1].code = url'
<1> DEFINE ask == Request("presence:request", url', TRUE)
<1>1. down' = AllIgnored(coming)
  BY DEF GuardRuns
<1>2. CASE url' # Home /\ room'.code # url' /\ link' = "up"
  <2>1. up' = AllCancelled(sent) \o <<ask>>
    BY <1>2 DEF GuardRuns
  <2>2. ask \in Requests /\ ask.type = "presence:request" /\ ask.code = url'
    BY <1>2 DEF Request, Requests, Place
  <2> HIDE DEF ask
  <2>3. PICK c \in Seq(Requests) :
           /\ c = AllCancelled(sent) /\ Len(c) = Len(sent)
           /\ \A i \in 1..Len(sent) : c[i].type = sent[i].type /\ c[i].code = sent[i].code
    BY CancelledQueue
  <2>4. /\ Append(c, ask) \in Seq(Requests) /\ c \o <<ask>> = Append(c, ask)
        /\ Len(Append(c, ask)) = Len(sent) + 1 /\ Append(c, ask)[Len(sent) + 1] = ask
        /\ \A i \in 1..Len(sent) : Append(c, ask)[i] = c[i]
    BY <2>2, <2>3, AppendTyped
  <2>5. up' = Append(c, ask)
    BY <2>1, <2>3, <2>4
  <2>6. /\ up' \in Seq(Requests) /\ Len(up') = Len(sent) + 1 /\ up'[Len(sent) + 1] = ask
        /\ \A i \in 1..Len(sent) : up'[i].type = sent[i].type /\ up'[i].code = sent[i].code
    BY <2>3, <2>4, <2>5
  <2>7. /\ down' \in Seq(Messages) /\ Len(down') = Len(coming)
        /\ \A i \in 1..Len(coming) : down'[i].type = coming[i].type /\ down'[i].room = coming[i].room
    BY <1>1, IgnoredQueue
  <2> QED
    BY <1>2, <2>2, <2>6, <2>7
<1>3. CASE ~(url' # Home /\ room'.code # url' /\ link' = "up")
  <2>1. up' = AllCancelled(sent) \o <<>>
    BY <1>3 DEF GuardRuns
  <2>2. up' = AllCancelled(sent)
    BY <2>1, CancelledQueue
  <2> QED
    BY <1>1, <2>2, CancelledQueue, IgnoredQueue
<1> QED
  BY <1>2, <1>3
-----------------------------------------------------------------------------
LEMMA InitView == Init => ViewInv
<1> SUFFICES ASSUME Init PROVE ViewInv
  OBVIOUS
<1>1. NoRoom \in RoomState
  BY NoRoomTyped
<1>2. ViewTypeOK
  BY <1>1, FS_EmptySet DEF Init, ViewTypeOK, Place
<1>3. ShownHasSeat
  BY HomeIsNoCode DEF Init, ShownHasSeat, Shown, NoRoom
<1> QED
  BY <1>2, <1>3 DEF Init, ViewInv, FormAsksLast, FormHearsLast, FormAtHome,
                    PageAsksForItself, BufferHoldsLeaves

(* When nothing is in transit there is nothing to say about it.            *)
LEMMA QuietWire ==
    ASSUME up' = <<>>, down' = <<>>
    PROVE  FormAsksLast' /\ FormHearsLast' /\ PageAsksForItself' /\ BufferHoldsLeaves'
BY DEF FormAsksLast, FormHearsLast, PageAsksForItself, BufferHoldsLeaves

LEMMA ConnectView == ViewInv /\ Connect => ViewInv'
<1> SUFFICES ASSUME ViewInv, Connect PROVE ViewInv'
  OBVIOUS
<1> USE DEF ViewInv
<1> DEFINE coming == <<SessionCreated>>
<1>1. /\ coming \in Seq(Messages) /\ Len(coming) = 1
      /\ coming[1].type = "session:created"
  BY DEF SessionCreated, Answer, Message, Messages, NoRoom, RoomState, List, Nobody, Place
<1>2. GuardRuns(up, coming)
  BY DEF Connect
<1> HIDE DEF coming
<1>3. /\ url' = url /\ room' = room /\ form' = form /\ evicted' = evicted /\ seats' = seats
      /\ link' = "up" /\ link # "up"
  BY DEF Connect, ghostVars
<1>4. up \in Seq(Requests) /\ url' \in Place
  BY <1>3 DEF ViewTypeOK
<1>5. \A i \in 1..Len(up) : up[i].type = "room:leave"
  BY <1>3 DEF BufferHoldsLeaves
<1>6. PICK u \in Seq(Requests) : u = up'
  BY <1>1, <1>2, <1>4, GuardSends
<1>7. \A i \in 1..Len(u) : \/ i \in 1..Len(up) /\ u[i].type = "room:leave"
                           \/ url' # Home /\ u[i].type = "presence:request" /\ u[i].code = url'
  BY <1>1, <1>2, <1>4, <1>5, <1>6, GuardSends
<1>8. PICK d \in Seq(Messages) : d = down' /\ Len(d) = 1 /\ d[1].type = "session:created"
  BY <1>1, <1>2, <1>4, GuardSends
<1>9. ViewTypeOK'
  BY <1>3, <1>6, <1>8 DEF ViewTypeOK
<1>10. FormAsksLast' /\ FormHearsLast'
  BY <1>6, <1>7, <1>8 DEF FormAsksLast, FormHearsLast, FormRequest, FormAnswer
<1>11. url # Home => Len(up) = 0
  BY <1>4, <1>5 DEF PageAsksForItself
<1>12. PageAsksForItself'
  BY <1>3, <1>4, <1>6, <1>7, <1>8, <1>11 DEF PageAsksForItself, GuardAnswer
<1>13. FormAtHome' /\ BufferHoldsLeaves' /\ ShownHasSeat'
  BY <1>3 DEF FormAtHome, BufferHoldsLeaves, ShownHasSeat, Shown, Seated
<1> QED
  BY <1>9, <1>10, <1>12, <1>13

LEMMA ConnectDeniedView == ViewInv /\ ConnectDenied => ViewInv'
BY DEF ViewInv, ViewTypeOK, FormAsksLast, FormHearsLast, FormAtHome, PageAsksForItself,
       BufferHoldsLeaves, ShownHasSeat, Shown, Seated, ConnectDenied, serverVars, pageVars

LEMMA NoticeDropView == ViewInv /\ NoticeDrop => ViewInv'
BY DEF ViewInv, ViewTypeOK, FormAsksLast, FormHearsLast, FormAtHome, PageAsksForItself,
       BufferHoldsLeaves, ShownHasSeat, Shown, Seated, NoticeDrop, wireVars, pageVars, ghostVars

LEMMA SeveredPage ==
    ASSUME Severed
    PROVE  /\ link = "up" /\ link' = "down" /\ up' = <<>> /\ down' = <<>>
           /\ UNCHANGED <<url, room, form>>
BY DEF Severed, pageVars

(* Whose session is abandoned has no seat, and somebody else its seats.    *)
LEMMA SeatsAbandoned ==
    ASSUME ViewTypeOK, Abandon
    PROVE  /\ seats' \in [Code -> SUBSET (Person \cup {Me})]
           /\ \A c \in Code : IsFiniteSet(seats'[c]) /\ Me \notin seats'[c]
<1>1. /\ seats \in [Code -> SUBSET (Person \cup {Me})]
      /\ \A c \in Code : IsFiniteSet(seats[c])
  BY DEF ViewTypeOK
<1>2. CASE SeatsOf(Me) = {} /\ seats' = seats
  <2>1. \A c \in Code : Me \notin seats[c]
    BY <1>2 DEF SeatsOf
  <2> QED
    BY <1>1, <1>2, <2>1
<1>3. ASSUME NEW p \in Person,
             seats' = [c \in Code |-> IF Me \in seats[c] THEN (seats[c] \ {Me}) \cup {p}
                                                        ELSE seats[c]]
      PROVE  /\ seats' \in [Code -> SUBSET (Person \cup {Me})]
             /\ \A c \in Code : IsFiniteSet(seats'[c]) /\ Me \notin seats'[c]
  <2>1. p # Me
    BY HomeIsNoCode
  <2>2. ASSUME NEW c \in Code PROVE IsFiniteSet((seats[c] \ {Me}) \cup {p})
    <3>1. IsFiniteSet(seats[c] \ {Me})
      BY <1>1, FS_Subset
    <3> QED
      BY <3>1, FS_AddElement
  <2>3. seats' \in [Code -> SUBSET (Person \cup {Me})]
    BY <1>1, <1>3
  <2>4. \A c \in Code : IsFiniteSet(seats'[c])
    BY <1>1, <1>3, <2>2
  <2>5. \A c \in Code : Me \notin seats'[c]
    BY <1>3, <2>1
  <2> QED
    BY <2>3, <2>4, <2>5
<1> QED
  BY <1>2, <1>3 DEF Abandon

LEMMA DropView == ViewInv /\ IdComesFirst /\ Drop => ViewInv'
<1> SUFFICES ASSUME ViewInv, IdComesFirst, Drop PROVE ViewInv'
  OBVIOUS
<1>1. up' = <<>> /\ down' = <<>> /\ link' = "down" /\ UNCHANGED <<url, room, form, evicted>>
  BY SeveredPage DEF Drop
<1>2. seats' = seats \/ (~stored /\ Abandon)
  BY DEF Drop, serverVars
<1>3. ViewTypeOK
  BY DEF ViewInv
<1>4. seats' \in [Code -> SUBSET (Person \cup {Me})] /\ \A c \in Code : IsFiniteSet(seats'[c])
  <2>1. CASE seats' = seats
    BY <1>3, <2>1 DEF ViewTypeOK
  <2>2. CASE Abandon
    BY <1>3, <2>2, SeatsAbandoned
  <2> QED
    BY <1>2, <2>1, <2>2
<1>5. ViewTypeOK'
  BY <1>1, <1>3, <1>4 DEF ViewTypeOK
<1>6. FormAtHome'
  BY <1>1 DEF ViewInv, FormAtHome
<1>7. ShownHasSeat'
  <2>1. CASE seats' = seats
    BY <1>1, <2>1 DEF ViewInv, ShownHasSeat, Shown, Seated
  <2>2. CASE ~stored
    <3>1. room' = NoRoom \/ evicted'
      BY <1>1, <2>2 DEF IdComesFirst
    <3> QED
      BY <3>1 DEF ShownHasSeat, Shown, NoRoom
  <2> QED
    BY <1>2, <2>1, <2>2
<1> QED
  BY <1>1, <1>5, <1>6, <1>7, QuietWire DEF ViewInv

LEMMA LoadPageView == ASSUME NEW u \in Place PROVE ViewInv /\ LoadPage(u) => ViewInv'
<1> SUFFICES ASSUME ViewInv, LoadPage(u) PROVE ViewInv'
  OBVIOUS
<1>1. /\ up' = <<>> /\ down' = <<>> /\ link' = "down"
      /\ url' = u /\ room' = NoRoom /\ form' = "idle" /\ evicted' = FALSE
  BY DEF LoadPage
<1>2. NoRoom \in RoomState
  BY NoRoomTyped
<1>3. seats' \in [Code -> SUBSET (Person \cup {Me})] /\ \A c \in Code : IsFiniteSet(seats'[c])
  <2>1. ViewTypeOK
    BY DEF ViewInv
  <2>2. CASE seats' = seats
    BY <2>1, <2>2 DEF ViewTypeOK
  <2>3. CASE Abandon
    BY <2>1, <2>3, SeatsAbandoned
  <2> QED
    BY <2>2, <2>3 DEF LoadPage, serverVars
<1>4. ViewTypeOK'
  BY <1>1, <1>2, <1>3 DEF ViewTypeOK
<1>5. FormAtHome' /\ ShownHasSeat'
  BY <1>1 DEF FormAtHome, ShownHasSeat, Shown, NoRoom
<1> QED
  BY <1>1, <1>4, <1>5, QuietWire DEF ViewInv

(* The grace period and the process end without a socket.                  *)
LEMMA EndView == ViewInv /\ (Expire \/ Restart) => ViewInv'
<1> SUFFICES ASSUME ViewInv, Expire \/ Restart PROVE ViewInv'
  OBVIOUS
<1> USE DEF ViewInv
<1>0. ~evicted' => room = NoRoom
  BY DEF Expire, Restart
<1>1. /\ UNCHANGED <<url, room, form>>
      /\ link' # "up" /\ link' \in {"up", "down", "denied"}
      /\ \/ up' = <<>> /\ down' = <<>>
         \/ link # "up" /\ up' = up /\ down' = down
  <2>1. CASE Expire
    BY <2>1 DEF Expire, pageVars, wireVars, ViewTypeOK
  <2>2. CASE Restart /\ Severed
    BY <2>2, SeveredPage
  <2>3. CASE Restart /\ ~Severed
    BY <2>3 DEF Restart, pageVars, wireVars, ViewTypeOK
  <2> QED
    BY <2>1, <2>2, <2>3
<1>2. seats' \in [Code -> SUBSET (Person \cup {Me})] /\ \A c \in Code : IsFiniteSet(seats'[c])
  <2>1. CASE Restart
    BY <2>1, FS_EmptySet DEF Restart
  <2>2. CASE Expire
    <3>1. \A c \in Code : IsFiniteSet(seats[c] \ {Me})
      BY FS_Subset DEF ViewTypeOK
    <3> QED
      BY <2>2, <3>1 DEF Expire, ViewTypeOK
  <2> QED
    BY <2>1, <2>2
<1>7. up' \in Seq(Requests) /\ down' \in Seq(Messages)
  <2>1. up \in Seq(Requests) /\ down \in Seq(Messages)
    BY DEF ViewTypeOK
  <2>2. CASE up' = <<>> /\ down' = <<>>
    BY <2>2
  <2>3. CASE up' = up /\ down' = down
    BY <2>1, <2>3
  <2> QED
    BY <1>1, <2>2, <2>3
<1>3. ViewTypeOK'
  BY <1>1, <1>2, <1>7 DEF ViewTypeOK
<1>4. FormAtHome' /\ ShownHasSeat'
  BY <1>0, <1>1 DEF FormAtHome, ShownHasSeat, Shown, NoRoom
<1>5. CASE up' = <<>> /\ down' = <<>>
  BY <1>3, <1>4, <1>5, QuietWire
<1>6. CASE link # "up" /\ up' = up /\ down' = down
  <2>1. down = <<>>
    BY <1>6 DEF BufferHoldsLeaves
  <2>2. FormAsksLast' /\ FormHearsLast' /\ PageAsksForItself' /\ BufferHoldsLeaves'
    BY <1>1, <1>6, <2>1 DEF FormAsksLast, FormHearsLast, PageAsksForItself, BufferHoldsLeaves
  <2> QED
    BY <1>3, <1>4, <2>2
<1> QED
  BY <1>1, <1>5, <1>6

-----------------------------------------------------------------------------
LEMMA SubmitView ==
    ASSUME NEW type \in FormRequest, NEW c \in Place, type # "room:create" => c \in Code,
           ViewInv, Submit(type, c)
    PROVE  ViewInv'
<1> USE DEF ViewInv
<1> DEFINE q == Request(type, c, FALSE)
<1>1. q \in Requests /\ q.type = type
  BY DEF Request, Requests
<1>2. up' = Append(up, q) /\ url = Home /\ form = "idle" /\ link = "up"
  BY DEF Submit
<1> HIDE DEF q
<1>3. form' = "waiting" /\ UNCHANGED <<seats, link, down, url, room, evicted>>
  BY DEF Submit, serverVars, ghostVars
<1>4. up \in Seq(Requests) /\ down \in Seq(Messages)
  BY DEF ViewTypeOK
<1>5. PICK u \in Seq(Requests) : u = up'
  BY <1>1, <1>2, <1>4, AppendTyped
<1>6. /\ Len(u) = Len(up) + 1
      /\ \A i \in 1..Len(up) : u[i] = up[i]
  BY <1>1, <1>2, <1>4, <1>5, AppendTyped
<1>7. \A i \in 1..Len(up) : up[i].type \notin FormRequest
  BY <1>2 DEF FormAsksLast
<1>8. \A i \in 1..Len(down) : down[i].type \notin FormAnswer
  BY <1>2 DEF FormHearsLast
<1>9. ViewTypeOK'
  BY <1>3, <1>5 DEF ViewTypeOK
<1>10. FormAsksLast'
  BY <1>3, <1>4, <1>5, <1>6, <1>7, <1>8 DEF FormAsksLast
<1>11. FormHearsLast'
  BY <1>3, <1>8 DEF FormHearsLast
<1>12. FormAtHome' /\ PageAsksForItself' /\ BufferHoldsLeaves' /\ ShownHasSeat'
  BY <1>2, <1>3 DEF FormAtHome, PageAsksForItself, BufferHoldsLeaves, ShownHasSeat, Shown
<1> QED
  BY <1>9, <1>10, <1>11, <1>12

(* Nothing of the form is on its way while a room's page is open.          *)
LEMMA FormRestsAway ==
    ASSUME ViewInv, url # Home
    PROVE  /\ form = "idle"
           /\ \A i \in 1..Len(down) : down[i].type \notin FormAnswer
           /\ \A i \in 1..Len(up) : up[i].type = "presence:request"
<1>1. form = "idle"
  BY DEF ViewInv, ViewTypeOK, FormAtHome
<1> QED
  BY <1>1 DEF ViewInv, FormHearsLast, PageAsksForItself

(* The page goes home, and sends nothing that belongs to its form.         *)
LEMMA GoesHome ==
    ASSUME ViewInv, url # Home, ViewTypeOK', url' = Home, form' = form, link' = link,
           Len(down') = Len(down),
           \A i \in 1..Len(down) : down'[i].type = down[i].type,
           \A i \in 1..Len(up') : /\ up'[i].type \notin FormRequest
                                  /\ link # "up" => up'[i].type = "room:leave"
    PROVE  ViewInv'
<1> USE DEF ViewInv
<1>1. PICK d \in Seq(Messages) : d = down'
  BY DEF ViewTypeOK
<1>2. Len(d) = Len(down) /\ \A i \in 1..Len(d) : d[i].type \notin FormAnswer
  BY <1>1, FormRestsAway
<1>3. FormAsksLast'
  BY DEF FormAsksLast
<1>4. FormHearsLast'
  BY <1>1, <1>2 DEF FormHearsLast
<1>5. FormAtHome' /\ PageAsksForItself' /\ ShownHasSeat'
  BY DEF FormAtHome, PageAsksForItself, ShownHasSeat, Shown
<1>6. BufferHoldsLeaves'
  <2>1. link # "up" => Len(d) = 0
    BY <1>2 DEF BufferHoldsLeaves
  <2> QED
    BY <1>1, <2>1 DEF BufferHoldsLeaves
<1> QED
  BY <1>3, <1>4, <1>5, <1>6

LEMMA GoBackView == ViewInv /\ GoBack => ViewInv'
<1> SUFFICES ASSUME ViewInv, GoBack PROVE ViewInv'
  OBVIOUS
<1>1. url # Home /\ url' = Home /\ UNCHANGED <<seats, link, room, form, evicted>>
  BY DEF GoBack, serverVars, ghostVars
<1>2. GuardRuns(up, down)
  BY DEF GoBack
<1>3. up \in Seq(Requests) /\ down \in Seq(Messages) /\ url' \in Place
  BY <1>1 DEF ViewInv, ViewTypeOK, Place
<1>4. /\ down' \in Seq(Messages) /\ Len(down') = Len(down)
      /\ \A i \in 1..Len(down) : down'[i].type = down[i].type
  BY <1>2, <1>3, GuardSends
<1>5. /\ up' \in Seq(Requests) /\ Len(up') = Len(up)
      /\ \A i \in 1..Len(up) : up'[i].type = up[i].type
  BY <1>1, <1>2, <1>3, GuardSends
<1>6. ViewTypeOK'
  BY <1>1, <1>3, <1>4, <1>5 DEF ViewInv, ViewTypeOK
<1>7. \A i \in 1..Len(up') : /\ up'[i].type \notin FormRequest
                             /\ link # "up" => up'[i].type = "room:leave"
  BY <1>1, <1>5, FormRestsAway DEF ViewInv, BufferHoldsLeaves, FormRequest
<1> QED
  BY <1>1, <1>4, <1>6, <1>7, GoesHome

LEMMA LeaveView == ViewInv /\ Leave => ViewInv'
<1> SUFFICES ASSUME ViewInv, Leave PROVE ViewInv'
  OBVIOUS
<1> DEFINE bye == Request("room:leave", url, FALSE)
           ask == Request("presence:request", url, FALSE)
<1>1. /\ url # Home /\ url' = Home /\ room' = NoRoom
      /\ UNCHANGED <<seats, link, down, form, evicted>>
  BY DEF Leave, Shown, serverVars
<1>2. up' = up \o <<bye>> \o (IF link = "up" THEN <<ask>> ELSE <<>>)
  BY DEF Leave
<1>3. up \in Seq(Requests) /\ url \in Code
  BY <1>1 DEF ViewInv, ViewTypeOK, Place
<1>4. PICK b \in Requests : b = bye /\ b.type = "room:leave"
  BY <1>3, RequestTyped
<1>5. PICK a \in Requests : a = ask /\ a.type = "presence:request"
  BY <1>3, RequestTyped
<1> HIDE DEF bye, ask
<1>9. Append(up, b) \in Seq(Requests) /\ up \o <<b>> = Append(up, b)
  BY <1>3, AppendTyped
<1>6. PICK v \in Seq(Requests) : v = up \o <<b>>
  BY <1>9
<1>7. \A i \in 1..Len(v) : /\ v[i].type \notin FormRequest
                           /\ link # "up" => v[i].type = "room:leave"
  <2>1. /\ Len(v) = Len(up) + 1 /\ v[Len(up) + 1] = b
        /\ \A i \in 1..Len(up) : v[i] = up[i]
    BY <1>3, <1>6, AppendTyped
  <2>2. \A i \in 1..Len(up) : /\ up[i].type = "presence:request"
                              /\ link # "up" => up[i].type = "room:leave"
    BY <1>1, FormRestsAway DEF ViewInv, BufferHoldsLeaves
  <2> QED
    BY <1>3, <1>4, <2>1, <2>2 DEF FormRequest
<1>8. PICK u \in Seq(Requests) : u = up' /\
           \A i \in 1..Len(u) : /\ u[i].type \notin FormRequest
                                /\ link # "up" => u[i].type = "room:leave"
  <2>1. CASE link = "up"
    <3>1. up' = v \o <<a>>
      BY <1>2, <1>4, <1>5, <1>6, <2>1
    <3>2. /\ Append(v, a) \in Seq(Requests) /\ v \o <<a>> = Append(v, a)
          /\ Len(Append(v, a)) = Len(v) + 1 /\ Append(v, a)[Len(v) + 1] = a
          /\ \A i \in 1..Len(v) : Append(v, a)[i] = v[i]
      BY AppendTyped
    <3>3. PICK u \in Seq(Requests) : u = up' /\ Len(u) = Len(v) + 1 /\ u[Len(v) + 1] = a
                                     /\ \A i \in 1..Len(v) : u[i] = v[i]
      BY <3>1, <3>2
    <3> QED
      BY <1>5, <1>7, <2>1, <3>3 DEF FormRequest
  <2>2. CASE link # "up"
    <3>1. up' = v \o <<>>
      BY <1>2, <1>4, <1>6, <2>2
    <3>2. up' = v
      BY <3>1
    <3> QED
      BY <1>7, <3>2
  <2> QED
    BY <2>1, <2>2
<1>10. NoRoom \in RoomState
  BY NoRoomTyped
<1>11. ViewTypeOK'
  BY <1>1, <1>8, <1>10 DEF ViewInv, ViewTypeOK, Place
<1> QED
  BY <1>1, <1>8, <1>11, GoesHome

-----------------------------------------------------------------------------
(* The message at the head leaves the queue; the guard may ask.            *)
LEMMA ReceiveQueues ==
    ASSUME ViewInv, Receive, url' \in Place
    PROVE  /\ down # <<>> /\ link = "up" /\ link' = "up"
           /\ down' \in Seq(Messages) /\ Len(down') = Len(down) - 1
           /\ \A i \in 1..Len(down') : /\ down'[i].type = down[i + 1].type
                                       /\ down'[i].room = down[i + 1].room
           /\ up' \in Seq(Requests)
           /\ Len(up') >= Len(up)
           /\ \A i \in 1..Len(up) : /\ up'[i].type = up[i].type
                                    /\ up'[i].code = up[i].code
           /\ \A i \in 1..Len(up') : i > Len(up) =>
                /\ url' # Home
                /\ up'[i].type = "presence:request" /\ up'[i].code = url'
<1>1. up \in Seq(Requests) /\ down \in Seq(Messages)
  BY DEF ViewInv, ViewTypeOK
<1>2. down # <<>> /\ link' = link
  BY DEF Receive
<1>3. link = "up"
  BY <1>2 DEF ViewInv, BufferHoldsLeaves
<1>4. PICK t \in Seq(Messages) : t = Tail(down)
  BY <1>1, <1>2, TailTyped
<1>5. Len(t) = Len(down) - 1 /\ \A i \in 1..Len(t) : t[i] = down[i + 1]
  BY <1>1, <1>2, <1>4, TailTyped
<1>6. GuardRuns(up, t) \/ (down' = t /\ up' = up)
  BY <1>4 DEF Receive
<1>7. CASE GuardRuns(up, t)
  <2>1. PICK d \in Seq(Messages) : d = down' /\ Len(d) = Len(t)
            /\ \A i \in 1..Len(t) : d[i].type = t[i].type /\ d[i].room = t[i].room
    BY <1>1, <1>7, GuardSends
  <2>2. PICK u \in Seq(Requests) : u = up'
    BY <1>1, <1>7, GuardSends
  <2>3. /\ \A i \in 1..Len(up) : u[i].type = up[i].type /\ u[i].code = up[i].code
        /\ \/ Len(u) = Len(up)
           \/ /\ Len(u) = Len(up) + 1 /\ url' # Home
              /\ u[Len(up) + 1].type = "presence:request" /\ u[Len(up) + 1].code = url'
    BY <1>1, <1>7, <2>2, GuardSends
  <2>4. /\ Len(u) >= Len(up)
        /\ \A i \in 1..Len(u) : i > Len(up) =>
              url' # Home /\ u[i].type = "presence:request" /\ u[i].code = url'
    BY <1>1, <2>3
  <2> QED
    BY <1>2, <1>3, <1>5, <2>1, <2>2, <2>3, <2>4
<1>8. CASE down' = t /\ up' = up
  <2>1. Len(up) \in Nat /\ \A i \in 1..Len(up) : ~(i > Len(up))
    BY <1>1
  <2>2. down' \in Seq(Messages) /\ up' \in Seq(Requests)
    BY <1>1, <1>8
  <2>3. /\ Len(down') = Len(down) - 1
        /\ \A i \in 1..Len(down') : down'[i] = down[i + 1]
    BY <1>5, <1>8
  <2> QED
    BY <1>2, <1>3, <1>8, <2>1, <2>2, <2>3
<1> QED
  BY <1>6, <1>7, <1>8

(* Every message but the form's answers leaves the form alone, and the     *)
(* page where it is or takes it home.                                      *)
LEMMA ReceiveKeeps ==
    ASSUME ViewInv, Receive, url' \in {url, Home}, form' = form
    PROVE  FormAsksLast' /\ FormHearsLast' /\ FormAtHome' /\ PageAsksForItself' /\ BufferHoldsLeaves'
<1> USE DEF ViewInv
<1>1. seats' = seats
  BY DEF Receive, serverVars
<1>2. url' \in Place
  BY DEF ViewTypeOK, Place
<1>3. PICK d \in Seq(Messages) : d = down'
  BY <1>2, ReceiveQueues
<1>4. PICK u \in Seq(Requests) : u = up'
  BY <1>2, ReceiveQueues
<1>5. /\ Len(d) = Len(down) - 1
      /\ \A i \in 1..Len(d) : /\ d[i].type = down[i + 1].type
                              /\ d[i].room = down[i + 1].room
  BY <1>2, <1>3, ReceiveQueues
<1>6. /\ Len(u) >= Len(up)
      /\ \A i \in 1..Len(up) : u[i].type = up[i].type /\ u[i].code = up[i].code
      /\ \A i \in 1..Len(u) : i > Len(up) =>
            url' # Home /\ u[i].type = "presence:request" /\ u[i].code = url'
  BY <1>2, <1>4, ReceiveQueues
<1>7. up \in Seq(Requests) /\ down \in Seq(Messages) /\ link' = "up"
  BY <1>2, ReceiveQueues DEF ViewTypeOK
<1>8. FormAtHome'
  BY DEF FormAtHome
<1>9. FormAsksLast'
  <2> SUFFICES ASSUME NEW i \in 1..Len(u), u[i].type \in FormRequest
               PROVE  /\ i = Len(u) /\ form' = "waiting"
                      /\ \A j \in 1..Len(d) : d[j].type \notin FormAnswer
    BY <1>3, <1>4 DEF FormAsksLast
  <2>1. i \in 1..Len(up) /\ up[i].type \in FormRequest
    BY <1>6, <1>7 DEF FormRequest
  <2>2. i = Len(up) /\ form = "waiting" /\ \A j \in 1..Len(down) : down[j].type \notin FormAnswer
    BY <2>1 DEF FormAsksLast
  <2>3. url' = Home
    BY <2>2 DEF FormAtHome
  <2>4. Len(u) = Len(up)
    BY <1>6, <1>7, <2>3
  <2>5. \A j \in 1..Len(d) : j + 1 \in 1..Len(down)
    BY <1>5, <1>7
  <2>6. \A j \in 1..Len(d) : d[j].type \notin FormAnswer
    BY <1>5, <2>2, <2>5
  <2> QED
    BY <2>2, <2>4, <2>6
<1>10. FormHearsLast'
  <2> SUFFICES ASSUME NEW i \in 1..Len(d), d[i].type \in FormAnswer
               PROVE  /\ form' = "waiting" /\ u = <<>>
                      /\ \A j \in 1..Len(d) : j > i => d[j].type \notin FormAnswer \cup GuardAnswer
                      /\ d[i].type # "refused" => Seated(d[i].room.code)'
    BY <1>3, <1>4 DEF FormHearsLast
  <2>1. i + 1 \in 1..Len(down) /\ down[i + 1].type \in FormAnswer
    BY <1>5, <1>7
  <2>2. /\ form = "waiting" /\ up = <<>>
        /\ \A j \in 1..Len(down) : j > i + 1 => down[j].type \notin FormAnswer \cup GuardAnswer
        /\ down[i + 1].type # "refused" => Seated(down[i + 1].room.code)
    BY <2>1 DEF FormHearsLast
  <2>3. u = <<>>
    <3>1. url' = Home
      BY <2>2 DEF FormAtHome
    <3>2. \A j \in 1..Len(u) : ~(j > 0)
      BY <1>6, <2>2, <3>1
    <3>3. Len(u) = 0
      BY <3>2
    <3> QED
      BY <3>3
  <2>4. d[i].type # "refused" => Seated(d[i].room.code)'
    BY <1>1, <1>3, <1>5, <2>2 DEF Seated
  <2>5. \A j \in 1..Len(d) : j + 1 \in 1..Len(down)
    BY <1>5, <1>7
  <2>6. ASSUME NEW j \in 1..Len(d), j > i
        PROVE  d[j].type \notin FormAnswer \cup GuardAnswer
    <3>1. j + 1 \in 1..Len(down) /\ j + 1 > i + 1
      BY <2>5, <2>6
    <3>2. down[j + 1].type \notin FormAnswer \cup GuardAnswer
      BY <2>2, <3>1
    <3> QED
      BY <1>5, <3>2
  <2> QED
    BY <2>2, <2>3, <2>4, <2>6
<1>11. PageAsksForItself'
  <2> SUFFICES ASSUME url' # Home
               PROVE  /\ \A i \in 1..Len(u) : u[i].type = "presence:request" /\ u[i].code = url'
                      /\ \A i \in 1..Len(d) : d[i].type \in GuardAnswer =>
                            /\ d[i].room.code = url'
                            /\ d[i].type = "present" => Seated(url)'
    BY <1>3, <1>4 DEF PageAsksForItself
  <2>1. /\ url' = url
        /\ \A i \in 1..Len(up) : up[i].type = "presence:request" /\ up[i].code = url
        /\ \A i \in 1..Len(down) : down[i].type \in GuardAnswer =>
              down[i].room.code = url /\ (down[i].type = "present" => Seated(url))
    BY DEF PageAsksForItself
  <2>2. ASSUME NEW i \in 1..Len(u)
        PROVE  u[i].type = "presence:request" /\ u[i].code = url'
    <3>1. CASE i > Len(up)
      BY <1>6, <3>1
    <3>2. CASE ~(i > Len(up))
      <4>1. i \in 1..Len(up)
        BY <1>7, <3>2
      <4> QED
        BY <1>6, <2>1, <4>1
    <3> QED
      BY <3>1, <3>2
  <2>3. Seated(url)' <=> Seated(url)
    BY <1>1, <2>1 DEF Seated
  <2>4. \A i \in 1..Len(d) : i + 1 \in 1..Len(down)
    BY <1>5, <1>7
  <2>5. \A i \in 1..Len(d) : d[i].type \in GuardAnswer =>
            d[i].room.code = url /\ (d[i].type = "present" => Seated(url))
    BY <1>5, <2>1, <2>4
  <2> QED
    BY <2>1, <2>2, <2>3, <2>5
<1>12. BufferHoldsLeaves'
  BY <1>7 DEF BufferHoldsLeaves
<1> QED
  BY <1>8, <1>9, <1>10, <1>11, <1>12

(* The answer to the form, whatever it is, is the only one under way.      *)
LEMMA ReceiveAnswer ==
    ASSUME ViewInv, Receive, Head(down).type \in FormAnswer, url' \in Place, form' = "idle"
    PROVE  FormAsksLast' /\ FormHearsLast' /\ FormAtHome' /\ PageAsksForItself' /\ BufferHoldsLeaves'
<1> USE DEF ViewInv
<1>1. up \in Seq(Requests) /\ down \in Seq(Messages) /\ link' = "up" /\ down # <<>>
  BY ReceiveQueues DEF ViewTypeOK
<1>2. 1 \in 1..Len(down) /\ down[1].type \in FormAnswer
  BY <1>1
<1>3. up = <<>> /\ \A j \in 1..Len(down) : j > 1 => down[j].type \notin FormAnswer \cup GuardAnswer
  BY <1>2 DEF FormHearsLast
<1>4. PICK d \in Seq(Messages) : d = down'
  BY ReceiveQueues
<1>5. PICK u \in Seq(Requests) : u = up'
  BY ReceiveQueues
<1>6. Len(d) = Len(down) - 1 /\ \A i \in 1..Len(d) : d[i].type = down[i + 1].type
  BY <1>4, ReceiveQueues
<1>7. \A i \in 1..Len(d) : d[i].type \notin FormAnswer \cup GuardAnswer
  BY <1>1, <1>3, <1>6
<1>8. \A i \in 1..Len(u) : u[i].type = "presence:request" /\ u[i].code = url'
  BY <1>3, <1>5, ReceiveQueues
<1> QED
  BY <1>1, <1>4, <1>5, <1>7, <1>8
  DEF FormAsksLast, FormHearsLast, FormAtHome, PageAsksForItself, BufferHoldsLeaves, FormRequest

LEMMA ReceiveView == ViewInv /\ Receive => ViewInv'
<1> SUFFICES ASSUME ViewInv, Receive PROVE ViewInv'
  OBVIOUS
<1> DEFINE e == Head(down)
<1>1. /\ room' = After(room, e) /\ down # <<>>
      /\ url' = IF e.type \in {"created", "joined"} THEN e.room.code
                ELSE IF e.type = "absent" /\ e.live THEN Home ELSE url
      /\ form' = IF e.type \in FormAnswer THEN "idle" ELSE form
      /\ UNCHANGED <<seats, link>>
  BY DEF Receive, serverVars, FormAnswer
<1>2. ~evicted' => e.type \in {"created", "joined", "present"} \/ ~evicted
  BY DEF Receive
<1>3. /\ seats \in [Code -> SUBSET (Person \cup {Me})] /\ \A c \in Code : IsFiniteSet(seats[c])
      /\ link \in {"up", "down", "denied"} /\ url \in Place /\ room \in RoomState
      /\ down \in Seq(Messages) /\ form \in {"idle", "waiting"}
  BY DEF ViewInv, ViewTypeOK
<1>4. e \in Messages /\ e = down[1] /\ 1 \in 1..Len(down)
  BY <1>1, <1>3
<1> HIDE DEF e
<1>5. e.room \in RoomState /\ e.room.code \in Place
  BY <1>4 DEF Messages, RoomState
<1>6. room' \in RoomState
  BY <1>1, <1>3, <1>4, AfterTyped
<1>7. url' \in Place /\ form' \in {"idle", "waiting"}
  BY <1>1, <1>3, <1>5 DEF Place
<1>8. up' \in Seq(Requests) /\ down' \in Seq(Messages)
  BY <1>7, ReceiveQueues
<1>9. ViewTypeOK'
  BY <1>1, <1>3, <1>6, <1>7, <1>8 DEF ViewTypeOK
<1>10. FormAsksLast' /\ FormHearsLast' /\ FormAtHome' /\ PageAsksForItself' /\ BufferHoldsLeaves'
  <2>1. CASE e.type \in FormAnswer
    BY <1>1, <1>4, <1>7, <2>1, ReceiveAnswer DEF e
  <2>2. CASE e.type \notin FormAnswer
    BY <1>1, <2>2, ReceiveKeeps DEF FormAnswer
  <2> QED
    BY <2>1, <2>2
<1>11. ShownHasSeat'
  <2> SUFFICES ASSUME NEW c \in Code, url' = c, room'.code = c, ~evicted', c # Home
               PROVE  Me \in seats[c]
    BY <1>1 DEF ShownHasSeat, Shown, Seated
  <2>1. CASE e.type \in {"created", "joined"}
    <3>1. Seated(e.room.code)
      BY <1>4, <2>1 DEF ViewInv, FormHearsLast, FormAnswer
    <3> QED
      BY <1>1, <2>1, <3>1 DEF Seated
  <2>2. CASE e.type = "present"
    <3>1. url' = url
      BY <1>1, <2>2
    <3>2. Seated(url)
      BY <1>4, <2>2, <3>1 DEF ViewInv, PageAsksForItself, GuardAnswer
    <3> QED
      BY <3>1, <3>2 DEF Seated
  <2>3. CASE e.type \notin {"created", "joined", "present"}
    <3>1. url = c /\ ~evicted
      BY <1>1, <1>2, <2>3
    <3>2. room'.code = room.code \/ room' = NoRoom
      BY <1>1, <1>3, <1>4, <2>3, AnswersSetRoom, EventsKeepCode
      DEF Messages, FormAnswer, GuardAnswer
    <3>3. room.code = c
      BY <3>2 DEF NoRoom
    <3> QED
      BY <3>1, <3>3 DEF ViewInv, ShownHasSeat, Shown, Seated
  <2> QED
    BY <2>1, <2>2, <2>3
<1> QED
  BY <1>9, <1>10, <1>11 DEF ViewInv

-----------------------------------------------------------------------------
(* The server answers the form.                                            *)
LEMMA FormAnswered ==
    ASSUME ViewInv, up # <<>>, up[1].type \in FormRequest, link = "up",
           NEW m \in Messages, m.type \in FormAnswer,
           m.type # "refused" => Seated(m.room.code)',
           up' = Tail(up), down' = Append(down, m), ViewTypeOK',
           UNCHANGED <<link, url, room, form, evicted>>
    PROVE  ViewInv'
<1> USE DEF ViewInv
<1>1. up \in Seq(Requests) /\ down \in Seq(Messages)
  BY DEF ViewTypeOK
<1>2. 1 \in 1..Len(up)
  BY <1>1, TailTyped
<1>3. 1 = Len(up) /\ form = "waiting" /\ \A j \in 1..Len(down) : down[j].type \notin FormAnswer
  BY <1>2 DEF FormAsksLast
<1>4. up' = <<>>
  BY <1>1, <1>3
<1>5. url = Home
  BY <1>3 DEF FormAtHome
<1>6. PICK d \in Seq(Messages) : d = down' /\ Len(d) = Len(down) + 1 /\ d[Len(down) + 1] = m
          /\ \A i \in 1..Len(down) : d[i] = down[i]
  <2>1. /\ Append(down, m) \in Seq(Messages) /\ Len(Append(down, m)) = Len(down) + 1
        /\ Append(down, m)[Len(down) + 1] = m
        /\ \A i \in 1..Len(down) : Append(down, m)[i] = down[i]
    BY <1>1, AppendTyped
  <2> QED
    BY <2>1
<1>7. FormHearsLast'
  <2> SUFFICES ASSUME NEW i \in 1..Len(d), d[i].type \in FormAnswer
               PROVE  /\ form' = "waiting" /\ up' = <<>>
                      /\ \A j \in 1..Len(d) : j > i => d[j].type \notin FormAnswer \cup GuardAnswer
                      /\ d[i].type # "refused" => Seated(d[i].room.code)'
    BY <1>6 DEF FormHearsLast
  <2>1. i = Len(down) + 1
    BY <1>1, <1>3, <1>6
  <2>2. d[i] = m
    BY <1>6, <2>1
  <2>3. Len(d) = i
    BY <1>6, <2>1
  <2> QED
    BY <1>3, <1>4, <2>2, <2>3
<1>8. FormAsksLast'
  BY <1>4 DEF FormAsksLast
<1>9. FormAtHome' /\ PageAsksForItself' /\ BufferHoldsLeaves' /\ ShownHasSeat'
  BY <1>5 DEF FormAtHome, PageAsksForItself, BufferHoldsLeaves, ShownHasSeat, Shown
<1> QED
  BY <1>7, <1>8, <1>9

(* The server handles something else, or drops what it does not handle.    *)
LEMMA OtherHandled ==
    ASSUME ViewInv, up # <<>>, link = "up", up' = Tail(up), ViewTypeOK',
           UNCHANGED <<link, url, room, form, evicted>>,
           \A c \in Code : url = c => (Me \in seats'[c] <=> Me \in seats[c]),
           \/ down' = down
           \/ \E m \in Messages :
                /\ down' = Append(down, m)
                /\ m.type \in GuardAnswer
                /\ url # Home => /\ m.room.code = url
                                 /\ m.type = "present" => Seated(url)
    PROVE  ViewInv'
<1> USE DEF ViewInv
<1>1. up \in Seq(Requests) /\ down \in Seq(Messages) /\ url \in Place
  BY SMTT(60) DEF ViewTypeOK
<1>2. PICK u \in Seq(Requests) : u = Tail(up) /\ Len(u) = Len(up) - 1
          /\ \A i \in 1..Len(u) : u[i] = up[i + 1]
  <2>1. /\ Tail(up) \in Seq(Requests) /\ Len(Tail(up)) = Len(up) - 1
        /\ \A i \in 1..Len(Tail(up)) : Tail(up)[i] = up[i + 1]
    BY <1>1, TailTyped
  <2> QED
    BY <2>1
<1>3. PICK d \in Seq(Messages) : d = down'
  BY DEF ViewTypeOK
<1>4. \A i \in 1..Len(d) :
          \/ i \in 1..Len(down) /\ d[i] = down[i]
          \/ /\ d[i].type \in GuardAnswer
             /\ url # Home => d[i].room.code = url /\ (d[i].type = "present" => Seated(url))
  <2>1. CASE down' = down
    BY <1>1, <1>3, <2>1
  <2>2. CASE \E m \in Messages :
                /\ down' = Append(down, m)
                /\ m.type \in GuardAnswer
                /\ url # Home => /\ m.room.code = url
                                 /\ m.type = "present" => Seated(url)
    <3>1. PICK m \in Messages :
                /\ down' = Append(down, m)
                /\ m.type \in GuardAnswer
                /\ url # Home => /\ m.room.code = url
                                 /\ m.type = "present" => Seated(url)
      BY <2>2
    <3>2. d = Append(down, m)
      BY <1>3, <3>1
    <3>3. /\ Len(d) = Len(down) + 1 /\ d[Len(down) + 1] = m
          /\ \A i \in 1..Len(down) : d[i] = down[i]
      BY <1>1, <3>2, AppendTyped
    <3>4. \A i \in 1..Len(d) : i \in 1..Len(down) \/ i = Len(down) + 1
      BY <1>1, <3>3
    <3> QED
      BY <3>1, <3>3, <3>4
  <2> QED
    BY <2>1, <2>2
<1>5. \A j \in 1..Len(down) : down[j].type \notin FormAnswer
  BY DEF FormHearsLast
<1>6. \A j \in 1..Len(d) : d[j].type \notin FormAnswer
  BY <1>4, <1>5 DEF FormAnswer, GuardAnswer
<1>7. \A i \in 1..Len(u) : i + 1 \in 1..Len(up)
  BY <1>1, <1>2
<1>8. FormAsksLast'
  <2> SUFFICES ASSUME NEW i \in 1..Len(u), u[i].type \in FormRequest
               PROVE  i = Len(u) /\ form' = "waiting"
    BY <1>2, <1>3, <1>6, ZenonT(60) DEF FormAsksLast
  <2>1. i + 1 = Len(up) /\ form = "waiting"
    BY <1>2, <1>7 DEF FormAsksLast
  <2> QED
    BY <1>1, <1>2, <2>1, SMTT(60)
<1>9. FormHearsLast'
  BY <1>3, <1>6 DEF FormHearsLast
<1>10. url # Home => (Seated(url)' <=> Seated(url))
  BY <1>1 DEF Seated, Place
<1>11. PageAsksForItself'
  <2> SUFFICES ASSUME url # Home
               PROVE  /\ \A i \in 1..Len(u) : u[i].type = "presence:request" /\ u[i].code = url
                      /\ \A i \in 1..Len(d) : d[i].type \in GuardAnswer =>
                            /\ d[i].room.code = url
                            /\ d[i].type = "present" => Seated(url)'
    BY <1>2, <1>3 DEF PageAsksForItself
  <2>1. /\ \A i \in 1..Len(up) : up[i].type = "presence:request" /\ up[i].code = url
        /\ \A i \in 1..Len(down) : down[i].type \in GuardAnswer =>
              down[i].room.code = url /\ (down[i].type = "present" => Seated(url))
    BY DEF PageAsksForItself
  <2> QED
    BY <1>2, <1>4, <1>7, <1>10, <2>1
<1>12. FormAtHome' /\ BufferHoldsLeaves'
  BY DEF FormAtHome, BufferHoldsLeaves
<1>13. ShownHasSeat'
  BY DEF ShownHasSeat, Shown, Seated
<1> QED
  BY <1>8, <1>9, <1>11, <1>12, <1>13

LEMMA ThrottledView == ViewInv /\ Throttled => ViewInv'
<1> SUFFICES ASSUME ViewInv, Throttled PROVE ViewInv'
  OBVIOUS
<1>1. /\ link = "up" /\ up # <<>> /\ up' = Tail(up) /\ down' = down
      /\ UNCHANGED <<seats, link, url, room, form, evicted>>
  BY DEF Throttled, serverVars, pageVars
<1>2. Tail(up) \in Seq(Requests)
  BY <1>1, TailTyped DEF ViewInv, ViewTypeOK
<1>3. ViewTypeOK'
  BY <1>1, <1>2 DEF ViewInv, ViewTypeOK
<1> QED
  BY <1>1, <1>3, OtherHandled

LEMMA AnswerTyped ==
    ASSUME NEW type \in FormAnswer, NEW r \in RoomState
    PROVE  /\ Answer(type, r) \in Messages
           /\ Answer(type, r).type = type /\ Answer(type, r).room = r
BY DEF Answer, Message, Messages

LEMMA MessageTyped ==
    ASSUME NEW type \in GuardAnswer \cup RoomEvent, NEW p \in Person \cup {Me},
           NEW r \in RoomState, NEW live \in BOOLEAN
    PROVE  /\ Message(type, p, r, live) \in Messages
           /\ Message(type, p, r, live).type = type /\ Message(type, p, r, live).room = r
BY DEF Message, Messages

LEMMA BareRoom ==
    ASSUME NEW c \in Place, NEW n \in Nat
    PROVE  Room(c, Nobody, n) \in RoomState /\ Room(c, Nobody, n).code = c
BY DEF Room, RoomState, List, Nobody

LEMMA HandleView == ViewInv /\ Handle => ViewInv'
<1> SUFFICES ASSUME ViewInv, Handle PROVE ViewInv'
  OBVIOUS
<1> DEFINE q == Head(up)
<1>1. /\ link = "up" /\ up # <<>> /\ up' = Tail(up)
      /\ UNCHANGED <<link, url, room, form, evicted>>
  BY DEF Handle, pageVars
<1>2. OnCreate(q) \/ OnJoin(q) \/ OnLeave(q) \/ OnPresence(q)
  BY DEF Handle
<1>3. /\ seats \in [Code -> SUBSET (Person \cup {Me})] /\ \A c \in Code : IsFiniteSet(seats[c])
      /\ up \in Seq(Requests) /\ down \in Seq(Messages)
  BY DEF ViewInv, ViewTypeOK
<1>4. up' \in Seq(Requests) /\ q \in Requests /\ q = up[1]
  BY <1>1, <1>3, TailTyped
<1> HIDE DEF q
<1>5. ASSUME seats' \in [Code -> SUBSET (Person \cup {Me})], \A c \in Code : IsFiniteSet(seats'[c]),
             down' \in Seq(Messages)
      PROVE  ViewTypeOK'
  BY <1>1, <1>4, <1>5 DEF ViewInv, ViewTypeOK
<1>6. ASSUME NEW m \in Messages, down' = Append(down, m)
      PROVE  down' \in Seq(Messages)
  BY <1>3, <1>6, AppendTyped
(* Refusals.                                                               *)
<1>7. CASE q.type \in FormRequest /\ Reply(Answer("refused", NoRoom)) /\ seats' = seats
  <2>1. PICK m \in Messages : m = Answer("refused", NoRoom) /\ m.type = "refused"
    BY AnswerTyped, NoRoomTyped DEF FormAnswer
  <2>2. down' = Append(down, m)
    BY <1>7, <2>1 DEF Reply
  <2>3. ViewTypeOK'
    BY <1>3, <1>5, <1>6, <1>7, <2>2
  <2> QED
    BY <1>1, <1>4, <1>7, <2>1, <2>2, <2>3, FormAnswered DEF FormAnswer
(* Somebody who gets a seat.                                               *)
<1>8. ASSUME NEW type \in {"created", "joined"}, NEW c \in Code, NEW S, NEW r \in RoomState,
             q.type \in FormRequest, S \in SUBSET (Person \cup {Me}), Me \in S, IsFiniteSet(S),
             seats' = [seats EXCEPT ![c] = S], r.code = c, Reply(Answer(type, r))
      PROVE  ViewInv'
  <2>1. PICK m \in Messages : m = Answer(type, r) /\ m.type = type /\ m.room = r
    BY AnswerTyped DEF FormAnswer
  <2>2. down' = Append(down, m)
    BY <1>8, <2>1 DEF Reply
  <2>3. /\ seats' \in [Code -> SUBSET (Person \cup {Me})]
        /\ \A d \in Code : IsFiniteSet(seats'[d])
        /\ Me \in seats'[c]
    BY <1>3, <1>8
  <2>4. ViewTypeOK'
    BY <1>5, <1>6, <2>2, <2>3
  <2>5. Seated(m.room.code)'
    BY <1>8, <2>1, <2>3, HomeIsNoCode DEF Seated
  <2> QED
    BY <1>1, <1>4, <1>8, <2>1, <2>2, <2>4, <2>5, FormAnswered DEF FormAnswer
<1>9. CASE OnCreate(q)
  <2>1. q.type \in FormRequest
    BY <1>9 DEF OnCreate, FormRequest
  <2>2. CASE \E c \in Code : /\ seats[c] = {} /\ seats' = [seats EXCEPT ![c] = {Me}]
                             /\ Reply(Answer("created", Room(c, Nobody, 1)))
    <3>1. PICK c \in Code : /\ seats[c] = {} /\ seats' = [seats EXCEPT ![c] = {Me}]
                            /\ Reply(Answer("created", Room(c, Nobody, 1)))
      BY <2>2
    <3>2. Room(c, Nobody, 1) \in RoomState /\ Room(c, Nobody, 1).code = c
      BY BareRoom DEF Place
    <3>3. {Me} \in SUBSET (Person \cup {Me}) /\ Me \in {Me} /\ IsFiniteSet({Me})
      BY FS_Singleton
    <3> QED
      BY <1>8, <2>1, <3>1, <3>2, <3>3
  <2> QED
    BY <1>7, <1>9, <2>1, <2>2 DEF OnCreate
<1>10. CASE OnJoin(q)
  <2> DEFINE c == q.code
  <2>1. q.type \in FormRequest /\ c \in Code
    BY <1>4, <1>10 DEF OnJoin, FormRequest, Requests
  <2>2. CASE /\ seats' = [seats EXCEPT ![c] = @ \cup {Me}]
             /\ Reply(Answer("joined", Roster(c, seats'[c])))
    <3> DEFINE S == seats[c] \cup {Me}
    <3>1. S \in SUBSET (Person \cup {Me}) /\ Me \in S /\ IsFiniteSet(S)
      BY <1>3, <2>1, FS_AddElement
    <3>2. seats' = [seats EXCEPT ![c] = S] /\ seats'[c] = S
      BY <1>3, <2>1, <2>2
    <3> HIDE DEF S, c
    <3>3. Roster(c, S) \in RoomState /\ Roster(c, S).code = c
      BY <2>1, <3>1, RosterTyped
    <3>4. Reply(Answer("joined", Roster(c, S)))
      BY <2>2, <3>2
    <3> QED
      BY <1>8, <2>1, <3>1, <3>2, <3>3, <3>4
  <2> QED
    BY <1>7, <1>10, <2>1, <2>2 DEF OnJoin
<1>11. CASE OnLeave(q)
  <2>1. q.type = "room:leave" /\ down' = down /\ seats' = [seats EXCEPT ![q.code] = @ \ {Me}]
    BY <1>11 DEF OnLeave
  <2>2. url = Home
    BY <1>1, <1>3, <1>4, <2>1, TailTyped DEF ViewInv, PageAsksForItself
  <2>3. /\ seats' \in [Code -> SUBSET (Person \cup {Me})]
        /\ \A c \in Code : IsFiniteSet(seats'[c])
    <3>1. \A c \in Code : seats'[c] \in SUBSET seats[c]
      BY <1>3, <2>1
    <3> QED
      BY <1>3, <2>1, <3>1, FS_Subset
  <2>4. ViewTypeOK'
    BY <1>3, <1>5, <2>1, <2>3
  <2> QED
    BY <1>1, <2>1, <2>2, <2>4, OtherHandled, HomeIsNoCode
<1>12. CASE OnPresence(q)
  <2>1. q.type = "presence:request" /\ seats' = seats
    BY <1>12 DEF OnPresence
  <2>2. q.code \in Code /\ q.live \in BOOLEAN
    BY <1>4, <2>1 DEF Requests
  <2>3. PICK m \in Messages : /\ down' = Append(down, m) /\ m.type \in GuardAnswer
                              /\ m.room.code = q.code
                              /\ m.type = "present" => Seated(q.code)
    <3>1. CASE Seated(q.code)
      <4>1. PICK r \in RoomState : r = Roster(q.code, seats[q.code]) /\ r.code = q.code
        BY <1>3, <2>2, RosterTyped
      <4>2. PICK m \in Messages : m = Message("present", Me, r, q.live)
                                  /\ m.type = "present" /\ m.room = r
        BY <2>2, MessageTyped DEF GuardAnswer
      <4>3. down' = Append(down, m)
        BY <1>12, <3>1, <4>1, <4>2 DEF OnPresence, Reply
      <4> QED
        BY <3>1, <4>1, <4>2, <4>3 DEF GuardAnswer
    <3>2. CASE ~Seated(q.code)
      <4>1. PICK r \in RoomState : r = Room(q.code, Nobody, 0) /\ r.code = q.code
        BY <2>2, BareRoom DEF Place
      <4>2. PICK m \in Messages : m = Message("absent", Me, r, q.live)
                                  /\ m.type = "absent" /\ m.room = r
        <5>1. "absent" \in GuardAnswer \cup RoomEvent
          BY DEF GuardAnswer
        <5> QED
          BY <2>2, <5>1, MessageTyped
      <4>3. down' = Append(down, m)
        BY <1>12, <3>2, <4>1, <4>2 DEF OnPresence, Reply
      <4> QED
        BY <4>1, <4>2, <4>3 DEF GuardAnswer
    <3> QED
      BY <3>1, <3>2
  <2>4. url # Home => q.code = url
    BY <1>1, <1>3, <1>4, TailTyped DEF ViewInv, PageAsksForItself
  <2>5. ViewTypeOK'
    BY <1>3, <1>5, <1>6, <2>1, <2>3
  <2> QED
    BY <1>1, <2>1, <2>3, <2>4, <2>5, OtherHandled
<1> QED
  BY <1>2, <1>9, <1>10, <1>11, <1>12

-----------------------------------------------------------------------------
LEMMA SetToSeqTyped ==
    ASSUME NEW S, IsFiniteSet(S)
    PROVE  SetToSeq(S) \in Seq(S)
<1>1. PICK n \in Nat : n = Cardinality(S) /\ ExistsBijection(1..n, S)
  BY FS_CardinalityType
<1>2. PICK f \in [1..n -> S] : IsInjective(f)
  BY <1>1 DEF ExistsBijection, Bijection, Injection, IsInjective
<1>3. SetToSeq(S) \in [1..n -> S]
  BY <1>1, <1>2 DEF SetToSeq
<1> QED
  BY <1>3

(* What the others do reaches the page as events, behind what was already  *)
(* on its way.                                                             *)
LEMMA BroadcastSends ==
    ASSUME ViewInv, NEW codes \in SUBSET Code, NEW type \in RoomEvent, NEW p \in Person,
           NEW volatile, Broadcast(codes, type, p, volatile),
           seats' \in [Code -> SUBSET (Person \cup {Me})], \A c \in Code : IsFiniteSet(seats'[c])
    PROVE  /\ down' \in Seq(Messages) /\ (link # "up" => down' = down)
           /\ \A i \in 1..Len(down') :
                 (i \in 1..Len(down) /\ down'[i] = down[i]) \/ down'[i].type = type
<1> USE DEF ViewInv
<1> DEFINE mine == SetToSeq({c \in codes : Seated(c)})
           news == [i \in DOMAIN mine |-> Event(type, p, Cardinality(seats'[mine[i]]))]
<1>1. mine \in Seq(Code)
  <2>1. IsFiniteSet({c \in codes : Seated(c)})
    BY ViewAssumption, FS_Subset
  <2> QED
    BY <2>1, SetToSeqTyped
<1>2. down' = down \/ (link = "up" /\ down' = down \o news)
  BY DEF Broadcast
<1> HIDE DEF mine
<1>3. \A i \in DOMAIN mine : /\ Event(type, p, Cardinality(seats'[mine[i]])) \in Messages
                             /\ Event(type, p, Cardinality(seats'[mine[i]])).type = type
  <2> SUFFICES ASSUME NEW i \in DOMAIN mine
               PROVE  /\ Event(type, p, Cardinality(seats'[mine[i]])) \in Messages
                      /\ Event(type, p, Cardinality(seats'[mine[i]])).type = type
    OBVIOUS
  <2>1. PICK n \in Nat : n = Cardinality(seats'[mine[i]])
    BY <1>1, FS_CardinalityType
  <2>2. PICK r \in RoomState : r = Room(Home, Nobody, n)
    BY BareRoom DEF Place
  <2>3. Event(type, p, n) = Message(type, p, r, FALSE)
    BY <2>2 DEF Event
  <2>4. p \in Person \cup {Me} /\ type \in GuardAnswer \cup RoomEvent
    OBVIOUS
  <2>5. Message(type, p, r, FALSE) \in Messages /\ Message(type, p, r, FALSE).type = type
    BY <2>4, MessageTyped
  <2> QED
    BY <2>1, <2>3, <2>5
<1>4. PICK e \in Seq(Messages) : e = news /\ \A i \in 1..Len(e) : e[i].type = type
  <2>1. DOMAIN mine = 1..Len(mine) /\ Len(mine) \in Nat
    BY <1>1
  <2>2. news \in [1..Len(mine) -> Messages]
    BY <1>3, <2>1
  <2>3. news \in Seq(Messages) /\ Len(news) = Len(mine)
    BY <2>1, <2>2
  <2>4. \A i \in 1..Len(news) : news[i].type = type
    BY <1>3, <2>1, <2>3
  <2> QED
    BY <2>3, <2>4
<1> HIDE DEF news
<1>5. down \in Seq(Messages) /\ up \in Seq(Requests) /\ url \in Place
  BY DEF ViewTypeOK
<1>6. PICK d \in Seq(Messages) : d = down' /\
          \A i \in 1..Len(d) : (i \in 1..Len(down) /\ d[i] = down[i]) \/ d[i].type = type
  <2>1. CASE down' = down
    BY <1>5, <2>1
  <2>2. CASE down' = down \o e
    <3>1. /\ down \o e \in Seq(Messages)
          /\ \A i \in 1..Len(down \o e) :
                \/ i \in 1..Len(down) /\ (down \o e)[i] = down[i]
                \/ \E j \in 1..Len(e) : (down \o e)[i] = e[j]
      BY <1>5, ConcatTyped
    <3>2. PICK d \in Seq(Messages) : d = down \o e
      BY <3>1
    <3>3. \A i \in 1..Len(d) : (i \in 1..Len(down) /\ d[i] = down[i]) \/ d[i].type = type
      BY <1>4, <3>1, <3>2
    <3> QED
      BY <2>2, <3>2, <3>3
  <2> QED
    BY <1>2, <1>4, <2>1, <2>2
<1> QED
  BY <1>2, <1>6

(* They change no room's code and none of Me's seats.                      *)
LEMMA BroadcastView ==
    ASSUME ViewInv, NEW codes \in SUBSET Code, NEW type \in RoomEvent, NEW p \in Person,
           NEW volatile, Broadcast(codes, type, p, volatile),
           seats' \in [Code -> SUBSET (Person \cup {Me})], \A c \in Code : IsFiniteSet(seats'[c]),
           \A c \in Code : Me \in seats'[c] <=> Me \in seats[c]
    PROVE  ViewInv'
<1> USE DEF ViewInv
<1>1. UNCHANGED <<link, up, url, room, form, evicted>>
  BY DEF Broadcast, pageVars
<1>2. link # "up" => down' = down
  BY BroadcastSends
<1>3. down \in Seq(Messages) /\ up \in Seq(Requests) /\ url \in Place
  BY DEF ViewTypeOK
<1>4. PICK d \in Seq(Messages) : d = down' /\
          \A i \in 1..Len(d) : (i \in 1..Len(down) /\ d[i] = down[i]) \/ d[i].type = type
  BY BroadcastSends
<1>5. type \notin FormAnswer \cup GuardAnswer
  BY DEF RoomEvent, FormAnswer, GuardAnswer
<1>6. \A c \in Place : Seated(c)' <=> Seated(c)
  BY DEF Seated, Place
<1>7. ViewTypeOK'
  BY <1>1, <1>4 DEF ViewTypeOK
<1>8. FormAsksLast'
  BY <1>1, <1>4, <1>5 DEF FormAsksLast
<1>9. FormHearsLast'
  <2> SUFFICES ASSUME NEW i \in 1..Len(d), d[i].type \in FormAnswer
               PROVE  /\ form' = "waiting" /\ up' = <<>>
                      /\ \A j \in 1..Len(d) : j > i => d[j].type \notin FormAnswer \cup GuardAnswer
                      /\ d[i].type # "refused" => Seated(d[i].room.code)'
    BY <1>4 DEF FormHearsLast
  <2>1. i \in 1..Len(down) /\ d[i] = down[i]
    BY <1>4, <1>5
  <2>2. /\ form = "waiting" /\ up = <<>>
        /\ \A j \in 1..Len(down) : j > i => down[j].type \notin FormAnswer \cup GuardAnswer
        /\ down[i].type # "refused" => Seated(down[i].room.code)
    BY <2>1 DEF FormHearsLast
  <2>3. d[i].room.code \in Place
    <3>1. d[i] \in Messages
      BY <1>4
    <3> QED
      BY <3>1 DEF Messages, RoomState
  <2> QED
    BY <1>1, <1>4, <1>5, <1>6, <2>1, <2>2, <2>3
<1>10. PageAsksForItself'
  BY <1>1, <1>3, <1>4, <1>5, <1>6 DEF PageAsksForItself
<1>11. FormAtHome' /\ ShownHasSeat'
  BY <1>1, <1>6 DEF FormAtHome, ShownHasSeat, Shown, Place
<1>12. BufferHoldsLeaves'
  BY <1>1, <1>2 DEF BufferHoldsLeaves
<1> QED
  BY <1>7, <1>8, <1>9, <1>10, <1>11, <1>12

LEMMA OthersView == ViewInv /\ OthersStep => ViewInv'
<1> SUFFICES ASSUME ViewInv, NEW p \in Person,
                    \/ \E c \in Code : PersonEnters(p, c) \/ PersonLeaves(p, c)
                    \/ PersonDrops(p) \/ PersonReturns(p) \/ PersonExpires(p)
             PROVE  ViewInv'
  BY DEF OthersStep
<1> USE DEF RoomEvent
<1>1. /\ seats \in [Code -> SUBSET (Person \cup {Me})]
      /\ \A c \in Code : IsFiniteSet(seats[c])
      /\ p # Me
  BY NamesApart DEF ViewInv, ViewTypeOK
<1>2. \A c \in Code : IsFiniteSet(seats[c] \cup {p}) /\ IsFiniteSet(seats[c] \ {p})
  BY <1>1, FS_AddElement, FS_Subset
<1>3. ASSUME NEW c \in Code, PersonEnters(p, c) PROVE ViewInv'
  <2>1. seats' = [seats EXCEPT ![c] = @ \cup {p}] /\ Broadcast({c}, "room:peer-joined", p, FALSE)
    BY <1>3 DEF PersonEnters
  <2> QED
    BY <1>1, <1>2, <2>1, BroadcastView
<1>4. ASSUME NEW c \in Code, PersonLeaves(p, c) PROVE ViewInv'
  <2>1. seats' = [seats EXCEPT ![c] = @ \ {p}] /\ Broadcast({c}, "room:peer-left", p, FALSE)
    BY <1>4 DEF PersonLeaves
  <2> QED
    BY <1>1, <1>2, <2>1, BroadcastView
<1>5. SeatsOf(p) \in SUBSET Code
  BY DEF SeatsOf
<1>6. CASE PersonDrops(p)
  <2>1. seats' = seats /\ Broadcast(SeatsOf(p), "room:peer-disconnected", p, TRUE)
    BY <1>6 DEF PersonDrops
  <2> QED
    BY <1>1, <1>5, <2>1, BroadcastView
<1>7. CASE PersonReturns(p)
  <2>1. seats' = seats /\ Broadcast(SeatsOf(p), "room:peer-reconnected", p, TRUE)
    BY <1>7 DEF PersonReturns
  <2> QED
    BY <1>1, <1>5, <2>1, BroadcastView
<1>8. CASE PersonExpires(p)
  <2>1. /\ seats' = [c \in Code |-> seats[c] \ {p}]
        /\ Broadcast(SeatsOf(p), "room:peer-left", p, FALSE)
    BY <1>8 DEF PersonExpires
  <2> QED
    BY <1>1, <1>2, <1>5, <2>1, BroadcastView
<1> QED
  BY <1>3, <1>4, <1>6, <1>7, <1>8

-----------------------------------------------------------------------------
(* What the page has of its session's id.                                  *)
LEMMA FirstStays ==
    ASSUME IdComesFirst, stored' = stored, link' = "up" => link = "up",
           room' \in {NoRoom, room}, evicted' = evicted,
           down # <<>> => down' # <<>> /\ down'[1].type = down[1].type
    PROVE  IdComesFirst'
BY DEF IdComesFirst

LEMMA InitId == Init => IdComesFirst
BY DEF Init, IdComesFirst

LEMMA ConnectId == ViewInv /\ IdComesFirst /\ Connect => IdComesFirst'
<1> SUFFICES ASSUME ViewInv, IdComesFirst, Connect PROVE IdComesFirst'
  OBVIOUS
<1>1. stored' = stored /\ room' = room /\ evicted' = evicted /\ down' = AllIgnored(<<SessionCreated>>)
  BY DEF Connect, GuardRuns, ghostVars
<1>2. AllIgnored(<<SessionCreated>>) = <<Ignored(SessionCreated)>>
  BY DEF AllIgnored
<1>3. Ignored(SessionCreated).type = "session:created"
  BY DEF Ignored, SessionCreated, Answer, Message
<1>4. down' # <<>> /\ down'[1].type = "session:created"
  BY <1>1, <1>2, <1>3
<1> QED
  BY <1>1, <1>4 DEF IdComesFirst

LEMMA GoBackId == ViewInv /\ IdComesFirst /\ GoBack => IdComesFirst'
<1> SUFFICES ASSUME ViewInv, IdComesFirst, GoBack PROVE IdComesFirst'
  OBVIOUS
<1>1. /\ stored' = stored /\ room' = room /\ evicted' = evicted /\ link' = link
      /\ down' = AllIgnored(down)
  BY DEF GoBack, GuardRuns, ghostVars
<1>2. down \in Seq(Messages)
  BY DEF ViewInv, ViewTypeOK
<1>3. PICK d \in Seq(Messages) : d = AllIgnored(down) /\ Len(d) = Len(down)
                                 /\ \A i \in 1..Len(down) : d[i].type = down[i].type
  BY <1>2, IgnoredQueue
<1>4. down # <<>> => d # <<>> /\ d[1].type = down[1].type
  BY <1>2, <1>3
<1> QED
  BY <1>1, <1>3, <1>4, FirstStays

LEMMA ReceiveId == ViewInv /\ IdComesFirst /\ Receive => IdComesFirst'
<1> SUFFICES ASSUME ViewInv, IdComesFirst, Receive PROVE stored'
  BY DEF IdComesFirst
<1>1. down # <<>> /\ stored' = (stored \/ Head(down).type = "session:created")
  BY DEF Receive
<1>2. link = "up"
  BY <1>1 DEF ViewInv, BufferHoldsLeaves
<1>3. Head(down) = down[1]
  BY <1>1 DEF ViewInv, ViewTypeOK
<1> QED
  BY <1>1, <1>2, <1>3 DEF IdComesFirst

LEMMA HandleId == ViewInv /\ IdComesFirst /\ Handle => IdComesFirst'
<1> SUFFICES ASSUME ViewInv, IdComesFirst, Handle PROVE IdComesFirst'
  OBVIOUS
<1>1. UNCHANGED <<stored, link, room, evicted>>
  BY DEF Handle, pageVars
<1>2. down' = down \/ \E m : down' = Append(down, m)
  BY DEF Handle, OnCreate, OnJoin, OnLeave, OnPresence, Reply
<1>3. down \in Seq(Messages)
  BY DEF ViewInv, ViewTypeOK
<1>4. ASSUME NEW m, down' = Append(down, m)
      PROVE  down # <<>> => down' # <<>> /\ down'[1] = down[1]
  BY <1>3, <1>4
<1>5. down # <<>> => down' # <<>> /\ down'[1].type = down[1].type
  BY <1>2, <1>4
<1> QED
  BY <1>1, <1>5, FirstStays

LEMMA OthersId == ViewInv /\ IdComesFirst /\ OthersStep => IdComesFirst'
<1> SUFFICES ASSUME ViewInv, IdComesFirst, NEW codes, NEW type, NEW p, NEW volatile,
                    Broadcast(codes, type, p, volatile)
             PROVE  IdComesFirst'
  BY DEF OthersStep, PersonEnters, PersonLeaves, PersonDrops, PersonReturns, PersonExpires
<1> DEFINE mine == SetToSeq({c \in codes : Seated(c)})
           news == [i \in DOMAIN mine |-> Event(type, p, Cardinality(seats'[mine[i]]))]
<1>1. UNCHANGED <<stored, link, room, evicted>> /\ (down' = down \/ down' = down \o news)
  BY DEF Broadcast, pageVars
<1>2. down \in Seq(Messages)
  BY DEF ViewInv, ViewTypeOK
<1> HIDE DEF news
<1> QED
  BY <1>1, <1>2, FirstStays

LEMMA IdStep == ViewInv /\ IdComesFirst /\ [Next]_vars => IdComesFirst'
<1> SUFFICES ASSUME ViewInv, IdComesFirst, [Next]_vars PROVE IdComesFirst'
  OBVIOUS
<1>1. ASSUME NEW type, NEW c, Submit(type, c) PROVE IdComesFirst'
  BY <1>1, FirstStays DEF Submit, ghostVars
<1>2. ASSUME Leave PROVE IdComesFirst'
  BY <1>2, FirstStays DEF Leave
<1>3. ASSUME NEW u, LoadPage(u) PROVE IdComesFirst'
  BY <1>3 DEF LoadPage, IdComesFirst
<1>4. ASSUME Drop PROVE IdComesFirst'
  BY <1>4, SeveredPage DEF Drop, IdComesFirst
<1>5. ASSUME Expire \/ Restart PROVE IdComesFirst'
  <2>1. link' # "up"
    BY <1>5, SeveredPage DEF Expire, Restart, wireVars
  <2>2. evicted' \/ room' = NoRoom
    BY <1>5, SeveredPage DEF Expire, Restart
  <2> QED
    BY <2>1, <2>2 DEF IdComesFirst
<1>6. ASSUME Throttled \/ NoticeDrop \/ ConnectDenied \/ UNCHANGED vars PROVE IdComesFirst'
  BY <1>6, FirstStays DEF Throttled, NoticeDrop, ConnectDenied, vars, serverVars, wireVars,
      pageVars, ghostVars
<1> QED
  BY <1>1, <1>2, <1>3, <1>4, <1>5, <1>6, ConnectId, GoBackId, ReceiveId, HandleId, OthersId
  DEF Next, UserStep, ServerStep

-----------------------------------------------------------------------------
(* The invariant is inductive.                                             *)
THEOREM ViewInvInductive ==
    /\ Init => ViewInv /\ IdComesFirst
    /\ ViewInv /\ IdComesFirst /\ [Next]_vars => ViewInv' /\ IdComesFirst'
<1>1. ASSUME ViewInv, UserStep PROVE ViewInv'
  <2>1. ASSUME Submit("room:create", Home) PROVE ViewInv'
    BY <1>1, <2>1, SubmitView DEF FormRequest, Place
  <2>2. ASSUME NEW c \in Code, Submit("room:join", c) PROVE ViewInv'
    BY <1>1, <2>2, SubmitView DEF FormRequest, Place
  <2>3. ASSUME NEW u \in Code \cup {Home}, LoadPage(u) PROVE ViewInv'
    BY <1>1, <2>3, LoadPageView DEF Place
  <2> QED
    BY <1>1, <2>1, <2>2, <2>3, LeaveView, GoBackView DEF UserStep
<1>2. ViewInv /\ ServerStep => ViewInv'
  BY HandleView, ThrottledView, NoticeDropView, EndView DEF ServerStep
<1>3. ViewInv /\ IdComesFirst /\ Next => ViewInv'
  BY <1>1, <1>2, OthersView, ConnectView, ConnectDeniedView, DropView, ReceiveView DEF Next
<1>4. ASSUME ViewInv, UNCHANGED vars PROVE ViewInv'
  BY <1>4 DEF ViewInv, ViewTypeOK, FormAsksLast, FormHearsLast, FormAtHome, PageAsksForItself,
      BufferHoldsLeaves, ShownHasSeat, Shown, Seated, vars, serverVars, wireVars, pageVars, ghostVars
<1> QED
  BY <1>3, <1>4, InitView, InitId, IdStep

(* Whatever drops, page loads, restarts and throttled events come between, *)
(* a page shows a room only to somebody with a seat, or whose session was  *)
(* destroyed while it was shown (the guard of room-guard.tsx, the context).*)
THEOREM ShownAlwaysHasSeat == Spec => []ShownHasSeat
<1>1. ViewInv => ShownHasSeat
  BY DEF ViewInv
<1> QED
  BY <1>1, ViewInvInductive, PTL DEF Spec

-----------------------------------------------------------------------------
(* Induction over the natural numbers, from the least counterexample.      *)
LEMMA Induction ==
    ASSUME NEW T \in SUBSET Nat, 0 \in T, \A n \in T : n + 1 \in T
    PROVE  T = Nat
<1> SUFFICES ASSUME Nat \ T # {} PROVE FALSE
  OBVIOUS
<1>1. OpToRel(<, Nat) = {ss \in Nat \X Nat : ss[1] < ss[2]}
  BY Zenon DEF OpToRel
<1>2. IsWellFoundedOn({ss \in Nat \X Nat : ss[1] < ss[2]}, Nat)
  BY <1>1, NatLessThanWellFounded, Zenon
<1>3. PICK x \in Nat \ T :
         \A y \in Nat \ T : <<y, x>> \notin {ss \in Nat \X Nat : ss[1] < ss[2]}
  BY <1>2, WFMin, Zenon
<1>4. \A y \in Nat \ T : ~(y < x)
  BY <1>3
<1>5. x # 0 /\ x - 1 \in Nat
  BY <1>3
<1>6. x - 1 \in T
  BY <1>4, <1>5
<1> QED
  BY <1>5, <1>6

LEMMA MaxOf ==
    ASSUME NEW n \in Nat, NEW s \in SUBSET (1..n), n \in s
    PROVE  Max(s) = n
<1>1. n \in s /\ \A y \in s : n >= y
  OBVIOUS
<1>2. Max(s) \in s /\ Max(s) >= n
  BY <1>1 DEF Max
<1>3. PICK m \in 1..n : m = Max(s) /\ m >= n
  BY <1>2
<1> QED
  BY <1>3

(* The recursive function in the definition of a fold of After over q.     *)
Folds(iter, r, q, n) ==
    iter = [s \in SUBSET (1..n) |->
              IF s = {} THEN r ELSE After(iter[s \ {Max(s)}], q[Max(s)])]

(* The rooms between the messages q, from r on.                            *)
IsTrace(f, r, q) == f[0] = r /\ \A i \in 1..Len(q) : f[i] = After(f[i - 1], q[i])

LEMMA FoldsExist ==
    ASSUME NEW q, NEW r, NEW n \in Nat
    PROVE  \E iter : Folds(iter, r, q, n)
<1> DEFINE T == {k \in Nat : \E iter : Folds(iter, r, q, k)}
<1>1. 0 \in T
  <2>1. SUBSET (1..0) = {{}}
    OBVIOUS
  <2>2. Folds([s \in SUBSET (1..0) |-> r], r, q, 0)
    BY <2>1 DEF Folds
  <2> QED
    BY <2>2
<1>2. ASSUME NEW k \in T PROVE k + 1 \in T
  <2>1. PICK f : Folds(f, r, q, k)
    OBVIOUS
  <2> DEFINE g == [s \in SUBSET (1..(k + 1)) |->
                     IF k + 1 \in s THEN After(f[s \ {k + 1}], q[k + 1]) ELSE f[s]]
  <2>2. ASSUME NEW s \in SUBSET (1..(k + 1))
        PROVE  g[s] = IF s = {} THEN r ELSE After(g[s \ {Max(s)}], q[Max(s)])
    <3>1. CASE k + 1 \in s
      <4>1. Max(s) = k + 1
        BY <3>1, MaxOf
      <4>2. s \ {k + 1} \in SUBSET (1..(k + 1)) /\ k + 1 \notin s \ {k + 1}
        OBVIOUS
      <4>3. g[s \ {k + 1}] = f[s \ {k + 1}]
        BY <4>2
      <4>4. g[s] = After(f[s \ {k + 1}], q[k + 1])
        BY <3>1
      <4> HIDE DEF g
      <4> QED
        BY <3>1, <4>1, <4>3, <4>4
    <3>2. CASE k + 1 \notin s
      <4>1. \A x : s \ {x} \in SUBSET (1..(k + 1)) /\ k + 1 \notin s \ {x}
        BY <3>2
      <4>2. s \in SUBSET (1..k)
        BY <3>2
      <4>3. g[s] = f[s] /\ g[s \ {Max(s)}] = f[s \ {Max(s)}]
        BY <3>2, <4>1, <4>2
      <4>4. f[s] = IF s = {} THEN r ELSE After(f[s \ {Max(s)}], q[Max(s)])
        BY <2>1, <4>2 DEF Folds
      <4> HIDE DEF g
      <4> QED
        BY <4>3, <4>4
    <3> QED
      BY <3>1, <3>2
  <2>3. g = [s \in SUBSET (1..(k + 1)) |-> g[s]]
    OBVIOUS
  <2> HIDE DEF g
  <2>4. Folds(g, r, q, k + 1)
    BY <2>2, <2>3 DEF Folds
  <2> QED
    BY <2>4
<1> HIDE DEF T
<1>3. T = Nat
  BY <1>1, <1>2, Induction DEF T
<1> QED
  BY <1>3 DEF T

LEMMA FoldOf ==
    ASSUME NEW q, NEW r, NEW n \in Nat, DOMAIN q = 1..n
    PROVE  \E iter : Folds(iter, r, q, n) /\ FoldLeft(After, r, q) = iter[1..n]
<1> DEFINE iter == CHOOSE f : Folds(f, r, q, n)
<1>1. Folds(iter, r, q, n)
  BY FoldsExist, Zenon
<1>2. FoldLeft(After, r, q) = iter[1..n]
  BY DEF FoldLeft, MapThenFoldSet, Folds
<1> QED
  BY <1>1, <1>2

(* The fold is where any such sequence of rooms ends, and there is one.    *)
LEMMA FoldTrace ==
    ASSUME NEW q \in Seq(Messages), NEW r
    PROVE  /\ \E f : IsTrace(f, r, q)
           /\ \A f : IsTrace(f, r, q) => FoldLeft(After, r, q) = f[Len(q)]
<1>1. PICK n \in Nat : n = Len(q) /\ DOMAIN q = 1..n
  OBVIOUS
<1>2. PICK iter : Folds(iter, r, q, n) /\ FoldLeft(After, r, q) = iter[1..n]
  BY <1>1, FoldOf
<1>3. iter[{}] = r
  BY <1>2 DEF Folds
<1>4. ASSUME NEW k \in 1..n PROVE iter[1..k] = After(iter[1..(k - 1)], q[k])
  <2>1. 1..k \in SUBSET (1..n) /\ k \in 1..k /\ (1..k) \ {k} = 1..(k - 1)
    OBVIOUS
  <2>2. Max(1..k) = k
    BY <2>1, MaxOf
  <2> QED
    BY <1>2, <2>1, <2>2 DEF Folds
<1>5. 1..0 = {}
  OBVIOUS
<1>6. IsTrace([i \in 0..n |-> iter[1..i]], r, q)
  BY <1>1, <1>3, <1>4, <1>5 DEF IsTrace
<1>7. ASSUME NEW f, IsTrace(f, r, q) PROVE iter[1..n] = f[n]
  <2> DEFINE T == {k \in Nat : k <= n => iter[1..k] = f[k]}
  <2>1. 0 \in T
    BY <1>3, <1>5, <1>7 DEF IsTrace
  <2>2. ASSUME NEW k \in T PROVE k + 1 \in T
    <3>1. CASE k + 1 <= n
      <4>1. k + 1 \in 1..n /\ (k + 1) - 1 = k /\ k <= n
        BY <3>1
      <4>2. f[k + 1] = After(f[k], q[k + 1])
        BY <1>1, <1>7, <4>1 DEF IsTrace
      <4>3. iter[1..(k + 1)] = After(iter[1..k], q[k + 1])
        BY <1>4, <4>1
      <4>4. iter[1..k] = f[k]
        BY <4>1
      <4> QED
        BY <4>2, <4>3, <4>4
    <3> QED
      BY <3>1
  <2> HIDE DEF T
  <2>3. T = Nat
    BY <2>1, <2>2, Induction DEF T
  <2> QED
    BY <2>3 DEF T
<1> QED
  BY <1>1, <1>2, <1>6, <1>7

-----------------------------------------------------------------------------
(* What the page will believe, as messages come and arrive.                *)
Believed(r, q) == FoldLeft(After, r, q)

LEMMA BelievedNow ==
    ASSUME NEW r
    PROVE  Believed(r, <<>>) = r
<1>1. <<>> \in Seq(Messages) /\ Len(<<>>) = 0
  OBVIOUS
<1>2. IsTrace([i \in 0..0 |-> r], r, <<>>)
  BY DEF IsTrace
<1> QED
  BY <1>1, <1>2, FoldTrace DEF Believed

LEMMA BelievedLater ==
    ASSUME NEW r, NEW q \in Seq(Messages), NEW m \in Messages
    PROVE  Believed(r, Append(q, m)) = After(Believed(r, q), m)
<1>1. PICK f : IsTrace(f, r, q) /\ Believed(r, q) = f[Len(q)]
  BY FoldTrace DEF Believed
<1> DEFINE g == [i \in 0..(Len(q) + 1) |-> IF i <= Len(q) THEN f[i] ELSE After(f[Len(q)], m)]
<1>2. /\ Append(q, m) \in Seq(Messages) /\ Len(Append(q, m)) = Len(q) + 1
      /\ Append(q, m)[Len(q) + 1] = m /\ \A i \in 1..Len(q) : Append(q, m)[i] = q[i]
      /\ Len(q) \in Nat
  BY AppendTyped
<1>3. /\ g[0] = f[0] /\ g[Len(q) + 1] = After(f[Len(q)], m) /\ g[Len(q)] = f[Len(q)]
      /\ \A i \in 1..Len(q) : g[i] = f[i] /\ g[i - 1] = f[i - 1]
  BY <1>2
<1> HIDE DEF g
<1>4. \A i \in 1..(Len(q) + 1) : i \in 1..Len(q) \/ (i = Len(q) + 1 /\ i - 1 = Len(q))
  BY <1>2
<1>5. f[0] = r /\ \A i \in 1..Len(q) : f[i] = After(f[i - 1], q[i])
  BY <1>1 DEF IsTrace
<1>6. \A i \in 1..(Len(q) + 1) : g[i] = After(g[i - 1], Append(q, m)[i])
  <2> SUFFICES ASSUME NEW i \in 1..(Len(q) + 1)
               PROVE  g[i] = After(g[i - 1], Append(q, m)[i])
    OBVIOUS
  <2>1. CASE i \in 1..Len(q)
    BY <1>2, <1>3, <1>5, <2>1
  <2>2. CASE i = Len(q) + 1 /\ i - 1 = Len(q)
    BY <1>2, <1>3, <2>2
  <2> QED
    BY <1>4, <2>1, <2>2
<1>7. IsTrace(g, r, Append(q, m))
  BY <1>2, <1>3, <1>5, <1>6 DEF IsTrace
<1>8. Believed(r, Append(q, m)) = g[Len(q) + 1]
  BY <1>2, <1>7, FoldTrace DEF Believed
<1> QED
  BY <1>1, <1>3, <1>8

(* The first message arrives; from there on the effect may be cancelled.   *)
LEMMA BelievedSame ==
    ASSUME NEW r, NEW q \in Seq(Messages), q # <<>>, NEW t \in Seq(Messages),
           Len(t) = Len(q) - 1,
           \A s : \A i \in 1..Len(t) : After(s, t[i]) = After(s, q[i + 1])
    PROVE  Believed(After(r, q[1]), t) = Believed(r, q)
<1>1. PICK f : IsTrace(f, r, q) /\ Believed(r, q) = f[Len(q)]
  BY FoldTrace DEF Believed
<1> DEFINE g == [i \in 0..Len(t) |-> f[i + 1]]
<1>2. Len(q) \in Nat /\ Len(t) \in Nat /\ 1 \in 1..Len(q) /\ Len(t) + 1 = Len(q)
  OBVIOUS
<1>3. \A i \in 1..Len(t) : g[i] = f[i + 1] /\ g[i - 1] = f[i] /\ i + 1 \in 1..Len(q)
                           /\ (i + 1) - 1 = i
  BY <1>2
<1>4. g[0] = f[1] /\ g[Len(t)] = f[Len(q)] /\ 1 - 1 = 0
  BY <1>2
<1> HIDE DEF g
<1>5. f[1] = After(r, q[1])
  BY <1>1, <1>2, <1>4 DEF IsTrace
<1>6. ASSUME NEW i \in 1..Len(t) PROVE g[i] = After(g[i - 1], t[i])
  <2>1. f[i + 1] = After(f[i], q[i + 1])
    BY <1>1, <1>3 DEF IsTrace
  <2>2. After(f[i], t[i]) = After(f[i], q[i + 1])
    OBVIOUS
  <2> QED
    BY <1>3, <2>1, <2>2
<1>7. IsTrace(g, After(r, q[1]), t)
  BY <1>4, <1>5, <1>6 DEF IsTrace
<1> QED
  BY <1>1, <1>4, <1>7, FoldTrace DEF Believed

(* Messages that change nothing.                                           *)
LEMMA BelievedIdle ==
    ASSUME NEW r, NEW q \in Seq(Messages), \A i \in 1..Len(q) : After(r, q[i]) = r
    PROVE  Believed(r, q) = r
<1>1. Len(q) \in Nat
  OBVIOUS
<1>2. IsTrace([i \in 0..Len(q) |-> r], r, q)
  BY <1>1 DEF IsTrace
<1> QED
  BY <1>1, <1>2, FoldTrace DEF Believed

(* An induction over the messages.                                         *)
LEMMA BelievedStays ==
    ASSUME NEW S, NEW r \in S, NEW q \in Seq(Messages),
           \A s \in S : \A i \in 1..Len(q) : After(s, q[i]) \in S
    PROVE  Believed(r, q) \in S
<1>1. PICK f : IsTrace(f, r, q) /\ Believed(r, q) = f[Len(q)]
  BY FoldTrace DEF Believed
<1>2. Len(q) \in Nat
  OBVIOUS
<1> DEFINE T == {k \in Nat : k <= Len(q) => f[k] \in S}
<1>3. 0 \in T
  BY <1>1 DEF IsTrace
<1>4. ASSUME NEW k \in T PROVE k + 1 \in T
  <2>1. k + 1 <= Len(q) => k + 1 \in 1..Len(q) /\ (k + 1) - 1 = k /\ k <= Len(q)
    BY <1>2
  <2> QED
    BY <1>1, <2>1 DEF IsTrace
<1> HIDE DEF T
<1>5. T = Nat
  BY <1>3, <1>4, Induction DEF T
<1> QED
  BY <1>1, <1>2, <1>5 DEF T

(* A page that forgets its room will believe nothing, or what it would     *)
(* have believed anyhow, after the next roster.                            *)
LEMMA BelievedAfresh ==
    ASSUME NEW r \in RoomState, NEW q \in Seq(Messages)
    PROVE  Believed(NoRoom, q) \in {NoRoom, Believed(r, q)}
<1>1. PICK f : IsTrace(f, r, q) /\ Believed(r, q) = f[Len(q)]
  BY FoldTrace DEF Believed
<1>2. PICK g : IsTrace(g, NoRoom, q) /\ Believed(NoRoom, q) = g[Len(q)]
  BY FoldTrace DEF Believed
<1>3. Len(q) \in Nat
  OBVIOUS
<1>4. ASSUME NEW e \in Messages, NEW s
      PROVE  After(NoRoom, e) \in {NoRoom, After(s, e)}
  <2>1. CASE e.type \in {"created", "joined", "present"}
    BY <2>1 DEF After
  <2>2. CASE e.type \notin {"created", "joined", "present"}
    BY <2>2 DEF After, Unrestored
  <2> QED
    BY <2>1, <2>2
<1> DEFINE T == {k \in Nat : k <= Len(q) => g[k] \in {NoRoom, f[k]}}
<1>5. 0 \in T
  BY <1>2 DEF IsTrace
<1>6. ASSUME NEW k \in T PROVE k + 1 \in T
  <2>1. CASE k + 1 <= Len(q)
    <3>1. k + 1 \in 1..Len(q) /\ (k + 1) - 1 = k /\ k <= Len(q) /\ q[k + 1] \in Messages
      BY <1>3, <2>1
    <3>2. f[k + 1] = After(f[k], q[k + 1]) /\ g[k + 1] = After(g[k], q[k + 1])
      BY <1>1, <1>2, <3>1 DEF IsTrace
    <3>3. g[k] = NoRoom \/ g[k] = f[k]
      BY <3>1
    <3> QED
      BY <1>4, <3>1, <3>2, <3>3
  <2> QED
    BY <2>1
<1> HIDE DEF T
<1>7. T = Nat
  BY <1>5, <1>6, Induction DEF T
<1> QED
  BY <1>1, <1>2, <1>3, <1>7 DEF T

-----------------------------------------------------------------------------
(* The page's room is the server's.                                        *)
Rosters == {"created", "joined", "present"}

(* While a room:leave is on its way, everything that the page believes, is *)
(* told and asks the server is about the room that it left.                *)
LeavesOwnRoom ==
    \A i \in 1..Len(up) : up[i].type = "room:leave" =>
        /\ room.code \in {Home, up[i].code}
        /\ \A j \in 1..Len(up) : up[j].type = "presence:request" => up[j].code = up[i].code
        /\ \A j \in 1..Len(down) : down[j].type \in Rosters => down[j].room.code = up[i].code

ArrivalInv == ViewInv /\ LeavesOwnRoom /\ ViewMatches

OthersKnown == others \in [Person -> {"online", "away", "gone"}]

WholeInv == ArrivalInv /\ OthersKnown /\ IdComesFirst

LEMMA AfterSame ==
    ASSUME NEW e, NEW m, m.type = e.type, m.who = e.who, m.room = e.room
    PROVE  \A s : After(s, m) = After(s, e)
<1> SUFFICES ASSUME NEW s PROVE After(s, m) = After(s, e)
  OBVIOUS
<1>1. /\ Unrestored(s, m) = Unrestored(s, e) /\ Entered(s, m) = Entered(s, e)
      /\ Left(s, m) = Left(s, e) /\ \A flag : Marked(s, m, flag) = Marked(s, e, flag)
  BY DEF Unrestored, Entered, Left, Marked
<1> QED
  BY <1>1 DEF After

(* The guard's cancelled effect does not change what the page will believe.*)
LEMMA IgnoredAlike ==
    ASSUME NEW q \in Seq(Messages)
    PROVE  /\ AllIgnored(q) \in Seq(Messages) /\ Len(AllIgnored(q)) = Len(q)
           /\ \A i \in 1..Len(q) : \A s : After(s, AllIgnored(q)[i]) = After(s, q[i])
<1>1. AllIgnored(q) \in Seq(Messages) /\ Len(AllIgnored(q)) = Len(q)
  BY IgnoredQueue
<1>2. ASSUME NEW i \in 1..Len(q) PROVE \A s : After(s, AllIgnored(q)[i]) = After(s, q[i])
  <2>1. AllIgnored(q)[i] = Ignored(q[i])
    BY DEF AllIgnored
  <2>2. /\ Ignored(q[i]).type = q[i].type /\ Ignored(q[i]).who = q[i].who
        /\ Ignored(q[i]).room = q[i].room
    BY DEF Ignored, Message
  <2> HIDE DEF Ignored
  <2> QED
    BY <2>1, <2>2, AfterSame
<1> QED
  BY <1>1, <1>2

LEMMA BelievedIgnored ==
    ASSUME NEW r, NEW q \in Seq(Messages)
    PROVE  Believed(r, AllIgnored(q)) = Believed(r, q)
<1>1. PICK t \in Seq(Messages) : /\ t = AllIgnored(q) /\ Len(t) = Len(q)
                                 /\ \A i \in 1..Len(q) : \A s : After(s, t[i]) = After(s, q[i])
  BY IgnoredAlike
<1>2. PICK f : IsTrace(f, r, q) /\ Believed(r, q) = f[Len(q)]
  BY FoldTrace DEF Believed
<1>3. IsTrace(f, r, t)
  BY <1>1, <1>2 DEF IsTrace
<1> QED
  BY <1>1, <1>2, <1>3, FoldTrace DEF Believed

LEMMA SettledTyped ==
    ASSUME ViewTypeOK
    PROVE  Settled = Believed(room, down) /\ Settled \in RoomState
<1>1. room \in RoomState /\ down \in Seq(Messages) /\ \A i \in 1..Len(down) : down[i] \in Messages
  BY DEF ViewTypeOK
<1>2. Settled = Believed(room, down)
  BY DEF Settled, Believed
<1>3. \A s \in RoomState : \A i \in 1..Len(down) : After(s, down[i]) \in RoomState
  BY <1>1, AfterTyped
<1>4. Believed(room, down) \in RoomState
  BY <1>1, <1>3, BelievedStays
<1> QED
  BY <1>2, <1>4

-----------------------------------------------------------------------------
(* Steps that change nothing about either side.                            *)
LEMMA MatchesStill ==
    ASSUME ViewMatches, Settled' \in {Settled, NoRoom}, missed => missed',
           seats' = seats, others' = others
    PROVE  ViewMatches'
<1>1. NoRoom.code \notin Code
  BY HomeIsNoCode DEF NoRoom
<1> QED
  BY <1>1 DEF ViewMatches, SeatsOf, Roster

LEMMA NobodySeated ==
    ASSUME \A c \in Code : Me \notin seats'[c]
    PROVE  ViewMatches'
<1>1. SeatsOf(Me)' = {}
  BY DEF SeatsOf
<1> QED
  BY <1>1 DEF ViewMatches

LEMMA NoneLeaves ==
    ASSUME \A i \in 1..Len(up') : up'[i].type # "room:leave"
    PROVE  LeavesOwnRoom'
BY DEF LeavesOwnRoom

LEMMA LeavesStill ==
    ASSUME LeavesOwnRoom,
           \/ room'.code \in {Home, room.code}
           \/ \E j \in 1..Len(down) : down[j].type \in Rosters /\ down[j].room.code = room'.code,
           \A i \in 1..Len(up') :
              \/ up'[i].type \notin {"room:leave", "presence:request"}
              \/ \E j \in 1..Len(up) : up'[i].type = up[j].type /\ up'[i].code = up[j].code,
           \A i \in 1..Len(down') :
              \/ down'[i].type \notin Rosters
              \/ \E j \in 1..Len(down) : down'[i].type = down[j].type /\ down'[i].room = down[j].room
    PROVE  LeavesOwnRoom'
<1> SUFFICES ASSUME NEW i \in 1..Len(up'), up'[i].type = "room:leave"
             PROVE  /\ room'.code \in {Home, up'[i].code}
                    /\ \A j \in 1..Len(up') :
                          up'[j].type = "presence:request" => up'[j].code = up'[i].code
                    /\ \A j \in 1..Len(down') :
                          down'[j].type \in Rosters => down'[j].room.code = up'[i].code
  BY DEF LeavesOwnRoom
<1>1. PICK k \in 1..Len(up) : up[k].type = "room:leave" /\ up[k].code = up'[i].code
  OBVIOUS
<1>2. /\ room.code \in {Home, up[k].code}
      /\ \A j \in 1..Len(up) : up[j].type = "presence:request" => up[j].code = up[k].code
      /\ \A j \in 1..Len(down) : down[j].type \in Rosters => down[j].room.code = up[k].code
  BY <1>1 DEF LeavesOwnRoom
<1>3. ASSUME NEW j \in 1..Len(up'), up'[j].type = "presence:request"
      PROVE  up'[j].code = up'[i].code
  BY <1>1, <1>2, <1>3
<1>4. ASSUME NEW j \in 1..Len(down'), down'[j].type \in Rosters
      PROVE  down'[j].room.code = up'[i].code
  <2>1. PICK l \in 1..Len(down) : down'[j].type = down[l].type /\ down'[j].room = down[l].room
    BY <1>4
  <2> QED
    BY <1>1, <1>2, <1>4, <2>1
<1> QED
  BY <1>1, <1>2, <1>3, <1>4

(* Nobody leaves a room from its page but by the button.                   *)
LEMMA PageHasNotLeft ==
    ASSUME ViewInv, url # Home
    PROVE  \A i \in 1..Len(up) : up[i].type # "room:leave"
BY DEF ViewInv, PageAsksForItself

LEMMA InitArrival == Init => ArrivalInv
<1> SUFFICES ASSUME Init PROVE ArrivalInv
  OBVIOUS
<1>1. ViewInv
  BY InitView
<1>2. Len(up) = 0 /\ \A c \in Code : Me \notin seats[c]
  BY DEF Init
<1>3. LeavesOwnRoom
  BY <1>2 DEF LeavesOwnRoom
<1>4. SeatsOf(Me) = {}
  BY <1>2 DEF SeatsOf
<1> QED
  BY <1>1, <1>3, <1>4 DEF ArrivalInv, ViewMatches

(* The wire.                                                               *)
LEMMA ConnectArrival ==
    ASSUME ArrivalInv, Connect, ViewInv'
    PROVE  ArrivalInv'
<1> DEFINE coming == <<SessionCreated>>
<1>1. coming \in Seq(Messages) /\ Len(coming) = 1 /\ coming[1] = SessionCreated
      /\ SessionCreated.type = "session:created"
  BY DEF SessionCreated, Answer, Message, Messages, NoRoom, RoomState, List, Nobody, Place
<1>2. GuardRuns(up, coming)
  BY DEF Connect
<1> HIDE DEF coming
<1>3. UNCHANGED <<url, room, seats, others, missed>> /\ link # "up"
  BY DEF Connect, ghostVars
<1>4. up \in Seq(Requests) /\ url' \in Place /\ down = <<>>
  BY <1>3 DEF ArrivalInv, ViewInv, ViewTypeOK, BufferHoldsLeaves
<1>5. Settled = room
  <2>1. Settled = Believed(room, <<>>)
    BY <1>4, SettledTyped DEF ArrivalInv, ViewInv
  <2> QED
    BY <2>1, BelievedNow
<1>6. \A s : After(s, SessionCreated) = s
  BY <1>1 DEF After
<1>7. PICK d \in Seq(Messages) : /\ d = down' /\ d = AllIgnored(coming) /\ Len(d) = 1
                                 /\ d[1].type = "session:created"
  <2>1. down' = AllIgnored(coming)
    BY <1>2 DEF GuardRuns
  <2>2. /\ down' \in Seq(Messages) /\ Len(down') = 1
        /\ down'[1].type = coming[1].type
    BY <1>1, <1>2, <1>4, GuardSends
  <2> QED
    BY <1>1, <2>1, <2>2
<1>8. Settled' = room
  <2>1. Settled' = Believed(room, AllIgnored(coming))
    BY <1>3, <1>7, SettledTyped DEF Settled, Believed
  <2>2. Believed(room, coming) = room
    BY <1>1, <1>6, BelievedIdle
  <2> QED
    BY <1>1, <2>1, <2>2, BelievedIgnored
<1>9. ViewMatches'
  BY <1>3, <1>5, <1>8, MatchesStill DEF ArrivalInv
<1>10. PICK u \in Seq(Requests) : u = up'
  BY <1>1, <1>2, <1>4, GuardSends
<1>11. /\ \A i \in 1..Len(up) : u[i].type = up[i].type /\ u[i].code = up[i].code
       /\ \A i \in 1..Len(u) : i \in 1..Len(up) \/ (url # Home /\ u[i].type = "presence:request")
  BY <1>1, <1>2, <1>3, <1>4, <1>10, GuardSends
<1>12. LeavesOwnRoom'
  <2>1. CASE url = Home
    BY <1>3, <1>7, <1>10, <1>11, <2>1, LeavesStill DEF ArrivalInv, Rosters
  <2>2. CASE url # Home
    <3>1. \A i \in 1..Len(up) : up[i].type # "room:leave"
      BY <2>2, PageHasNotLeft DEF ArrivalInv
    <3> QED
      BY <1>10, <1>11, <3>1, NoneLeaves
  <2> QED
    BY <2>1, <2>2
<1> QED
  BY <1>9, <1>12 DEF ArrivalInv

LEMMA StillArrival ==
    ASSUME ArrivalInv, ViewInv', ConnectDenied \/ NoticeDrop \/ UNCHANGED vars
    PROVE  ArrivalInv'
<1>1. UNCHANGED <<seats, others, up, down, room, missed>>
  BY DEF ConnectDenied, NoticeDrop, vars, serverVars, wireVars, pageVars, ghostVars
<1>2. Settled' = Settled
  BY <1>1 DEF Settled
<1>3. ViewMatches'
  BY <1>1, <1>2, MatchesStill DEF ArrivalInv
<1>4. LeavesOwnRoom'
  BY <1>1 DEF ArrivalInv, LeavesOwnRoom
<1> QED
  BY <1>3, <1>4 DEF ArrivalInv

LEMMA QueuesEmpty ==
    ASSUME up' = <<>>
    PROVE  LeavesOwnRoom'
BY DEF LeavesOwnRoom

(* What is lost with a connection is missed, but for session:created.      *)
LEMMA DropArrival ==
    ASSUME ArrivalInv, Drop, ViewInv'
    PROVE  ArrivalInv'
<1>1. /\ up' = <<>> /\ down' = <<>> /\ room' = room
      /\ UNCHANGED <<seats, others>> \/ Abandon
  BY SeveredPage DEF Drop, serverVars
<1>2. missed' = (missed \/ ToSet(down) \ {SessionCreated} # {})
  BY DEF Drop, Severed
<1>3. Settled' = room
  BY <1>1, BelievedNow DEF Settled, Believed
<1>4. ~missed' => Settled = room
  <2> SUFFICES ASSUME ~missed' PROVE Settled = room
    OBVIOUS
  <2>1. room \in RoomState /\ down \in Seq(Messages)
    BY DEF ArrivalInv, ViewInv, ViewTypeOK
  <2>2. \A i \in 1..Len(down) : down[i] = SessionCreated
    <3>1. ToSet(down) \ {SessionCreated} = {}
      BY <1>2
    <3>2. \A i \in 1..Len(down) : down[i] \in ToSet(down)
      BY <2>1 DEF ToSet
    <3> QED
      BY <3>1, <3>2
  <2>3. SessionCreated.type = "session:created"
    BY DEF SessionCreated, Answer, Message
  <2>4. \A i \in 1..Len(down) : After(room, down[i]) = room
    BY <2>2, <2>3 DEF After
  <2>5. Believed(room, down) = room
    BY <2>1, <2>4, BelievedIdle
  <2> QED
    BY <2>5 DEF Settled, Believed
<1>5. ViewMatches'
  <2>1. CASE missed'
    BY <2>1 DEF ViewMatches
  <2>2. CASE ~missed' /\ UNCHANGED <<seats, others>>
    BY <1>2, <1>3, <1>4, <2>2, MatchesStill DEF ArrivalInv
  <2>3. CASE Abandon
    BY <2>3, SeatsAbandoned, NobodySeated DEF ArrivalInv, ViewInv
  <2> QED
    BY <1>1, <2>1, <2>2, <2>3
<1> QED
  BY <1>1, <1>5, QueuesEmpty DEF ArrivalInv

(* The user.                                                               *)
LEMMA LoadPageArrival ==
    ASSUME ArrivalInv, NEW u, LoadPage(u), ViewInv'
    PROVE  ArrivalInv'
<1>1. up' = <<>> /\ down' = <<>> /\ room' = NoRoom
  BY DEF LoadPage
<1>2. Settled' = NoRoom
  BY <1>1, BelievedNow DEF Settled, Believed
<1>3. ViewMatches'
  BY <1>2, HomeIsNoCode DEF ViewMatches, NoRoom
<1> QED
  BY <1>1, <1>3, QueuesEmpty DEF ArrivalInv

LEMMA SubmitArrival ==
    ASSUME ArrivalInv, NEW type \in FormRequest, NEW c \in Place, Submit(type, c), ViewInv',
           type # "room:create" => c \in Code
    PROVE  ArrivalInv'
<1>1. UNCHANGED <<seats, others, down, room, missed>> /\ up' = Append(up, Request(type, c, FALSE))
  BY DEF Submit, serverVars, ghostVars
<1>2. PICK q \in Requests : q = Request(type, c, FALSE) /\ q.type = type
  <2>1. Request(type, c, FALSE) \in Requests /\ Request(type, c, FALSE).type = type
    BY DEF Request, Requests
  <2> QED
    BY <2>1
<1>3. up \in Seq(Requests) /\ up' = Append(up, q)
  BY <1>1, <1>2 DEF ArrivalInv, ViewInv, ViewTypeOK
<1>4. Settled' = Settled
  BY <1>1 DEF Settled
<1>5. ViewMatches'
  BY <1>1, <1>4, MatchesStill DEF ArrivalInv
<1>6. PICK v \in Seq(Requests) : /\ v = up' /\ Len(v) = Len(up) + 1 /\ v[Len(up) + 1] = q
                                 /\ \A i \in 1..Len(up) : v[i] = up[i]
  BY <1>3, AppendTyped
<1>7. \A i \in 1..Len(v) : \/ v[i].type \notin {"room:leave", "presence:request"}
                           \/ i \in 1..Len(up) /\ v[i] = up[i]
  <2>1. \A i \in 1..Len(v) : i \in 1..Len(up) \/ i = Len(up) + 1
    BY <1>3, <1>6
  <2> QED
    BY <1>2, <1>6, <2>1 DEF FormRequest
<1>8. LeavesOwnRoom'
  BY <1>1, <1>6, <1>7, LeavesStill DEF ArrivalInv
<1> QED
  BY <1>5, <1>8 DEF ArrivalInv

LEMMA GoBackArrival ==
    ASSUME ArrivalInv, GoBack, ViewInv'
    PROVE  ArrivalInv'
<1>1. UNCHANGED <<seats, others, room, missed>> /\ url # Home /\ url' = Home /\ GuardRuns(up, down)
  BY DEF GoBack, serverVars, ghostVars
<1>2. up \in Seq(Requests) /\ down \in Seq(Messages) /\ url' \in Place
  BY <1>1 DEF ArrivalInv, ViewInv, ViewTypeOK, Place
<1>3. Settled' = Settled
  <2>1. down' = AllIgnored(down)
    BY <1>1 DEF GuardRuns
  <2> QED
    BY <1>1, <1>2, <2>1, BelievedIgnored DEF Settled, Believed
<1>4. ViewMatches'
  BY <1>1, <1>3, MatchesStill DEF ArrivalInv
<1>5. PICK u \in Seq(Requests) : u = up'
  BY <1>1, <1>2, GuardSends
<1>6. Len(u) = Len(up) /\ \A i \in 1..Len(up) : u[i].type = up[i].type
  BY <1>1, <1>2, <1>5, GuardSends
<1>7. LeavesOwnRoom'
  BY <1>1, <1>5, <1>6, PageHasNotLeft, NoneLeaves DEF ArrivalInv
<1> QED
  BY <1>4, <1>7 DEF ArrivalInv

LEMMA LeaveArrival ==
    ASSUME ArrivalInv, Leave, ViewInv'
    PROVE  ArrivalInv'
<1> DEFINE bye == Request("room:leave", url, FALSE)
           ask == Request("presence:request", url, FALSE)
<1>1. /\ url # Home /\ url' = Home /\ room' = NoRoom
      /\ UNCHANGED <<seats, others, down, missed>>
  BY DEF Leave, Shown, serverVars
<1>2. up' = up \o <<bye>> \o (IF link = "up" THEN <<ask>> ELSE <<>>)
  BY DEF Leave
<1>3. up \in Seq(Requests) /\ url \in Code /\ room \in RoomState /\ down \in Seq(Messages)
  BY <1>1 DEF ArrivalInv, ViewInv, ViewTypeOK, Place
<1>4. Settled' = Believed(NoRoom, down) /\ Settled = Believed(room, down)
  BY <1>1 DEF Settled, Believed
<1>5. Settled' \in {Settled, NoRoom}
  BY <1>3, <1>4, BelievedAfresh
<1>6. ViewMatches'
  BY <1>1, <1>5, MatchesStill DEF ArrivalInv
<1>7. /\ bye \in Requests /\ bye.code = url
      /\ ask \in Requests /\ ask.code = url
  BY <1>3, RequestTyped
<1>8. \A i \in 1..Len(up) : up[i].code = url
  BY <1>1 DEF ArrivalInv, ViewInv, PageAsksForItself
<1> HIDE DEF bye, ask
<1>9. PICK v \in Seq(Requests) : v = up \o <<bye>> /\ \A i \in 1..Len(v) : v[i].code = url
  <2>1. /\ Append(up, bye) \in Seq(Requests) /\ up \o <<bye>> = Append(up, bye)
        /\ Len(Append(up, bye)) = Len(up) + 1 /\ Append(up, bye)[Len(up) + 1] = bye
        /\ \A i \in 1..Len(up) : Append(up, bye)[i] = up[i]
    BY <1>3, <1>7, AppendTyped
  <2>2. \A i \in 1..(Len(up) + 1) : i \in 1..Len(up) \/ i = Len(up) + 1
    BY <1>3
  <2> QED
    BY <1>7, <1>8, <2>1, <2>2
<1>10. PICK w \in Seq(Requests) : w = up' /\ \A i \in 1..Len(w) : w[i].code = url
  <2>1. /\ Append(v, ask) \in Seq(Requests) /\ v \o <<ask>> = Append(v, ask)
        /\ Len(Append(v, ask)) = Len(v) + 1 /\ Append(v, ask)[Len(v) + 1] = ask
        /\ \A i \in 1..Len(v) : Append(v, ask)[i] = v[i]
    BY <1>7, AppendTyped
  <2>2. \A i \in 1..(Len(v) + 1) : i \in 1..Len(v) \/ i = Len(v) + 1
    OBVIOUS
  <2>3. CASE link = "up"
    <3>1. PICK w \in Seq(Requests) : w = Append(v, ask)
      BY <2>1
    <3>2. \A i \in 1..Len(w) : w[i].code = url
      BY <1>7, <1>9, <2>1, <2>2, <3>1
    <3>3. up' = w
      BY <1>2, <1>9, <2>1, <2>3, <3>1
    <3> QED
      BY <3>2, <3>3
  <2>4. CASE link # "up"
    <3>1. up' = v \o <<>>
      BY <1>2, <1>9, <2>4
    <3>2. up' = v
      BY <3>1
    <3> QED
      BY <1>9, <3>2
  <2> QED
    BY <2>3, <2>4
<1>11. \A j \in 1..Len(down) : down[j].type \in Rosters => down[j].room.code = url
  BY <1>1, FormRestsAway DEF ArrivalInv, ViewInv, PageAsksForItself, Rosters, FormAnswer, GuardAnswer
<1>12. room'.code = Home
  BY <1>1 DEF NoRoom
<1>13. LeavesOwnRoom'
  BY <1>1, <1>10, <1>11, <1>12 DEF LeavesOwnRoom
<1> QED
  BY <1>6, <1>13 DEF ArrivalInv

(* The page hears: what it will believe stays what it was.                 *)
LEMMA ReceiveArrival ==
    ASSUME ArrivalInv, Receive, ViewInv'
    PROVE  ArrivalInv'
<1>1. UNCHANGED <<seats, others, missed>> /\ room' = After(room, Head(down))
  BY DEF Receive, serverVars
<1>2. url' \in Place
  BY DEF ViewInv, ViewTypeOK
<1>3. up \in Seq(Requests) /\ down \in Seq(Messages) /\ room \in RoomState /\ url \in Place
  BY DEF ArrivalInv, ViewInv, ViewTypeOK
<1>4. /\ down # <<>> /\ down' \in Seq(Messages) /\ Len(down') = Len(down) - 1
      /\ \A i \in 1..Len(down') : /\ down'[i].type = down[i + 1].type
                                  /\ down'[i].room = down[i + 1].room
      /\ up' \in Seq(Requests) /\ Len(up') >= Len(up)
      /\ \A i \in 1..Len(up) : up'[i].type = up[i].type /\ up'[i].code = up[i].code
      /\ \A i \in 1..Len(up') : i > Len(up) =>
           url' # Home /\ up'[i].type = "presence:request" /\ up'[i].code = url'
  BY <1>2, ReceiveQueues DEF ArrivalInv
<1>5. Head(down) = down[1] /\ 1 \in 1..Len(down) /\ down[1] \in Messages
  BY <1>3, <1>4, TailTyped
<1>6. Settled' = Settled
  <2>0. PICK t \in Seq(Messages) : t = Tail(down)
    BY <1>3, <1>4, TailTyped
  <2>1. t = Tail(down) /\ Len(t) = Len(down) - 1 /\ \A i \in 1..Len(t) : t[i] = down[i + 1]
    BY <1>3, <1>4, <2>0, TailTyped
  <2>2. \A s : \A i \in 1..Len(t) : After(s, t[i]) = After(s, down[i + 1])
    BY <2>1
  <2>3. Believed(After(room, down[1]), t) = Believed(room, down)
    BY <1>3, <1>4, <2>1, <2>2, BelievedSame
  <2>4. down' = AllIgnored(t) \/ down' = t
    BY <2>1 DEF Receive, GuardRuns
  <2>5. Believed(room', down') = Believed(room', t)
    BY <2>4, BelievedIgnored
  <2> QED
    BY <1>1, <1>5, <2>3, <2>5 DEF Settled, Believed
<1>7. ViewMatches'
  BY <1>1, <1>6, MatchesStill DEF ArrivalInv
<1>8. LeavesOwnRoom'
  <2> SUFFICES ASSUME NEW i \in 1..Len(up'), up'[i].type = "room:leave"
               PROVE  LeavesOwnRoom'
    BY DEF LeavesOwnRoom
  <2>1. i \in 1..Len(up) /\ up[i].type = "room:leave"
    <3>1. PICK n \in Nat : n = Len(up)
      BY <1>3
    <3>2. PICK k \in Nat : k = Len(up')
      BY <1>4
    <3>3. i \in 1..k /\ (i > n => up'[i].type = "presence:request")
      BY <1>4, <3>1, <3>2
    <3>4. i \in 1..n
      BY <3>3
    <3> QED
      BY <1>4, <3>1, <3>4
  <2>2. url = Home
    BY <2>1, PageHasNotLeft DEF ArrivalInv
  <2>3. up # <<>>
    BY <1>3, <2>1
  <2>4. down[1].type \notin FormAnswer
    BY <1>5, <2>3 DEF ArrivalInv, ViewInv, FormHearsLast
  <2>5. url' = Home
    BY <1>5, <2>2, <2>4 DEF Receive, FormAnswer
  <2>6. \A j \in 1..Len(up') : \E k \in 1..Len(up) : up'[j].type = up[k].type
                                                     /\ up'[j].code = up[k].code
    <3> SUFFICES ASSUME NEW j \in 1..Len(up')
                 PROVE  \E k \in 1..Len(up) : up'[j].type = up[k].type /\ up'[j].code = up[k].code
      OBVIOUS
    <3>1. j \in 1..Len(up)
      BY <1>3, <1>4, <2>5
    <3> QED
      BY <1>4, <3>1
  <2>7. \A j \in 1..Len(down') : \E k \in 1..Len(down) : down'[j].type = down[k].type
                                                         /\ down'[j].room = down[k].room
    <3> SUFFICES ASSUME NEW j \in 1..Len(down')
                 PROVE  \E k \in 1..Len(down) : down'[j].type = down[k].type
                                                /\ down'[j].room = down[k].room
      OBVIOUS
    <3>1. j + 1 \in 1..Len(down)
      BY <1>3, <1>4
    <3> QED
      BY <1>4, <3>1
  <2>8. room'.code \in {Home, room.code} \/ (down[1].type \in Rosters /\ room' = down[1].room)
    <3>1. down[1].type = "absent" => room' = NoRoom \/ room' = room
      BY <1>1, <1>3, <1>5, AnswersSetRoom
    <3>2. down[1].type \in RoomEvent \cup {"session:created", "refused"} => room'.code = room.code
      BY <1>1, <1>3, <1>5, EventsKeepCode
    <3>3. down[1].type \in Rosters => room' = down[1].room
      BY <1>1, <1>3, <1>5, AnswersSetRoom DEF Rosters
    <3>4. down[1].type \in Rosters \cup {"absent"} \cup (RoomEvent \cup {"session:created", "refused"})
      BY <1>5 DEF Messages, FormAnswer, GuardAnswer, Rosters
    <3>5. NoRoom.code = Home
      BY DEF NoRoom
    <3> QED
      BY <3>1, <3>2, <3>3, <3>4, <3>5
  <2>9. \/ room'.code \in {Home, room.code}
        \/ \E j \in 1..Len(down) : down[j].type \in Rosters /\ down[j].room.code = room'.code
    BY <1>5, <2>8
  <2>10. LeavesOwnRoom
    BY DEF ArrivalInv
  <2> QED
    BY <2>6, <2>7, <2>9, <2>10, LeavesStill
<1> QED
  BY <1>7, <1>8 DEF ArrivalInv

-----------------------------------------------------------------------------
(* The server answers: an answer with a roster is the room as it is now,   *)
(* and every other answer leaves the page what it will believe, or nothing.*)
LEMMA RosterArrives ==
    ASSUME ViewInv, ViewInv', NEW m \in Messages, down' = Append(down, m), room' = room,
           m.type \in Rosters, m.room = Roster(m.room.code, seats[m.room.code])'
    PROVE  ViewMatches'
<1>1. down \in Seq(Messages)
  BY DEF ViewInv, ViewTypeOK
<1>2. Settled' = After(Believed(room, down), m)
  BY <1>1, BelievedLater DEF Settled, Believed
<1>3. Settled' = m.room
  BY <1>2 DEF After, Rosters
<1> QED
  BY <1>3 DEF ViewMatches

LEMMA OtherAnswers ==
    ASSUME ViewInv, ViewMatches, NEW m \in Messages, down' = Append(down, m), room' = room,
           m.type \in {"refused", "absent"}, seats' = seats, others' = others, missed' = missed
    PROVE  ViewMatches'
<1>1. down \in Seq(Messages)
  BY DEF ViewInv, ViewTypeOK
<1>2. Settled' = After(Settled, m)
  BY <1>1, BelievedLater DEF Settled, Believed
<1>3. Settled' \in {Settled, NoRoom}
  BY <1>2 DEF After, Unrestored
<1> QED
  BY <1>3, MatchesStill

(* A seat is given up: the page that left it believes in no other.         *)
LEMMA SeatGivenUp ==
    ASSUME ViewInv, LeavesOwnRoom, up # <<>>, up[1].type = "room:leave",
           seats' = [seats EXCEPT ![up[1].code] = @ \ {Me}],
           room' = room, down' = down
    PROVE  ViewMatches'
<1>1. /\ up \in Seq(Requests) /\ down \in Seq(Messages) /\ room \in RoomState
      /\ seats \in [Code -> SUBSET (Person \cup {Me})]
  BY DEF ViewInv, ViewTypeOK
<1>2. 1 \in 1..Len(up) /\ up[1].code \in Code
  BY <1>1 DEF Requests
<1> DEFINE c == up[1].code
           S == {r \in RoomState : r.code \in {Home, c}}
<1>3. room \in S
  BY <1>1, <1>2 DEF LeavesOwnRoom
<1>4. ASSUME NEW s \in S, NEW i \in 1..Len(down) PROVE After(s, down[i]) \in S
  <2>1. down[i] \in Messages /\ s \in RoomState /\ s.code \in {Home, c}
    BY <1>1
  <2>2. After(s, down[i]) \in RoomState
    BY <2>1, AfterTyped
  <2>3. down[i].type = "absent" => After(s, down[i]) = NoRoom \/ After(s, down[i]) = s
    BY <2>1, AnswersSetRoom
  <2>4. down[i].type \in RoomEvent \cup {"session:created", "refused"}
          => After(s, down[i]).code = s.code
    BY <2>1, EventsKeepCode
  <2>5. down[i].type \in Rosters => After(s, down[i]) = down[i].room
    BY <2>1, AnswersSetRoom DEF Rosters
  <2>6. down[i].type \in Rosters => down[i].room.code = c
    BY <1>2 DEF LeavesOwnRoom
  <2>7. down[i].type \in Rosters \cup {"absent"} \cup (RoomEvent \cup {"session:created", "refused"})
    BY <2>1 DEF Messages, FormAnswer, GuardAnswer, Rosters
  <2>8. NoRoom.code = Home
    BY DEF NoRoom
  <2> QED
    BY <2>1, <2>2, <2>3, <2>4, <2>5, <2>6, <2>7, <2>8
<1> HIDE DEF S
<1>5. Believed(room, down) \in S
  BY <1>1, <1>3, <1>4, BelievedStays
<1>6. Settled'.code \in {Home, c}
  BY <1>5 DEF S, Settled, Believed
<1>7. Me \notin seats'[c]
  BY <1>1, <1>2
<1> HIDE DEF c
<1>8. Settled'.code \in Code => Me \notin seats'[Settled'.code]
  BY <1>6, <1>7, HomeIsNoCode
<1> QED
  BY <1>8 DEF ViewMatches, SeatsOf

(* The next request is taken from the queue.                               *)
LEMMA LeavesHandled ==
    ASSUME ArrivalInv, up # <<>>, up' = Tail(up), room' = room,
           \/ down' = down
           \/ \E m \in Messages : /\ down' = Append(down, m)
                                  /\ \/ up[1].type \in FormRequest
                                     \/ up[1].type = "presence:request" /\ m.room.code = up[1].code
    PROVE  LeavesOwnRoom'
<1>1. up \in Seq(Requests) /\ down \in Seq(Messages) /\ LeavesOwnRoom /\ ViewInv
  BY DEF ArrivalInv, ViewInv, ViewTypeOK
<1>0. PICK v \in Seq(Requests) : v = Tail(up)
  BY <1>1, TailTyped
<1>2. /\ v = up' /\ Len(v) = Len(up) - 1 /\ 1 \in 1..Len(up)
      /\ \A i \in 1..Len(v) : v[i] = up[i + 1] /\ i + 1 \in 1..Len(up)
  <2>1. Len(v) = Len(up) - 1 /\ \A i \in 1..Len(v) : v[i] = up[i + 1]
    BY <1>0, <1>1, TailTyped
  <2> QED
    BY <1>0, <1>1, <2>1
<1>3. \A i \in 1..Len(v) : \E j \in 1..Len(up) : v[i].type = up[j].type /\ v[i].code = up[j].code
  BY <1>2
<1>4. CASE down' = down
  BY <1>1, <1>2, <1>3, <1>4, LeavesStill
<1>5. CASE \E m \in Messages : down' = Append(down, m) /\ up[1].type \in FormRequest
  <2>1. Len(v) = 0
    <3>1. 1 = Len(up)
      BY <1>1, <1>2, <1>5 DEF ViewInv, FormAsksLast
    <3> QED
      BY <1>2, <3>1
  <2> QED
    BY <1>2, <2>1, SMTT(60) DEF LeavesOwnRoom
<1>6. ASSUME NEW m \in Messages, down' = Append(down, m), up[1].type = "presence:request",
             m.room.code = up[1].code
      PROVE  LeavesOwnRoom'
  <2>1. PICK d \in Seq(Messages) : d = down' /\ \A i \in 1..Len(d) :
               (i \in 1..Len(down) /\ d[i] = down[i]) \/ d[i] = m
    <3>0. PICK d \in Seq(Messages) : d = Append(down, m)
      BY <1>1, AppendTyped
    <3>1. /\ d = down' /\ Len(d) = Len(down) + 1 /\ d[Len(down) + 1] = m
          /\ \A i \in 1..Len(down) : d[i] = down[i]
      BY <1>1, <1>6, <3>0, AppendTyped
    <3>2. \A i \in 1..Len(d) : i \in 1..Len(down) \/ i = Len(down) + 1
      BY <1>1, <3>1
    <3> QED
      BY <3>1, <3>2
  <2> SUFFICES ASSUME NEW i \in 1..Len(v), v[i].type = "room:leave"
               PROVE  /\ room.code \in {Home, v[i].code}
                      /\ \A j \in 1..Len(v) :
                            v[j].type = "presence:request" => v[j].code = v[i].code
                      /\ \A j \in 1..Len(d) :
                            d[j].type \in Rosters => d[j].room.code = v[i].code
    BY <1>2, <2>1, ZenonT(60) DEF LeavesOwnRoom
  <2>2. PICK k \in 1..Len(up) : up[k] = v[i]
    BY <1>2
  <2>3. /\ room.code \in {Home, v[i].code}
        /\ \A j \in 1..Len(up) : up[j].type = "presence:request" => up[j].code = v[i].code
        /\ \A j \in 1..Len(down) : down[j].type \in Rosters => down[j].room.code = v[i].code
    BY <1>1, <2>2, ZenonT(60) DEF LeavesOwnRoom
  <2>4. m.room.code = v[i].code
    BY <1>2, <1>6, <2>3
  <2> QED
    BY <1>2, <2>1, <2>3, <2>4
<1> QED
  BY <1>4, <1>5, <1>6

(* Somebody alone in a room sees nobody in it.                             *)
LEMMA AloneInRoom ==
    ASSUME NEW c
    PROVE  Roster(c, {Me}) = Room(c, Nobody, 1)
<1>1. Cardinality({Me}) = 1
  BY FS_Singleton
<1>2. \A p \in Person : p \notin {Me}
  BY HomeIsNoCode
<1> QED
  BY <1>1, <1>2 DEF Roster, Room, Nobody

LEMMA HandleArrival ==
    ASSUME ArrivalInv, Handle, ViewInv'
    PROVE  ArrivalInv'
<1> DEFINE q == Head(up)
<1>1. up # <<>> /\ up' = Tail(up) /\ UNCHANGED <<room, others>>
  BY DEF Handle, pageVars
<1>2. OnCreate(q) \/ OnJoin(q) \/ OnLeave(q) \/ OnPresence(q)
  BY DEF Handle
<1>3. /\ seats \in [Code -> SUBSET (Person \cup {Me})] /\ \A c \in Code : IsFiniteSet(seats[c])
      /\ up \in Seq(Requests) /\ ViewInv /\ ViewMatches /\ LeavesOwnRoom
  BY DEF ArrivalInv, ViewInv, ViewTypeOK
<1>4. q \in Requests /\ q = up[1]
  BY <1>1, <1>3, TailTyped
<1> HIDE DEF q
<1>5. ASSUME q.type \in FormRequest, Reply(Answer("refused", NoRoom)), UNCHANGED <<seats, missed>>
      PROVE  ArrivalInv'
  <2>1. PICK m \in Messages : m = Answer("refused", NoRoom) /\ m.type = "refused"
    BY AnswerTyped, NoRoomTyped DEF FormAnswer
  <2>2. down' = Append(down, m)
    BY <1>5, <2>1 DEF Reply
  <2>3. ViewMatches'
    BY <1>1, <1>3, <1>5, <2>1, <2>2, OtherAnswers
  <2>4. LeavesOwnRoom'
    BY <1>1, <1>4, <1>5, <2>2, LeavesHandled
  <2> QED
    BY <2>3, <2>4 DEF ArrivalInv
<1>6. ASSUME NEW type \in {"created", "joined"}, NEW r \in RoomState, q.type \in FormRequest,
             r = Roster(r.code, seats[r.code])', Reply(Answer(type, r))
      PROVE  ArrivalInv'
  <2>1. PICK m \in Messages : m = Answer(type, r) /\ m.type = type /\ m.room = r
    BY AnswerTyped DEF FormAnswer
  <2>2. down' = Append(down, m)
    BY <1>6, <2>1 DEF Reply
  <2>3. m.room = Roster(m.room.code, seats[m.room.code])' /\ m.type \in Rosters
    BY <1>6, <2>1 DEF Rosters
  <2>4. ViewMatches'
    BY <1>1, <1>3, <2>2, <2>3, RosterArrives
  <2>5. LeavesOwnRoom'
    BY <1>1, <1>4, <1>6, <2>2, LeavesHandled
  <2> QED
    BY <2>4, <2>5 DEF ArrivalInv
<1>7. CASE OnCreate(q)
  <2>1. q.type \in FormRequest
    BY <1>7 DEF OnCreate, FormRequest
  <2>2. CASE \E c \in Code : /\ seats' = [seats EXCEPT ![c] = {Me}]
                             /\ Reply(Answer("created", Room(c, Nobody, 1)))
    <3>1. PICK c \in Code : /\ seats' = [seats EXCEPT ![c] = {Me}]
                            /\ Reply(Answer("created", Room(c, Nobody, 1)))
      BY <2>2
    <3>2. PICK r \in RoomState : r = Room(c, Nobody, 1) /\ r.code = c
      BY BareRoom DEF Place
    <3>3. r = Roster(c, {Me})
      BY <3>2, AloneInRoom
    <3>4. seats'[c] = {Me}
      BY <1>3, <3>1
    <3>5. r = Roster(r.code, seats[r.code])'
      BY <1>1, <3>2, <3>3, <3>4 DEF Roster
    <3> QED
      BY <1>6, <2>1, <3>1, <3>2, <3>5
  <2> QED
    BY <1>5, <1>7, <2>1, <2>2 DEF OnCreate
<1>8. CASE OnJoin(q)
  <2> DEFINE c == q.code
  <2>1. q.type \in FormRequest /\ c \in Code
    BY <1>4, <1>8 DEF OnJoin, FormRequest, Requests
  <2>2. CASE /\ seats' = [seats EXCEPT ![c] = @ \cup {Me}]
             /\ Reply(Answer("joined", Roster(c, seats'[c])))
    <3> DEFINE S == seats[c] \cup {Me}
    <3>1. S \in SUBSET (Person \cup {Me}) /\ IsFiniteSet(S) /\ seats'[c] = S
      BY <1>3, <2>1, <2>2, FS_AddElement
    <3> HIDE DEF S, c
    <3>2. PICK r \in RoomState : r = Roster(c, S) /\ r.code = c
      BY <2>1, <3>1, RosterTyped
    <3>3. r = Roster(r.code, seats[r.code])'
      BY <1>1, <3>1, <3>2 DEF Roster
    <3> QED
      BY <1>6, <2>1, <2>2, <3>1, <3>2, <3>3
  <2> QED
    BY <1>5, <1>8, <2>1, <2>2 DEF OnJoin
<1>9. CASE OnLeave(q)
  <2>1. q.type = "room:leave" /\ down' = down /\ seats' = [seats EXCEPT ![q.code] = @ \ {Me}]
    BY <1>9 DEF OnLeave
  <2>2. ViewMatches'
    BY <1>1, <1>3, <1>4, <2>1, SeatGivenUp
  <2>3. LeavesOwnRoom'
    BY <1>1, <2>1, LeavesHandled
  <2> QED
    BY <2>2, <2>3 DEF ArrivalInv
<1>10. CASE OnPresence(q)
  <2>1. q.type = "presence:request" /\ seats' = seats
    BY <1>10 DEF OnPresence
  <2>2. q.code \in Code /\ q.live \in BOOLEAN
    BY <1>4, <2>1 DEF Requests
  <2>3. CASE Seated(q.code)
    <3>1. PICK r \in RoomState : r = Roster(q.code, seats[q.code]) /\ r.code = q.code
      BY <1>3, <2>2, RosterTyped
    <3>2. PICK m \in Messages : m = Message("present", Me, r, q.live)
                                /\ m.type = "present" /\ m.room = r
      BY <2>2, MessageTyped DEF GuardAnswer
    <3>3. down' = Append(down, m)
      BY <1>10, <2>3, <3>1, <3>2, SMTT(60) DEF OnPresence, Reply
    <3>4. m.type \in Rosters /\ m.room = Roster(m.room.code, seats[m.room.code])'
      BY <1>1, <2>1, <3>1, <3>2 DEF Rosters, Roster
    <3>5. ViewMatches'
      BY <1>1, <1>3, <3>3, <3>4, RosterArrives
    <3>6. LeavesOwnRoom'
      BY <1>1, <1>4, <2>1, <3>1, <3>2, <3>3, LeavesHandled
    <3> QED
      BY <3>5, <3>6 DEF ArrivalInv
  <2>4. CASE ~Seated(q.code)
    <3>1. PICK r \in RoomState : r = Room(q.code, Nobody, 0) /\ r.code = q.code
      BY <2>2, BareRoom DEF Place
    <3>2. PICK m \in Messages : m = Message("absent", Me, r, q.live)
                                /\ m.type = "absent" /\ m.room = r
      <4>1. "absent" \in GuardAnswer \cup RoomEvent
        BY DEF GuardAnswer
      <4> QED
        BY <2>2, <4>1, MessageTyped
    <3>3. down' = Append(down, m) /\ missed' = missed
      BY <1>10, <2>4, <3>1, <3>2 DEF OnPresence, Reply
    <3>4. ViewMatches'
      BY <1>1, <1>3, <2>1, <3>2, <3>3, OtherAnswers
    <3>5. LeavesOwnRoom'
      BY <1>1, <1>4, <2>1, <3>1, <3>2, <3>3, LeavesHandled
    <3> QED
      BY <3>4, <3>5 DEF ArrivalInv
  <2> QED
    BY <2>3, <2>4
<1> QED
  BY <1>2, <1>7, <1>8, <1>9, <1>10

LEMMA ThrottledArrival ==
    ASSUME ArrivalInv, Throttled, ViewInv'
    PROVE  ArrivalInv'
<1>1. up # <<>> /\ up' = Tail(up) /\ UNCHANGED <<room, seats, others, down, missed>>
  BY DEF Throttled, pageVars, serverVars
<1>2. Settled' = Settled
  BY <1>1 DEF Settled
<1>3. ViewMatches'
  BY <1>1, <1>2, MatchesStill DEF ArrivalInv
<1>4. LeavesOwnRoom'
  BY <1>1, LeavesHandled
<1> QED
  BY <1>3, <1>4 DEF ArrivalInv

(* The session ends, and with it every seat.                               *)
LEMMA EndArrival ==
    ASSUME ArrivalInv, Expire \/ Restart, ViewInv'
    PROVE  ArrivalInv'
<1>1. \A c \in Code : Me \notin seats'[c]
  BY DEF Expire, Restart
<1>2. up' = <<>> \/ UNCHANGED <<up, down, room>>
  BY SeveredPage DEF Expire, Restart, wireVars, pageVars
<1>3. LeavesOwnRoom'
  BY <1>2, QueuesEmpty DEF ArrivalInv, LeavesOwnRoom
<1> QED
  BY <1>1, <1>3, NobodySeated DEF ArrivalInv

-----------------------------------------------------------------------------
(* The others.  What they do reaches a page with one seat as one event.    *)
LEMMA SeqOfOne ==
    ASSUME NEW c
    PROVE  /\ SetToSeq({}) = <<>>
           /\ SetToSeq({c}) # <<>> /\ DOMAIN SetToSeq({c}) = 1..1 /\ SetToSeq({c})[1] = c
<1>1. SetToSeq({}) = <<>>
  <2>1. SetToSeq({}) \in Seq({})
    BY FS_EmptySet, SetToSeqTyped
  <2> QED
    BY <2>1
<1>2. Cardinality({c}) = 1
  BY FS_Singleton
<1>3. SetToSeq({c}) \in [1..1 -> {c}]
  <2>1. [i \in 1..1 |-> c] \in [1..1 -> {c}] /\ IsInjective([i \in 1..1 |-> c])
    BY DEF IsInjective
  <2> QED
    BY <1>2, <2>1 DEF SetToSeq
<1>4. 1 \in DOMAIN SetToSeq({c}) /\ 1 \notin DOMAIN <<>>
  BY <1>3
<1> QED
  BY <1>1, <1>3, <1>4

LEMMA EventTyped ==
    ASSUME NEW type \in RoomEvent, NEW p \in Person, NEW n \in Nat
    PROVE  /\ Event(type, p, n) \in Messages /\ Event(type, p, n).type = type
           /\ Event(type, p, n).who = p /\ Event(type, p, n).room.count = n
<1>1. PICK r \in RoomState : r = Room(Home, Nobody, n) /\ r.count = n
  <2>1. Room(Home, Nobody, n) \in RoomState /\ Room(Home, Nobody, n).count = n
    BY BareRoom DEF Place, Room
  <2> QED
    BY <2>1
<1>2. Event(type, p, n) = Message(type, p, r, FALSE)
  BY <1>1 DEF Event
<1>3. /\ Message(type, p, r, FALSE) \in Messages /\ Message(type, p, r, FALSE).type = type
      /\ Message(type, p, r, FALSE).room = r /\ Message(type, p, r, FALSE).who = p
  BY MessageTyped DEF Message
<1> QED
  BY <1>1, <1>2, <1>3

(* An event follows what was on its way, if the room is concerned.         *)
LEMMA BroadcastArrives ==
    ASSUME ViewInv, NEW c \in Code, SeatsOf(Me) = {c}, NEW codes \in SUBSET Code,
           NEW type \in RoomEvent, NEW p \in Person, NEW volatile,
           Broadcast(codes, type, p, volatile), IsFiniteSet(seats'[c]), ~missed'
    PROVE  /\ ~missed
           /\ c \notin codes => down' = down
           /\ c \in codes => down' = Append(down, Event(type, p, Cardinality(seats'[c])))
<1> DEFINE mine == SetToSeq({d \in codes : Seated(d)})
           news == [i \in DOMAIN mine |-> Event(type, p, Cardinality(seats'[mine[i]]))]
<1>1. \A d \in Code : Seated(d) <=> d = c
  BY HomeIsNoCode DEF SeatsOf, Seated
<1>2. \/ mine = <<>> /\ down' = down /\ missed' = missed
      \/ mine # <<>> /\ down' = down \o news /\ missed' = missed
      \/ mine # <<>> /\ missed' = TRUE
  BY DEF Broadcast
<1>3. CASE c \notin codes
  <2>1. {d \in codes : Seated(d)} = {}
    BY <1>1, <1>3
  <2>2. mine = <<>>
    BY <2>1, SeqOfOne
  <2> QED
    BY <1>2, <1>3, <2>2
<1>4. CASE c \in codes
  <2>1. {d \in codes : Seated(d)} = {c}
    BY <1>1, <1>4
  <2>2. mine # <<>> /\ DOMAIN mine = 1..1 /\ mine[1] = c
    BY <2>1, SeqOfOne
  <2>3. down' = down \o news /\ missed' = missed
    BY <1>2, <2>2
  <2> HIDE DEF mine
  <2> DEFINE e == Event(type, p, Cardinality(seats'[c]))
  <2>4. e \in Messages
    BY EventTyped, FS_CardinalityType
  <2>5. news = [i \in 1..1 |-> e]
    <3>1. \A i \in 1..1 : mine[i] = c
      BY <2>2
    <3> QED
      BY <2>2, <3>1
  <2> HIDE DEF news, e
  <2>6. news = <<e>>
    BY <2>5
  <2>7. down \in Seq(Messages)
    BY DEF ViewInv, ViewTypeOK
  <2>8. down' = Append(down, e)
    BY <2>3, <2>4, <2>6, <2>7, AppendTyped
  <2> QED
    BY <1>4, <2>3, <2>8 DEF e
<1> QED
  BY <1>3, <1>4

(* What there is to show of a page with one seat, if nothing was missed.   *)
LEMMA OneEvent ==
    ASSUME ViewInv, ViewMatches, NEW codes \in SUBSET Code,
           NEW type \in RoomEvent, NEW p \in Person, NEW volatile,
           Broadcast(codes, type, p, volatile), \A c \in Code : IsFiniteSet(seats'[c]),
           \A c \in Code : Me \in seats'[c] <=> Me \in seats[c],
           \A c \in Code : \A r \in RoomState :
              /\ c \notin codes /\ r = Roster(c, seats[c]) => r = Roster(c, seats[c])'
              /\ c \in codes /\ r = Roster(c, seats[c])
                   => After(r, Event(type, p, Cardinality(seats'[c]))) = Roster(c, seats[c])'
    PROVE  ViewMatches'
<1> SUFFICES ASSUME ~missed', NEW c \in Code, Settled'.code = c, SeatsOf(Me)' = {c}
             PROVE  Settled' = Roster(c, seats[c])'
  BY DEF ViewMatches
<1>1. SeatsOf(Me) = {c}
  BY DEF SeatsOf
<1>2. /\ ~missed
      /\ c \notin codes => down' = down
      /\ c \in codes => down' = Append(down, Event(type, p, Cardinality(seats'[c])))
  BY <1>1, BroadcastArrives
<1>3. room' = room
  BY DEF Broadcast, pageVars
<1>4. PICK r \in RoomState : r = Settled
  BY SettledTyped DEF ViewInv
<1>5. CASE c \notin codes
  <2>1. Settled' = r
    BY <1>2, <1>3, <1>4, <1>5 DEF Settled
  <2>2. r = Roster(c, seats[c])
    BY <1>1, <1>2, <1>4, <2>1 DEF ViewMatches
  <2> QED
    BY <1>5, <2>1, <2>2
<1>6. CASE c \in codes
  <2> DEFINE e == Event(type, p, Cardinality(seats'[c]))
  <2>1. e \in Messages /\ e.type = type
    BY EventTyped, FS_CardinalityType
  <2>2. Settled' = After(r, e)
    <3>1. down \in Seq(Messages)
      BY DEF ViewInv, ViewTypeOK
    <3> HIDE DEF e
    <3>2. Believed(room, Append(down, e)) = After(Believed(room, down), e)
      BY <2>1, <3>1, BelievedLater
    <3> QED
      BY <1>2, <1>3, <1>4, <1>6, <3>2 DEF Settled, Believed, e
  <2>3. r.code = c
    <3> HIDE DEF e
    <3> QED
      BY <2>1, <2>2, EventsKeepCode
  <2>4. r = Roster(c, seats[c])
    BY <1>1, <1>2, <1>4, <2>3 DEF ViewMatches
  <2> QED
    BY <1>6, <2>2, <2>4
<1> QED
  BY <1>5, <1>6

(* A room is a roster if everybody's place in it is right.                 *)
LEMMA RosterThen ==
    ASSUME NEW c \in Code, NEW list \in List,
           \A p \in Person : list[p] = IF p \notin seats'[c] THEN "absent"
                                       ELSE IF others'[p] = "online" THEN "online" ELSE "offline"
    PROVE  Room(c, list, Cardinality(seats'[c])) = Roster(c, seats[c])'
<1>1. list = [p \in Person |-> IF p \notin seats'[c] THEN "absent"
                               ELSE IF others'[p] = "online" THEN "online" ELSE "offline"]
  BY DEF List
<1> QED
  BY <1>1 DEF Roster

LEMMA RosterNow ==
    ASSUME NEW c \in Code, NEW r \in RoomState, r = Roster(c, seats[c])
    PROVE  /\ r # NoRoom /\ r.code = c /\ r.list \in List
           /\ r = Room(c, r.list, Cardinality(seats[c]))
           /\ \A p \in Person : r.list[p] = IF p \notin seats[c] THEN "absent"
                                       ELSE IF others[p] = "online" THEN "online" ELSE "offline"
BY HomeIsNoCode DEF Roster, Room, RoomState, NoRoom

(* Everybody's place is what it was.                                       *)
LEMMA RosterSame ==
    ASSUME NEW c \in Code, NEW r \in RoomState, r = Roster(c, seats[c]), seats'[c] = seats[c],
           \A p \in Person : p \in seats[c] => others'[p] = others[p]
    PROVE  r = Roster(c, seats[c])'
<1>1. /\ r = Room(c, r.list, Cardinality(seats'[c])) /\ r.list \in List
      /\ \A p \in Person : r.list[p] = IF p \notin seats[c] THEN "absent"
                                       ELSE IF others[p] = "online" THEN "online" ELSE "offline"
  BY RosterNow
<1>2. \A p \in Person : r.list[p] = IF p \notin seats'[c] THEN "absent"
                                    ELSE IF others'[p] = "online" THEN "online" ELSE "offline"
  BY <1>1
<1> QED
  BY <1>1, <1>2, RosterThen

(* One person's place has changed, and the event says so.                  *)
TellsOf(type, p, c) ==
    \/ type = "room:peer-joined" /\ p \notin seats[c] /\ p \in seats'[c] /\ others'[p] = "online"
    \/ type = "room:peer-left" /\ p \notin seats'[c]
    \/ type = "room:peer-disconnected" /\ {p} \subseteq seats[c] \cap seats'[c] /\ others'[p] # "online"
    \/ type = "room:peer-reconnected" /\ {p} \subseteq seats[c] \cap seats'[c] /\ others'[p] = "online"

LEMMA RosterChanged ==
    ASSUME NEW c \in Code, NEW r \in RoomState, r = Roster(c, seats[c]),
           NEW type \in RoomEvent, NEW p \in Person, IsFiniteSet(seats'[c]),
           \A x \in Person \ {p} : (x \in seats'[c] <=> x \in seats[c]) /\ others'[x] = others[x],
           TellsOf(type, p, c)
    PROVE  After(r, Event(type, p, Cardinality(seats'[c]))) = Roster(c, seats[c])'
<1> DEFINE n == Cardinality(seats'[c])
           place(x) == IF x \notin seats'[c] THEN "absent"
                       ELSE IF others'[x] = "online" THEN "online" ELSE "offline"
<1>1. PICK e \in Messages : e = Event(type, p, n) /\ e.type = type /\ e.who = p /\ e.room.count = n
  BY EventTyped, FS_CardinalityType
<1>2. /\ r # NoRoom /\ r.code = c /\ r.list \in List
      /\ \A x \in Person : r.list[x] = IF x \notin seats[c] THEN "absent"
                                       ELSE IF others[x] = "online" THEN "online" ELSE "offline"
  BY RosterNow
<1> HIDE DEF n
<1>3. ASSUME NEW v \in {"absent", "online", "offline"}, v = place(p)
      PROVE  Room(c, [r.list EXCEPT ![p] = v], n) = Roster(c, seats[c])'
  <2> DEFINE list == [r.list EXCEPT ![p] = v]
  <2>0. r.list \in [Person -> {"absent", "online", "offline"}]
    BY <1>2 DEF List
  <2>1. /\ list \in [Person -> {"absent", "online", "offline"}] /\ list[p] = v
        /\ \A x \in Person \ {p} : list[x] = r.list[x]
    BY <2>0
  <2> HIDE DEF list
  <2>2. \A x \in Person : list[x] = IF x \notin seats'[c] THEN "absent"
                                    ELSE IF others'[x] = "online" THEN "online" ELSE "offline"
    BY <1>2, <1>3, <2>1
  <2> QED
    BY <2>1, <2>2, RosterThen DEF n, list, List
<1>4. CASE type = "room:peer-joined" /\ p \notin seats[c] /\ p \in seats'[c] /\ others'[p] = "online"
  <2>1. After(r, e) = Entered(r, e)
    BY <1>1, <1>2, <1>4 DEF After
  <2>2. r.list[p] = "absent" /\ place(p) = "online"
    BY <1>2, <1>4
  <2>3. After(r, e) = Room(c, [r.list EXCEPT ![p] = "online"], n)
    BY <1>1, <1>2, <2>1, <2>2 DEF Entered
  <2> QED
    BY <1>1, <1>3, <2>2, <2>3 DEF n
<1>5. CASE type = "room:peer-left" /\ p \notin seats'[c]
  <2>1. After(r, e) = Left(r, e)
    BY <1>1, <1>2, <1>5 DEF After
  <2>2. place(p) = "absent"
    BY <1>5
  <2>3. After(r, e) = Room(c, [r.list EXCEPT ![p] = "absent"], n)
    BY <1>1, <1>2, <2>1 DEF Left
  <2> QED
    BY <1>1, <1>3, <2>2, <2>3 DEF n
<1>6. CASE type = "room:peer-disconnected" /\ p \in seats[c] /\ p \in seats'[c] /\ others'[p] # "online"
  <2>1. After(r, e) = Marked(r, e, "offline")
    BY <1>1, <1>2, <1>6 DEF After
  <2>2. r.list[p] # "absent" /\ place(p) = "offline"
    BY <1>2, <1>6
  <2>3. After(r, e) = Room(c, [r.list EXCEPT ![p] = "offline"], n)
    BY <1>1, <1>2, <2>1, <2>2 DEF Marked
  <2> QED
    BY <1>1, <1>3, <2>2, <2>3 DEF n
<1>7. CASE type = "room:peer-reconnected" /\ p \in seats[c] /\ p \in seats'[c] /\ others'[p] = "online"
  <2>1. After(r, e) = Marked(r, e, "online")
    BY <1>1, <1>2, <1>7 DEF After
  <2>2. r.list[p] # "absent" /\ place(p) = "online"
    BY <1>2, <1>7
  <2>3. After(r, e) = Room(c, [r.list EXCEPT ![p] = "online"], n)
    BY <1>1, <1>2, <2>1, <2>2 DEF Marked
  <2> QED
    BY <1>1, <1>3, <2>2, <2>3 DEF n
<1> QED
  BY <1>4, <1>5, <1>6, <1>7 DEF TellsOf

(* Room events are no rosters.                                             *)
LEMMA EventsFollow ==
    ASSUME ArrivalInv, NEW codes \in SUBSET Code, NEW type \in RoomEvent, NEW p \in Person,
           NEW volatile, Broadcast(codes, type, p, volatile),
           seats' \in [Code -> SUBSET (Person \cup {Me})], \A c \in Code : IsFiniteSet(seats'[c])
    PROVE  LeavesOwnRoom'
<1>1. UNCHANGED <<up, room>>
  BY DEF Broadcast, pageVars
<1>2. PICK d \in Seq(Messages) : d = down' /\
          \A i \in 1..Len(d) : (i \in 1..Len(down) /\ d[i] = down[i]) \/ d[i].type = type
  BY BroadcastSends DEF ArrivalInv
<1>3. type \notin Rosters
  BY DEF Rosters, RoomEvent
<1>4. \A i \in 1..Len(d) : \/ d[i].type \notin Rosters
                           \/ \E j \in 1..Len(down) : d[i].type = down[j].type
                                                      /\ d[i].room = down[j].room
  BY <1>2, <1>3
<1> QED
  BY <1>1, <1>2, <1>4, LeavesStill DEF ArrivalInv

LEMMA OthersArrival ==
    ASSUME ArrivalInv, OthersKnown, OthersStep, ViewInv'
    PROVE  ArrivalInv'
<1> PICK p \in Person :
        \/ \E c \in Code : PersonEnters(p, c) \/ PersonLeaves(p, c)
        \/ PersonDrops(p) \/ PersonReturns(p) \/ PersonExpires(p)
  BY DEF OthersStep
<1>1. /\ seats \in [Code -> SUBSET (Person \cup {Me})]
      /\ seats' \in [Code -> SUBSET (Person \cup {Me})]
      /\ \A c \in Code : IsFiniteSet(seats'[c])
      /\ p # Me /\ ViewInv /\ ViewMatches
  BY NamesApart DEF ArrivalInv, ViewInv, ViewTypeOK
<1>2. others \in [Person -> {"online", "away", "gone"}]
  BY DEF OthersKnown
<1>3. SeatsOf(p) \in SUBSET Code /\ \A c \in Code : c \in SeatsOf(p) <=> p \in seats[c]
  BY DEF SeatsOf
(* An event about the rooms codes, which tells of a change in those alone. *)
<1>4. ASSUME NEW codes \in SUBSET Code, NEW type \in RoomEvent, NEW volatile,
             Broadcast(codes, type, p, volatile),
             \A c \in Code : \A x \in (Person \cup {Me}) \ {p} : x \in seats'[c] <=> x \in seats[c],
             \A x \in Person \ {p} : others'[x] = others[x],
             \A c \in Code \ codes :
                seats'[c] = seats[c] /\ (p \in seats[c] => others'[p] = others[p]),
             \A c \in codes : TellsOf(type, p, c)
      PROVE  ArrivalInv'
  <2>1. ASSUME NEW c \in Code, NEW r \in RoomState, c \notin codes, r = Roster(c, seats[c])
        PROVE  r = Roster(c, seats[c])'
    <3>1. seats'[c] = seats[c] /\ \A x \in Person : x \in seats[c] => others'[x] = others[x]
      BY <1>4, <2>1
    <3> QED
      BY <2>1, <3>1, RosterSame
  <2>2. ASSUME NEW c \in Code, NEW r \in RoomState, c \in codes, r = Roster(c, seats[c])
        PROVE  After(r, Event(type, p, Cardinality(seats'[c]))) = Roster(c, seats[c])'
    <3>1. \A x \in Person \ {p} : (x \in seats'[c] <=> x \in seats[c]) /\ others'[x] = others[x]
      BY <1>4
    <3>2. TellsOf(type, p, c) /\ IsFiniteSet(seats'[c])
      BY <1>1, <1>4, <2>2
    <3> QED
      BY <2>2, <3>1, <3>2, RosterChanged
  <2>3. \A c \in Code : Me \in seats'[c] <=> Me \in seats[c]
    BY <1>1, <1>4
  <2>4. ViewMatches'
    BY <1>1, <1>4, <2>1, <2>2, <2>3, OneEvent
  <2>5. LeavesOwnRoom'
    BY <1>1, <1>4, EventsFollow
  <2> QED
    BY <2>4, <2>5 DEF ArrivalInv
<1>5. ASSUME NEW c \in Code, PersonEnters(p, c) PROVE ArrivalInv'
  <2>1. /\ others' = others /\ others[p] = "online" /\ p \notin seats[c]
        /\ seats' = [seats EXCEPT ![c] = @ \cup {p}]
        /\ Broadcast({c}, "room:peer-joined", p, FALSE)
    BY <1>5 DEF PersonEnters
  <2>2. seats'[c] = seats[c] \cup {p} /\ \A d \in Code \ {c} : seats'[d] = seats[d]
    BY <1>1, <2>1
  <2>3. TellsOf("room:peer-joined", p, c)
    BY <2>1, <2>2 DEF TellsOf
  <2>4. \A d \in Code : \A x \in (Person \cup {Me}) \ {p} : x \in seats'[d] <=> x \in seats[d]
    BY <2>2
  <2>5. \A d \in {c} : TellsOf("room:peer-joined", p, d)
    BY <2>3
  <2>6. {c} \in SUBSET Code /\ "room:peer-joined" \in RoomEvent
    BY DEF RoomEvent
  <2>7. \A d \in Code \ {c} : seats'[d] = seats[d] /\ (p \in seats[d] => others'[p] = others[p])
    BY <2>1, <2>2
  <2> QED
    BY <1>4, <2>1, <2>4, <2>5, <2>6, <2>7
<1>6. ASSUME NEW c \in Code, PersonLeaves(p, c) PROVE ArrivalInv'
  <2>1. /\ others' = others /\ seats' = [seats EXCEPT ![c] = @ \ {p}]
        /\ Broadcast({c}, "room:peer-left", p, FALSE)
    BY <1>6 DEF PersonLeaves
  <2>2. seats'[c] = seats[c] \ {p} /\ \A d \in Code \ {c} : seats'[d] = seats[d]
    BY <1>1, <2>1
  <2>3. TellsOf("room:peer-left", p, c)
    BY <2>2 DEF TellsOf
  <2>4. \A d \in Code : \A x \in (Person \cup {Me}) \ {p} : x \in seats'[d] <=> x \in seats[d]
    BY <2>2
  <2>5. \A d \in {c} : TellsOf("room:peer-left", p, d)
    BY <2>3
  <2>6. {c} \in SUBSET Code /\ "room:peer-left" \in RoomEvent
    BY DEF RoomEvent
  <2>7. \A d \in Code \ {c} : seats'[d] = seats[d] /\ (p \in seats[d] => others'[p] = others[p])
    BY <2>1, <2>2
  <2> QED
    BY <1>4, <2>1, <2>4, <2>5, <2>6, <2>7
<1>7. CASE PersonDrops(p)
  <2>1. /\ seats' = seats /\ others' = [others EXCEPT ![p] = "away"]
        /\ Broadcast(SeatsOf(p), "room:peer-disconnected", p, TRUE)
    BY <1>7 DEF PersonDrops
  <2>2. others'[p] # "online" /\ \A x \in Person \ {p} : others'[x] = others[x]
    BY <1>2, <2>1
  <2>3. \A c \in SeatsOf(p) : TellsOf("room:peer-disconnected", p, c)
    BY <1>3, <2>1, <2>2 DEF TellsOf
  <2> QED
    BY <1>3, <1>4, <2>1, <2>2, <2>3 DEF RoomEvent
<1>8. CASE PersonReturns(p)
  <2>1. /\ seats' = seats /\ others' = [others EXCEPT ![p] = "online"]
        /\ Broadcast(SeatsOf(p), "room:peer-reconnected", p, TRUE)
    BY <1>8 DEF PersonReturns
  <2>2. others'[p] = "online" /\ \A x \in Person \ {p} : others'[x] = others[x]
    BY <1>2, <2>1
  <2>3. \A c \in SeatsOf(p) : TellsOf("room:peer-reconnected", p, c)
    BY <1>3, <2>1, <2>2 DEF TellsOf
  <2> QED
    BY <1>3, <1>4, <2>1, <2>2, <2>3 DEF RoomEvent
<1>9. CASE PersonExpires(p)
  <2>1. /\ seats' = [c \in Code |-> seats[c] \ {p}] /\ others' = [others EXCEPT ![p] = "gone"]
        /\ Broadcast(SeatsOf(p), "room:peer-left", p, FALSE)
    BY <1>9 DEF PersonExpires
  <2>2. \A x \in Person \ {p} : others'[x] = others[x]
    BY <1>2, <2>1
  <2>3. \A c \in Code : /\ seats'[c] = seats[c] \ {p}
                        /\ c \notin SeatsOf(p) => p \notin seats[c] /\ seats'[c] = seats[c]
    BY <1>1, <1>3, <2>1
  <2>4. \A c \in SeatsOf(p) : TellsOf("room:peer-left", p, c)
    BY <1>3, <2>3 DEF TellsOf
  <2> QED
    BY <1>3, <1>4, <2>1, <2>2, <2>3, <2>4 DEF RoomEvent
<1> QED
  BY <1>5, <1>6, <1>7, <1>8, <1>9

LEMMA OthersStayKnown ==
    ASSUME OthersKnown, [Next]_vars
    PROVE  OthersKnown'
<1>1. CASE others' = others
  BY <1>1 DEF OthersKnown
<1>2. CASE Restart
  BY <1>2 DEF Restart, OthersKnown
<1>3. CASE Abandon
  <2>1. others' = others \/ \E p \in Person, s \in {"online", "away", "gone"} :
                               others' = [others EXCEPT ![p] = s]
    BY <1>3 DEF Abandon
  <2> QED
    BY <2>1 DEF OthersKnown
<1>4. CASE OthersStep /\ others' # others
  <2>1. PICK p \in Person : PersonDrops(p) \/ PersonReturns(p) \/ PersonExpires(p)
    BY <1>4 DEF OthersStep, PersonEnters, PersonLeaves
  <2>2. \E s \in {"online", "away", "gone"} : others' = [others EXCEPT ![p] = s]
    BY <2>1 DEF PersonDrops, PersonReturns, PersonExpires
  <2> QED
    BY <2>2 DEF OthersKnown
<1>5. others' = others \/ Restart \/ Abandon \/ OthersStep
  BY DEF Next, UserStep, ServerStep, Submit, Leave, GoBack, LoadPage, Handle, Throttled,
      NoticeDrop, Expire, Connect, ConnectDenied, Drop, Receive, vars, serverVars
<1> QED
  BY <1>1, <1>2, <1>3, <1>4, <1>5

-----------------------------------------------------------------------------
(* The invariant is inductive.                                             *)
THEOREM ArrivalInvInductive ==
    /\ Init => WholeInv
    /\ WholeInv /\ [Next]_vars => WholeInv'
<1>1. Init => WholeInv
  BY InitArrival, InitId DEF Init, OthersKnown, WholeInv
<1> SUFFICES ASSUME WholeInv, [Next]_vars PROVE ArrivalInv' /\ OthersKnown' /\ IdComesFirst'
  BY <1>1 DEF WholeInv
<1>0. ArrivalInv /\ OthersKnown /\ IdComesFirst
  BY DEF WholeInv
<1>2. ViewInv' /\ IdComesFirst'
  BY <1>0, ViewInvInductive DEF ArrivalInv
<1>3. ASSUME UserStep PROVE ArrivalInv'
  <2>1. ASSUME Submit("room:create", Home) PROVE ArrivalInv'
    BY <1>0, <1>2, <2>1, SubmitArrival DEF FormRequest, Place
  <2>2. ASSUME NEW c \in Code, Submit("room:join", c) PROVE ArrivalInv'
    BY <1>0, <1>2, <2>2, SubmitArrival DEF FormRequest, Place
  <2> QED
    BY <1>0, <1>2, <1>3, <2>1, <2>2, LoadPageArrival, LeaveArrival, GoBackArrival DEF UserStep
<1>4. ASSUME ServerStep PROVE ArrivalInv'
  BY <1>0, <1>2, <1>4, HandleArrival, ThrottledArrival, StillArrival, EndArrival DEF ServerStep
<1>5. ArrivalInv'
  BY <1>0, <1>2, <1>3, <1>4, OthersArrival, ConnectArrival, StillArrival, DropArrival,
      ReceiveArrival
  DEF Next
<1> QED
  BY <1>0, <1>2, <1>5, OthersStayKnown

(* Whatever the page's requests and the others' comings and goings cross,  *)
(* once everything on its way has arrived the room on the page is the      *)
(* server's, if nothing was lost since the last roster (the handlers of    *)
(* room-context.tsx, which take every answer and event in turn).           *)
THEOREM ViewAlwaysMatches == Spec => []ViewMatches
<1>1. WholeInv => ViewMatches
  BY DEF WholeInv, ArrivalInv
<1> QED
  BY <1>1, ArrivalInvInductive, PTL DEF Spec
=============================================================================
