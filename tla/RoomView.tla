------------------------------ MODULE RoomView ------------------------------
(***************************************************************************)
(* What one browser page believes about its room, and what the server      *)
(* knows: the room context, the guard of the room pages, the form of the   *)
(* home page and the leave button (apps/web/app/_lib/room-context.tsx,     *)
(* _lib/socket.ts, _components/room-guard.tsx, room-form.tsx,              *)
(* room-header.tsx) over a socket that drops, is refused, and is replaced  *)
(* when the page is loaded again.                                          *)
(*                                                                         *)
(* The page belongs to the session Me; a session that the server has       *)
(* destroyed has no seat and is followed by another one under the same     *)
(* name; one whose id the page lost lives on as one of the other people,   *)
(* who are sessions that come and go as they like.                         *)
(* The server is reduced to seats and grace periods (SignalingServer has   *)
(* it in full).  A callback, a React effect with what triggered it, and    *)
(* the server's handling of one event are each one step.                   *)
(* Left out: the mode in the address, nicknames, and the copy of the room  *)
(* in local storage, which supplies nothing but a nickname.                *)
(***************************************************************************)
EXTENDS Integers, Sequences, FiniteSets, SequencesExt

CONSTANTS
    Code, Person,        \* Person: the sessions of the others
    MAX_PARTICIPANTS,
    MaxMishaps,          \* bound: drops, page loads, restarts, throttled events
    MaxInTransit         \* bound: events on their way to the page

ASSUME ViewAssumption ==
    /\ MAX_PARTICIPANTS \in Nat \ {0}
    /\ IsFiniteSet(Code)
    /\ MaxMishaps \in Nat /\ MaxInTransit \in Nat

Me == "me"
Home == "home"
ASSUME NamesApart == Me \notin Person /\ Home \notin Code

VARIABLES
    seats,       \* server: seats[c], the participants of room c
    session,     \* server: Me's session is "bound", in "grace" or "none"
    others,      \* server: others[p] is "online", "away" (in grace) or "gone"
    link,        \* the page's socket: "up", "down", or "denied" for good
    up, down,    \* requests (and the socket's send buffer), events and answers
    url, room,   \* the address, and the room context
    form,        \* the home page's form: "idle", or "waiting" for its ack
    knowsId,     \* the socket context holds the id of the present session
    stored,      \* so does what the next handshake will offer
    missed,      \* ghost: an event about the page's room did not get through
    evicted,     \* ghost: the session with the seat the page shows was destroyed
    unheard,     \* ghost: whose request, the form's or the guard's, came to nothing
    leaving,     \* ghost: the room last left, while its room:leave is on its way
    mishaps

serverVars == <<seats, session, others>>
wireVars == <<link, up, down>>
pageVars == <<url, room, form, knowsId, stored>>
ghostVars == <<missed, evicted, unheard, leaving, mishaps>>
vars == <<serverVars, wireVars, pageVars, ghostVars>>

(* A participant list, without the entry for oneself.                      *)
List == [Person -> {"absent", "online", "offline"}]
Nobody == [p \in Person |-> "absent"]

NoRoom == [code |-> Home, list |-> Nobody, count |-> 0]
Room(c, list, count) == [code |-> c, list |-> list, count |-> count]

(* live: the guard's effect that made the request has not been cancelled.  *)
Request(type, c, live) == [type |-> type, code |-> c, live |-> live]
Message(type, p, r, live) == [type |-> type, who |-> p, room |-> r, live |-> live]
Answer(type, r) == Message(type, Me, r, FALSE)
Event(type, p, n) == Message(type, p, Room(Home, Nobody, n), FALSE)
SessionCreated == Answer("session:created", NoRoom)

Seated(c) == c # Home /\ Me \in seats[c]
Shown(c) == c # Home /\ url = c /\ room.code = c
Restoring == url # Home /\ room.code # url

Init ==
    /\ seats = [c \in Code |-> {}]
    /\ session = "none"
    /\ others = [p \in Person |-> "online"]
    /\ link = "down" /\ up = <<>> /\ down = <<>>
    /\ url \in Code \cup {Home} /\ room = NoRoom /\ form = "idle"
    /\ knowsId = FALSE /\ stored = FALSE
    /\ missed = FALSE /\ evicted = FALSE /\ unheard = {} /\ leaving = Home
    /\ mishaps = 0

Mishap == mishaps < MaxMishaps /\ mishaps' = mishaps + 1

-----------------------------------------------------------------------------
(* The guard's effect is cleaned up: it will ignore the answer.            *)
Cancelled(q) == Request(q.type, q.code, FALSE)
Ignored(e) == Message(e.type, e.who, e.room, FALSE)

AllCancelled(sent) == [i \in DOMAIN sent |-> Cancelled(sent[i])]
AllIgnored(coming) == [i \in DOMAIN coming |-> Ignored(coming[i])]

(* Slip: the effect does not depend on the status of the socket.           *)
GuardRunsOnNavigation(sent, coming) ==
    /\ down' = AllIgnored(coming)
    /\ up' = AllCancelled(sent) \o
            (IF url' # url /\ url' # Home /\ room'.code # url' /\ link' = "up"
             THEN <<Request("presence:request", url', TRUE)>> ELSE <<>>)

(* The guard's effect, run when the room's code, the address, the status   *)
(* of the socket or the session id (through restoreRoom) has changed: it   *)
(* cancels its earlier question, and asks if it has to.                    *)
GuardRuns(sent, coming) ==
    /\ down' = AllIgnored(coming)
    /\ up' = AllCancelled(sent) \o
            (IF url' # Home /\ room'.code # url' /\ link' = "up"
             THEN <<Request("presence:request", url', TRUE)>> ELSE <<>>)

(* The socket connects: the send buffer goes out, then the effects run.    *)
(* The server reclaims the session whose id the handshake offers, if it    *)
(* still has it (a live session whose id the page does not have is         *)
(* abandoned before), or creates one; either way it sends session:created. *)
Connect ==
    /\ link = "down"
    /\ link' = "up"
    /\ session' = "bound"
    /\ knowsId' = (knowsId /\ session # "none")
    /\ UNCHANGED <<seats, others, url, room, form, stored, ghostVars>>
    /\ GuardRuns(up, <<SessionCreated>>)

(* The connection limit's middleware refuses the handshake: socket.io does *)
(* not try again by itself.                                                *)
ConnectDenied ==
    /\ link = "down"
    /\ Mishap
    /\ link' = "denied"
    /\ UNCHANGED <<serverVars, up, down, pageVars, missed, evicted, unheard, leaving>>

(* The connection breaks: what is in transit is lost, and the acks of the  *)
(* requests in it are never called.  Without one there is a send buffer.   *)
OfForm == {"room:create", "room:join", "created", "joined", "refused"}
FormInTransit == form = "waiting" /\ \E m \in ToSet(up) \cup ToSet(down) : m.type \in OfForm
LeaveInTransit == Request("room:leave", leaving, FALSE) \in ToSet(up)

Severed ==
    /\ link = "up"
    /\ link' = "down" /\ up' = <<>> /\ down' = <<>>
    /\ missed' = (missed \/ ToSet(down) \ {SessionCreated} # {})
    /\ unheard' = IF FormInTransit THEN {"form"} ELSE unheard \ {"guard"}
    /\ leaving' = IF LeaveInTransit THEN Home ELSE leaving
    /\ UNCHANGED <<url, room, form, knowsId>>

(* The page has lost the id of its session, or never got it: the next      *)
(* connection will have another session.  The server keeps the old one     *)
(* until its grace period ends: from here on it is somebody else, p, in    *)
(* place of one who has no seat.  Bound: with nobody like that, an id that *)
(* is worth a seat is not lost.                                            *)
SeatsOf(p) == {c \in Code : p \in seats[c]}

Abandon ==
    /\ session' = "none" /\ stored' = FALSE
    /\ \/ SeatsOf(Me) = {} /\ UNCHANGED <<seats, others>>
       \/ \E p \in Person :
            /\ SeatsOf(Me) # {} /\ SeatsOf(p) = {}
            /\ seats' = [c \in Code |-> IF Me \in seats[c] THEN (seats[c] \ {Me}) \cup {p}
                                                            ELSE seats[c]]
            /\ others' = [others EXCEPT ![p] = IF session = "bound" THEN "online" ELSE "away"]

(* A connection that breaks before session:created has arrived takes the   *)
(* new session's id with it.                                               *)
Drop ==
    /\ Severed
    /\ Mishap
    /\ UNCHANGED evicted
    /\ \/ stored /\ UNCHANGED <<serverVars, stored>>
       \/ ~stored /\ Abandon

(* A page load: a reload, or an address typed in.  The socket and its send *)
(* buffer are new; the session id is read from local storage, where it is  *)
(* if it ever arrived and the browser lets the page have a storage.        *)
LoadPage(u) ==
    /\ Mishap
    /\ link' = "down" /\ up' = <<>> /\ down' = <<>>
    /\ url' = u /\ room' = NoRoom /\ form' = "idle" /\ knowsId' = FALSE
    /\ missed' = FALSE /\ evicted' = FALSE /\ unheard' = {}
    /\ leaving' = IF LeaveInTransit THEN Home ELSE leaving
    /\ \/ (stored \/ session = "none") /\ UNCHANGED <<serverVars, stored>>
       \/ session # "none" /\ Abandon

-----------------------------------------------------------------------------
(* The user.  createRoom and joinRoom: the form is disabled unless the     *)
(* socket is connected and no ack is awaited.                              *)
Submit(type, c) ==
    /\ url = Home /\ form = "idle" /\ link = "up"
    /\ form' = "waiting"
    /\ up' = Append(up, Request(type, c, FALSE))
    /\ UNCHANGED <<serverVars, link, down, url, room, knowsId, stored, ghostVars>>

(* Slip: the room is forgotten, the server is not told.                    *)
LeaveSilently ==
    /\ Shown(url)
    /\ url' = Home /\ room' = NoRoom
    /\ leaving' = url
    /\ UNCHANGED <<serverVars, wireVars, form, knowsId, stored, missed, evicted, unheard, mishaps>>

(* The leave button: leaveRoom, then back to the home page.  Before the    *)
(* guard is gone its effect sees a page without a room and asks for it;    *)
(* that answer it ignores.                                                 *)
Leave ==
    /\ Shown(url)
    /\ url' = Home /\ room' = NoRoom
    /\ leaving' = url
    /\ up' = up \o <<Request("room:leave", url, FALSE)>>
                \o (IF link = "up" THEN <<Request("presence:request", url, FALSE)>> ELSE <<>>)
    /\ UNCHANGED <<serverVars, link, down, form, knowsId, stored, missed, evicted, unheard, mishaps>>

(* The browser's Back button: the context keeps the room.                  *)
GoBack ==
    /\ url # Home
    /\ url' = Home
    /\ UNCHANGED <<serverVars, link, room, form, knowsId, stored, ghostVars>>
    /\ GuardRuns(up, down)

-----------------------------------------------------------------------------
(* Room events.  They carry no room code: they change whatever room the    *)
(* context holds.                                                          *)
Entered(r, e) ==
    Room(r.code, [r.list EXCEPT ![e.who] = IF @ = "absent" THEN "online" ELSE @], e.room.count)

Left(r, e) == Room(r.code, [r.list EXCEPT ![e.who] = "absent"], e.room.count)

Marked(r, e, flag) ==
    Room(r.code, [r.list EXCEPT ![e.who] = IF @ = "absent" THEN @ ELSE flag], e.room.count)

(* Slip: a restore that fails falls back on the stored room.               *)
UnrestoredFromStorage(r, e) == Room(e.room.code, Nobody, 1)

(* A restore that fails clears the room if it is the one asked about.      *)
Unrestored(r, e) == IF r.code = e.room.code THEN NoRoom ELSE r

(* The room context after an event or an answer.                           *)
After(r, e) ==
    CASE e.type \in {"created", "joined", "present"}       -> e.room
      [] e.type = "absent"                                 -> Unrestored(r, e)
      [] e.type = "room:peer-joined" /\ r # NoRoom         -> Entered(r, e)
      [] e.type = "room:peer-left" /\ r # NoRoom           -> Left(r, e)
      [] e.type = "room:peer-disconnected" /\ r # NoRoom   -> Marked(r, e, "offline")
      [] e.type = "room:peer-reconnected" /\ r # NoRoom    -> Marked(r, e, "online")
      [] OTHER                                             -> r

(* The next message reaches the page.  An answer to the form leads to the  *)
(* room's page; the guard turns away who has no seat, if it still wants to *)
(* know; a new session id makes it ask again.                              *)
Receive ==
    LET e == Head(down)
        admitted == e.type \in {"created", "joined"}
    IN
    /\ down # <<>>
    /\ room' = After(room, e)
    /\ url' = IF admitted THEN e.room.code
              ELSE IF e.type = "absent" /\ e.live THEN Home ELSE url
    /\ form' = IF admitted \/ e.type = "refused" THEN "idle" ELSE form
    /\ knowsId' = (knowsId \/ e.type = "session:created")
    /\ stored' = (stored \/ e.type = "session:created")
    /\ evicted' = (evicted /\ ~admitted /\ e.type # "present")
    /\ UNCHANGED <<serverVars, link, missed, unheard, leaving, mishaps>>
    /\ IF knowsId' # knowsId \/ room'.code # room.code \/ url' # url
       THEN GuardRuns(up, Tail(down))
       ELSE down' = Tail(down) /\ UNCHANGED up

-----------------------------------------------------------------------------
(* The server.  The other participants that a room's answer lists.         *)
Roster(c, people) ==
    Room(c, [p \in Person |-> IF p \notin people THEN "absent"
                              ELSE IF others[p] = "online" THEN "online" ELSE "offline"],
         Cardinality(people))

(* The server handles the page's next request.                             *)
Reply(m) == down' = Append(down, m)

OnCreate(q) ==
    /\ q.type = "room:create"
    /\ UNCHANGED leaving
    /\ \/ \E c \in Code :
            /\ seats[c] = {}
            /\ seats' = [seats EXCEPT ![c] = {Me}]
            /\ Reply(Answer("created", Room(c, Nobody, 1)))
            /\ missed' = FALSE
       \/ Reply(Answer("refused", NoRoom)) /\ UNCHANGED <<seats, missed>>

(* Slip: the participants are read before the newcomer is among them.      *)
OnJoinCountsFirst(q) ==
    LET c == q.code IN
    /\ q.type = "room:join"
    /\ UNCHANGED leaving
    /\ IF seats[c] # {} /\ Me \notin seats[c] /\ Cardinality(seats[c]) < MAX_PARTICIPANTS
       THEN /\ seats' = [seats EXCEPT ![c] = @ \cup {Me}]
            /\ Reply(Answer("joined", Roster(c, seats[c])))
            /\ missed' = FALSE
       ELSE Reply(Answer("refused", NoRoom)) /\ UNCHANGED <<seats, missed>>

(* Refused if it is full, not there, already joined ("Already in this      *)
(* room") or tried too often.                                              *)
OnJoin(q) ==
    LET c == q.code IN
    /\ q.type = "room:join"
    /\ UNCHANGED leaving
    /\ \/ /\ seats[c] # {} /\ Me \notin seats[c] /\ Cardinality(seats[c]) < MAX_PARTICIPANTS
          /\ seats' = [seats EXCEPT ![c] = @ \cup {Me}]
          /\ Reply(Answer("joined", Roster(c, seats'[c])))
          /\ missed' = FALSE
       \/ Reply(Answer("refused", NoRoom)) /\ UNCHANGED <<seats, missed>>

OnLeave(q) ==
    /\ q.type = "room:leave"
    /\ seats' = [seats EXCEPT ![q.code] = @ \ {Me}]
    /\ leaving' = IF leaving = q.code THEN Home ELSE leaving
    /\ UNCHANGED <<down, missed>>

OnPresence(q) ==
    /\ q.type = "presence:request"
    /\ IF Seated(q.code)
       THEN Reply(Message("present", Me, Roster(q.code, seats[q.code]), q.live)) /\ missed' = FALSE
       ELSE Reply(Message("absent", Me, Room(q.code, Nobody, 0), q.live)) /\ UNCHANGED missed
    /\ UNCHANGED <<seats, leaving>>

Handle ==
    /\ link = "up" /\ up # <<>>
    /\ up' = Tail(up)
    /\ OnCreate(Head(up)) \/ OnJoin(Head(up)) \/ OnLeave(Head(up)) \/ OnPresence(Head(up))
    /\ UNCHANGED <<session, others, link, pageVars, evicted, unheard, mishaps>>

(* The socket's event limit drops the request: no ack will come.           *)
Throttled ==
    /\ link = "up" /\ up # <<>>
    /\ Mishap
    /\ up' = Tail(up)
    /\ unheard' = unheard \cup (IF Head(up).live THEN {"guard"} ELSE {})
                           \cup (IF Head(up).type \in OfForm THEN {"form"} ELSE {})
    /\ leaving' = IF Head(up).type = "room:leave" THEN Home ELSE leaving
    /\ UNCHANGED <<serverVars, link, down, pageVars, missed, evicted>>

(* The server finds the connection dead; the grace period runs out; the    *)
(* process is restarted.                                                   *)
NoticeDrop ==
    /\ session = "bound" /\ link # "up"
    /\ session' = "grace"
    /\ UNCHANGED <<seats, others, wireVars, pageVars, ghostVars>>

Expire ==
    /\ session = "grace" /\ link # "up"
    /\ session' = "none" /\ stored' = FALSE
    /\ seats' = [c \in Code |-> seats[c] \ {Me}]
    /\ evicted' = (room # NoRoom)
    /\ UNCHANGED <<others, wireVars, url, room, form, knowsId, missed, unheard, leaving, mishaps>>

Restart ==
    /\ Mishap
    /\ seats' = [c \in Code |-> {}]
    /\ session' = "none" /\ stored' = FALSE
    /\ others' = [p \in Person |-> "gone"]
    /\ evicted' = (room # NoRoom)
    /\ \/ Severed
       \/ link # "up" /\ UNCHANGED <<wireVars, url, room, form, knowsId, missed, unheard, leaving>>

-----------------------------------------------------------------------------
(* The others.  The page's socket is in the broadcast rooms of Me's seats; *)
(* an event about one of them is lost if the socket is not there, or, if   *)
(* it is volatile, at any time.                                            *)
Broadcast(codes, type, p, volatile) ==
    LET mine == SetToSeq({c \in codes : Seated(c)}) IN
    /\ Len(down) < MaxInTransit
    /\ \/ mine = <<>> /\ UNCHANGED <<down, missed>>
       \/ /\ mine # <<>> /\ link = "up"
          /\ down' = down \o [i \in DOMAIN mine |-> Event(type, p, Cardinality(seats'[mine[i]]))]
          /\ UNCHANGED missed
       \/ /\ mine # <<>> /\ (link # "up" \/ volatile)
          /\ missed' = TRUE
          /\ UNCHANGED down
    /\ UNCHANGED <<session, link, up, pageVars, evicted, unheard, leaving, mishaps>>

PersonEnters(p, c) ==
    /\ others[p] = "online" /\ p \notin seats[c] /\ Cardinality(seats[c]) < MAX_PARTICIPANTS
    /\ seats' = [seats EXCEPT ![c] = @ \cup {p}]
    /\ UNCHANGED others
    /\ Broadcast({c}, "room:peer-joined", p, FALSE)

PersonLeaves(p, c) ==
    /\ others[p] = "online" /\ p \in seats[c]
    /\ seats' = [seats EXCEPT ![c] = @ \ {p}]
    /\ UNCHANGED others
    /\ Broadcast({c}, "room:peer-left", p, FALSE)

PersonDrops(p) ==
    /\ others[p] = "online"
    /\ others' = [others EXCEPT ![p] = "away"]
    /\ UNCHANGED seats
    /\ Broadcast(SeatsOf(p), "room:peer-disconnected", p, TRUE)

PersonReturns(p) ==
    /\ others[p] = "away"
    /\ others' = [others EXCEPT ![p] = "online"]
    /\ UNCHANGED seats
    /\ Broadcast(SeatsOf(p), "room:peer-reconnected", p, TRUE)

PersonExpires(p) ==
    /\ others[p] = "away"
    /\ others' = [others EXCEPT ![p] = "gone"]
    /\ seats' = [c \in Code |-> seats[c] \ {p}]
    /\ Broadcast(SeatsOf(p), "room:peer-left", p, FALSE)

UserStep ==
    \/ Submit("room:create", Home) \/ \E c \in Code : Submit("room:join", c)
    \/ Leave \/ GoBack
    \/ \E u \in Code \cup {Home} : LoadPage(u)

OthersStep ==
    \E p \in Person :
        \/ \E c \in Code : PersonEnters(p, c) \/ PersonLeaves(p, c)
        \/ PersonDrops(p) \/ PersonReturns(p) \/ PersonExpires(p)

ServerStep == Handle \/ Throttled \/ NoticeDrop \/ Expire \/ Restart

Next == UserStep \/ OthersStep \/ ServerStep \/ Connect \/ ConnectDenied \/ Drop \/ Receive

Spec == Init /\ [][Next]_vars

(* The page and the server handle what has arrived, socket.io keeps trying *)
(* to connect, the server's ping timeout and grace timer fire.  Nothing is *)
(* assumed of the user or of the others.                                   *)
FairSpec ==
    /\ Spec
    /\ WF_vars(Receive) /\ WF_vars(Handle) /\ WF_vars(Connect)
    /\ WF_vars(NoticeDrop) /\ WF_vars(Expire)

-----------------------------------------------------------------------------
(* What the page will believe once all that is on its way has arrived.     *)
Settled == FoldLeft(After, room, down)

(* The page's room is the server's, up to what is still in transit: if no  *)
(* event was lost since the last roster, the participants, their status    *)
(* and the count are right, in whatever order joins, leaves, outages and   *)
(* the page's own requests crossed.  This needs the session to be in no    *)
(* second room, whose events it could not tell apart.                      *)
ViewMatches ==
    LET r == Settled IN
    ~missed /\ r.code \in Code /\ SeatsOf(Me) = {r.code} =>
        r = Roster(r.code, seats[r.code])

(* A room is shown only to somebody who has a seat in it, or whose session *)
(* was destroyed while it was shown: not to a visitor who left, was        *)
(* refused, or came back too late.                                         *)
ShownHasSeat == \A c \in Code : Shown(c) /\ ~evicted => Seated(c)

(* Nobody waits for ever: the guard lets a visitor in or turns it away,    *)
(* and the form gets its answer, unless the request or the answer was lost.*)
WaitingEnds ==
    /\ Restoring ~> (~Restoring \/ "guard" \in unheard \/ link = "denied")
    /\ form = "waiting" ~> (form = "idle" \/ "form" \in unheard)

(* A room left on the page is left on the server, by the message or by the *)
(* end of the grace period, however the connection fares, unless the       *)
(* message was lost on the way.                                            *)
LeaveFreesSeat ==
    leaving # Home /\ Seated(leaving) ~> leaving = Home \/ ~Seated(leaving)

(* What room-guard.tsx says of itself, "redirects if membership is         *)
(* invalid": a page without a seat in the room it shows does not stay.     *)
SeatlessPageEnds ==
    \A c \in Code :
        Shown(c) /\ ~Seated(c) /\ link = "up" ~> (~Shown(c) \/ Seated(c) \/ link # "up")
==============================================================================
