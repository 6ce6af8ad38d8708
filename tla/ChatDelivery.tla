---------------------------- MODULE ChatDelivery ----------------------------
(***************************************************************************)
(* A conversation end to end: what the chat pages of one room show, between*)
(* the hook useChat (apps/web/app/room/[code]/chat/_hooks/use-chat.ts) on  *)
(* each page and the chat handler of the server (apps/server/src/socket/   *)
(* handlers/chat.ts), over sockets that deliver in order but drop.         *)
(*                                                                         *)
(* A message is shown at once, is confirmed or taken back when its ack     *)
(* comes, and reaches the others through the server.  Typing is announced  *)
(* once and withdrawn by a debounce timer on the page, by an expiry timer  *)
(* on the server, and by a safety net on the page that shows it.           *)
(* A callback, and the server's handling of one event, are each one step.  *)
(* A message stands for its content, its ids and its timestamps.           *)
(* RoomView has the room context and the guard in full.                    *)
(***************************************************************************)
EXTENDS Integers, Sequences, FiniteSets, SequencesExt

CONSTANTS
    Person,
    MAX_MESSAGES,
    MaxTurns      \* bound: messages, spells of typing, leaves, drops, reloads
                  \* and events over the limit, all together

ASSUME ChatAssumption ==
    /\ MAX_MESSAGES \in Nat \ {0}
    /\ MaxTurns \in Nat

VARIABLES
    seats, typing,  \* server: participants; who has an expiry timer
    link, up, down, \* p's socket, what p has emitted, what is on its way to p
    page,           \* "home", "arriving", "loading" (no room yet) or "chat"
    list,           \* messages
    isTyping,
    debounce,       \* debounce[p], of "this" and of "former" instances of the hook
    peerTyping, safetyNet, \* the indicator, and the timer that ends it
    turns,          \* how many of MaxTurns there were
    missed,         \* ghost: a message or an ack for p's list was lost
    cut,            \* ghost: <<p, n>> whose request or ack was lost
    renewed         \* p's session id changed while the page was open

serverVars == <<seats, typing>>
wireVars == <<link, up, down>>
pageVars == <<page, list, isTyping, debounce, peerTyping, safetyNet>>
ghostVars == <<missed, cut, renewed>>
vars == <<serverVars, wireVars, pageVars, turns, ghostVars>>

(* What p emits: n tells p's messages apart.                               *)
Request(type, n) == [type |-> type, n |-> n]
(* What reaches a page: an ack for its own n, or an event about from.      *)
Event(type, from, n) == [type |-> type, from |-> from, n |-> n]

(* state: "pending", "done" or "system".                                   *)
Entry(from, n, state) == [from |-> from, n |-> n, state |-> state]

Init ==
    /\ seats = Person /\ typing = {}
    /\ link = [p \in Person |-> "up"]
    /\ up = [p \in Person |-> <<>>] /\ down = [p \in Person |-> <<>>]
    /\ page = [p \in Person |-> "chat"]
    /\ list = [p \in Person |-> <<>>]
    /\ isTyping = [p \in Person |-> FALSE]
    /\ debounce = [p \in Person |-> {}]
    /\ peerTyping = [p \in Person |-> FALSE]
    /\ safetyNet = [p \in Person |-> FALSE]
    /\ turns = 0
    /\ missed = [p \in Person |-> FALSE]
    /\ cut = {}
    /\ renewed = [p \in Person |-> FALSE]

Turn == turns < MaxTurns /\ turns' = turns + 1

-----------------------------------------------------------------------------
(* The page.                                                               *)

(* Slip: the newest are cut off, not the oldest.                           *)
ShownKeepingFirst(l, e) == IF Len(l) < MAX_MESSAGES THEN Append(l, e) ELSE l

Shown(l, e) ==
    LET next == Append(l, e) IN
    SubSeq(next, IF Len(next) > MAX_MESSAGES THEN Len(next) - MAX_MESSAGES + 1 ELSE 1, Len(next))

IsOwn(e, p, n) == e.from = p /\ e.n = n /\ e.state = "pending"

Confirmed(l, p, n) ==
    [i \in DOMAIN l |-> IF IsOwn(l[i], p, n) THEN [l[i] EXCEPT !.state = "done"] ELSE l[i]]

(* Slip: the failed message is looked for under an id it does not have yet.*)
RemovedById(l, p, n) == RemoveFirst(l, Entry(p, 0, "pending"))

(* There is one message with the failed one's id.                          *)
Removed(l, p, n) == RemoveFirst(l, Entry(p, n, "pending"))

(* p's list after the event m.                                             *)
After(p, l, m) ==
    CASE m.type = "ack"                               -> Confirmed(l, p, m.n)
      [] m.type = "error"                             -> Removed(l, p, m.n)
      [] m.type = "chat:message"                      -> Shown(l, Entry(m.from, m.n, "done"))
      [] m.type \in {"room:peer-joined", "room:peer-left"} -> Shown(l, Entry(m.from, 0, "system"))
      [] OTHER                                        -> l

Listening(p) == page[p] \in {"loading", "chat"}

(* The hook is mounted anew, with nothing in it but the timers of former   *)
(* instances.                                                              *)
Remounted(p, where) ==
    /\ page' = [page EXCEPT ![p] = where]
    /\ list' = [list EXCEPT ![p] = <<>>]
    /\ isTyping' = [isTyping EXCEPT ![p] = FALSE]
    /\ peerTyping' = [peerTyping EXCEPT ![p] = FALSE]
    /\ safetyNet' = [safetyNet EXCEPT ![p] = FALSE]
    /\ missed' = [missed EXCEPT ![p] = FALSE]
    /\ renewed' = [renewed EXCEPT ![p] = FALSE]

(* The input, which the guard shows, is disabled while the socket is not   *)
(* connected.                                                              *)
InputEnabled(p) == page[p] = "chat" /\ link[p] = "up"

(* sendMessage.  It ends the typing spell without a typing:stop.           *)
SendMessage(p) ==
    LET n == turns + 1 IN
    /\ InputEnabled(p)
    /\ Turn
    /\ list' = [list EXCEPT ![p] = Shown(@, Entry(p, n, "pending"))]
    /\ isTyping' = [isTyping EXCEPT ![p] = FALSE]
    /\ debounce' = [debounce EXCEPT ![p] = IF isTyping[p] THEN @ \ {"this"} ELSE @]
    /\ up' = [up EXCEPT ![p] = Append(@, Request("chat:message", n))]
    /\ UNCHANGED <<serverVars, link, down, page, peerTyping, safetyNet, ghostVars>>

(* handleTyping.                                                           *)
HandleTyping(p) ==
    /\ InputEnabled(p)
    /\ ~isTyping[p]
    /\ Turn
    /\ isTyping' = [isTyping EXCEPT ![p] = TRUE]
    /\ debounce' = [debounce EXCEPT ![p] = @ \cup {"this"}]
    /\ up' = [up EXCEPT ![p] = Append(@, Request("typing:start", 0))]
    /\ UNCHANGED <<serverVars, link, down, page, list, peerTyping, safetyNet, ghostVars>>

(* The debounce timer, which unmounting leaves running, fires.             *)
DebounceFires(p, instance) ==
    /\ instance \in debounce[p]
    /\ debounce' = [debounce EXCEPT ![p] = @ \ {instance}]
    /\ isTyping' = IF instance = "this" THEN [isTyping EXCEPT ![p] = FALSE] ELSE isTyping
    /\ up' = [up EXCEPT ![p] = Append(@, Request("typing:stop", 0))]
    /\ UNCHANGED <<serverVars, link, down, page, list, peerTyping, safetyNet, turns, ghostVars>>

(* The leave button: room:leave, then the unmount effect's typing:stop.    *)
Leave(p) ==
    /\ page[p] = "chat"
    /\ Turn
    /\ Remounted(p, "home")
    /\ debounce' = [debounce EXCEPT ![p] = IF @ = {} THEN {} ELSE {"former"}]
    /\ up' = [up EXCEPT ![p] = @ \o <<Request("room:leave", 0)>>
                 \o (IF isTyping[p] THEN <<Request("typing:stop", 0)>> ELSE <<>>)]
    /\ UNCHANGED <<serverVars, link, down, cut>>

(* The room's page is there, some time after the form's ack.               *)
Mount(p) ==
    /\ page[p] = "arriving"
    /\ Remounted(p, "chat")
    /\ UNCHANGED <<serverVars, wireVars, debounce, turns, cut>>

(* Slip: the page relies on the others' typing:stop.                       *)
SafetyNetNotSet(m) == FALSE

SetsSafetyNet(m) == m.type = "typing:start"

(* The next event reaches the page; without the hook nobody listens.       *)
Receive(p) ==
    LET m == Head(down[p]) IN
    /\ down[p] # <<>>
    /\ down' = [down EXCEPT ![p] = Tail(@)]
    /\ IF Listening(p)
       THEN /\ list' = [list EXCEPT ![p] = After(p, @, m)]
            /\ peerTyping' = [peerTyping EXCEPT
                    ![p] = m.type = "typing:start" \/ (@ /\ m.type # "typing:stop")]
            /\ safetyNet' = [safetyNet EXCEPT
                    ![p] = SetsSafetyNet(m) \/ (@ /\ m.type # "typing:stop")]
       ELSE UNCHANGED <<list, peerTyping, safetyNet>>
    /\ UNCHANGED <<serverVars, link, up, page, isTyping, debounce, turns, ghostVars>>

SafetyNetFires(p) ==
    /\ safetyNet[p]
    /\ safetyNet' = [safetyNet EXCEPT ![p] = FALSE]
    /\ peerTyping' = [peerTyping EXCEPT ![p] = FALSE]
    /\ UNCHANGED <<serverVars, wireVars, page, list, isTyping, debounce, turns, ghostVars>>

-----------------------------------------------------------------------------
(* The server relays m to the other participants, and sends p an answer.   *)
(* It is lost on those whose socket is not there, and if it is volatile on *)
(* any of them.                                                            *)
Relayed(p, m, answer, volatile) ==
    \E lost \in IF volatile THEN SUBSET (seats \ {p}) ELSE {{}} :
        /\ down' = [q \in Person |->
                IF q = p THEN down[q] \o answer
                ELSE IF q \in seats \ lost /\ link[q] = "up" THEN Append(down[q], m)
                ELSE down[q]]
        /\ missed' = [q \in Person |->
                \/ missed[q]
                \/ /\ m.type = "chat:message" /\ q \in seats \ {p}
                   /\ link[q] # "up" /\ list[q] # <<>>]

(* A participant's message is relayed and acked, unless it is refused for  *)
(* its content or by the throttle.                                         *)
OnMessage(p, q) ==
    /\ q.type = "chat:message"
    /\ UNCHANGED seats
    /\ \/ /\ p \in seats
          /\ typing' = typing \ {p}
          /\ Relayed(p, Event("chat:message", p, q.n), <<Event("ack", p, q.n)>>, FALSE)
       \/ /\ down' = [down EXCEPT ![p] = Append(@, Event("error", p, q.n))]
          /\ UNCHANGED <<typing, missed>>

OnTypingStart(p, q) ==
    /\ q.type = "typing:start"
    /\ UNCHANGED seats
    /\ IF p \in seats
       THEN typing' = typing \cup {p} /\ Relayed(p, Event("typing:start", p, 0), <<>>, TRUE)
       ELSE UNCHANGED <<typing, down, missed>>

(* typing:stop is announced by whoever ends an entry: the event, the expiry*)
(* timer, the end of a connection; not by a message.                       *)
StopsTyping(p) ==
    IF p \in typing
    THEN typing' = typing \ {p} /\ Relayed(p, Event("typing:stop", p, 0), <<>>, TRUE)
    ELSE UNCHANGED <<typing, down, missed>>

OnTypingStop(p, q) ==
    /\ q.type = "typing:stop"
    /\ UNCHANGED seats
    /\ StopsTyping(p)

OnLeave(p, q) ==
    /\ q.type = "room:leave"
    /\ seats' = seats \ {p}
    /\ Relayed(p, Event("room:peer-left", p, 0), <<>>, FALSE)
    /\ UNCHANGED typing

Handle(p) ==
    LET q == Head(up[p]) IN
    /\ link[p] = "up" /\ up[p] # <<>>
    /\ up' = [up EXCEPT ![p] = Tail(@)]
    /\ OnMessage(p, q) \/ OnTypingStart(p, q) \/ OnTypingStop(p, q) \/ OnLeave(p, q)
    /\ UNCHANGED <<link, pageVars, turns, cut, renewed>>

(* The socket's event limit drops the event, and its ack with it.          *)
Cut(p, queues) ==
    {<<p, m.n>> : m \in {x \in queues : x.type \in {"chat:message", "ack", "error"}}}

Throttled(p) ==
    /\ link[p] = "up" /\ up[p] # <<>>
    /\ Turn
    /\ up' = [up EXCEPT ![p] = Tail(@)]
    /\ cut' = cut \cup Cut(p, {Head(up[p])})
    /\ UNCHANGED <<serverVars, link, down, pageVars, missed, renewed>>

TypingExpires(p) ==
    /\ p \in typing
    /\ StopsTyping(p)
    /\ UNCHANGED <<seats, link, up, pageVars, turns, cut, renewed>>

(* The form's request is handled behind what p had emitted, and its ack    *)
(* comes behind what was on its way to p.                                  *)
Enter(p) ==
    /\ page[p] = "home" /\ p \notin seats
    /\ link[p] = "up" /\ up[p] = <<>> /\ down[p] = <<>>
    /\ page' = [page EXCEPT ![p] = "arriving"]
    /\ seats' = seats \cup {p}
    /\ Relayed(p, Event("room:peer-joined", p, 0), <<>>, FALSE)
    /\ UNCHANGED <<typing, link, up, list, isTyping, debounce, peerTyping, safetyNet, turns, cut, renewed>>

-----------------------------------------------------------------------------
(* The connection of p breaks; what is in transit is lost.                 *)
Severed(p) ==
    /\ link' = [link EXCEPT ![p] = "down"]
    /\ up' = [up EXCEPT ![p] = <<>>] /\ down' = [down EXCEPT ![p] = <<>>]

LostEvents(p) == \E m \in ToSet(down[p]) : m.type \in {"chat:message", "ack"}

Drop(p) ==
    /\ link[p] = "up"
    /\ Turn
    /\ Severed(p)
    /\ missed' = [missed EXCEPT ![p] = @ \/ (Listening(p) /\ LostEvents(p))]
    /\ cut' = cut \cup Cut(p, ToSet(up[p])) \cup Cut(p, {m \in ToSet(down[p]) : m.from = p})
    /\ UNCHANGED <<serverVars, pageVars, renewed>>

(* The page is loaded again: nothing is unmounted properly.                *)
Reload(p) ==
    /\ Listening(p)
    /\ Turn
    /\ Severed(p)
    /\ Remounted(p, "loading")
    /\ debounce' = [debounce EXCEPT ![p] = {}]
    /\ UNCHANGED <<serverVars, cut>>

(* The guard gets its answer.                                              *)
Restore(p) ==
    /\ page[p] = "loading" /\ link[p] = "up"
    /\ IF p \in seats
       THEN /\ page' = [page EXCEPT ![p] = "chat"]
            /\ UNCHANGED <<list, isTyping, peerTyping, safetyNet, missed, renewed>>
       ELSE Remounted(p, "home")
    /\ UNCHANGED <<serverVars, wireVars, debounce, turns, cut>>

(* The server finds the connection gone, or gives the session up.          *)
NoticeDrop(p) ==
    /\ link[p] = "down" /\ p \in typing
    /\ StopsTyping(p)
    /\ UNCHANGED <<seats, link, up, pageVars, turns, cut, renewed>>

(* The typing effect is set up again for another session id: it clears its *)
(* timer, and leaves the indicator as it is.                               *)
Expire(p) ==
    /\ link[p] = "down" /\ p \in seats
    /\ seats' = seats \ {p} /\ typing' = typing \ {p}
    /\ Relayed(p, Event("room:peer-left", p, 0), <<>>, FALSE)
    /\ renewed' = [renewed EXCEPT ![p] = TRUE]
    /\ UNCHANGED <<link, up, pageVars, turns, cut>>

(* The old connection is given up, if it has not been, and the send buffer *)
(* goes out.                                                               *)
Connect(p) ==
    /\ link[p] = "down"
    /\ link' = [link EXCEPT ![p] = "up"]
    /\ StopsTyping(p)
    /\ safetyNet' = [safetyNet EXCEPT ![p] = @ /\ ~renewed[p]]
    /\ UNCHANGED <<seats, up, page, list, isTyping, debounce, peerTyping, turns, cut, renewed>>

Next ==
    \E p \in Person :
        \/ SendMessage(p) \/ HandleTyping(p) \/ Leave(p) \/ Enter(p) \/ Mount(p)
        \/ \E i \in {"this", "former"} : DebounceFires(p, i)
        \/ Receive(p) \/ SafetyNetFires(p) \/ Handle(p) \/ Throttled(p) \/ TypingExpires(p)
        \/ Drop(p) \/ Reload(p) \/ Restore(p) \/ NoticeDrop(p) \/ Expire(p) \/ Connect(p)

Spec == Init /\ [][Next]_vars

(* Pages and server handle what has arrived, socket.io reconnects, and the *)
(* safety net is a timer that fires.  The user owes nothing, and the other *)
(* timers are not needed.                                                  *)
FairSpec ==
    /\ Spec
    /\ \A p \in Person : WF_vars(Receive(p)) /\ WF_vars(Handle(p))
                         /\ WF_vars(Connect(p)) /\ WF_vars(SafetyNetFires(p))

-----------------------------------------------------------------------------
(* What p's page will list once all that is on its way has arrived.        *)
Settled(p) ==
    IF Listening(p) THEN FoldLeft(LAMBDA l, m : After(p, l, m), list[p], down[p]) ELSE <<>>

IsFrom(s, e) == e.from = s /\ e.state = "done"
Said(s, l) == {e.n : e \in {x \in ToSet(l) : IsFrom(s, x)}}

InOrder(s, l) ==
    \A i, j \in DOMAIN l : i < j /\ IsFrom(s, l[i]) /\ IsFrom(s, l[j]) => l[i].n < l[j].n

(* Two pages tell the same story: of the messages that somebody sent, each *)
(* page lists the latest in the order in which they were sent, without     *)
(* gaps or repetitions: with a message it lists every later one that any   *)
(* page lists.  So does the sender's own page, whatever was refused, cut   *)
(* off at MAX_MESSAGES, or sent before a page was open.  A page that lost  *)
(* a message or an ack to a broken connection is excused, and one that has *)
(* lost its seat without knowing.                                          *)
HistoryAgrees ==
    \A p, q \in Person : ~(missed[p] \/ missed[q] \/ renewed[p] \/ renewed[q]) =>
        \A s \in Person :
            /\ InOrder(s, Settled(p))
            /\ \A m \in Said(s, Settled(p)), n \in Said(s, Settled(q)) :
                  m < n => n \in Said(s, Settled(p))

(* A message does not stay pending: it is confirmed or taken back, unless  *)
(* its request or its ack was lost.                                        *)
Unsettled ==
    {x \in Person \X (1..MaxTurns) :
        x \notin cut /\ \E e \in ToSet(list[x[1]]) : IsOwn(e, x[1], x[2])}

PendingSettles == Unsettled # {} ~> Unsettled = {}

(* An indicator goes off again, whichever of the volatile announcements is *)
(* lost and whatever becomes of the typist, unless the page's own session  *)
(* was replaced while it was on.                                           *)
Indicated == {p \in Person : peerTyping[p] /\ ~renewed[p]}

IndicatorEnds == Indicated # {} ~> Indicated = {}
==============================================================================
