------------------------------ MODULE CallSetup ------------------------------
(***************************************************************************)
(* A video call between the two participants of a room                     *)
(* (apps/web/app/room/[code]/video/_hooks/use-webrtc.ts over               *)
(* _lib/webrtc.ts and _lib/room-context.tsx), with the server's relay.     *)
(*                                                                         *)
(* One client created the room, the other joins it; each keeps its session *)
(* id throughout.  Client 2 has the higher id, so it is the one that       *)
(* offers.  A client's callbacks, a queued WebRTC operation, and the       *)
(* server's handling of one event are each one step.                       *)
(*                                                                         *)
(* An SDP is <<c, n>>, the n-th that client c made.  ICE candidates are    *)
(* left out: whether a path is found is the browser's choice, once the     *)
(* descriptions in force on both sides match.  Of what the page shows only *)
(* the peer's microphone badge is here (the camera's travels with it): acks*)
(* and errors only change labels, never what happens next.                 *)
(***************************************************************************)
EXTENDS Integers, Sequences

CONSTANTS
    MAX_ICE_RESTARTS,
    MaxOutages,      \* bound: connection drops, reloads and leaves
    MaxIncidents     \* bound: losses of a media path that works, and clicks
                     \* on a microphone button, together

ASSUME BoundsAssumption ==
    MAX_ICE_RESTARTS \in Nat /\ MaxOutages \in Nat /\ MaxIncidents \in Nat

Client == 1..2
Peer(c) == 3 - c
(* Slip: everybody offers.                                                 *)
OffersAnyway(c) == TRUE
Offers(c) == c > Peer(c)      \* myId > targetSessionId

NoSdp == <<>>
Sdp == {NoSdp} \cup (Client \X Nat)

VARIABLES
    joiner,    \* which of the two joined the room (constant)
    seated,    \* server: is c a participant
    link,      \* c's socket is connected
    up, down,  \* events in transit from and to client c, in order
    view,      \* RoomContext: a room is known; its entry for the peer, and for itself
    hook,      \* useWebRTC: not mounted, acquiring media, ready, or denied media
    found,     \* the participant that the mount-time closure of init finds online
    pending,   \* pendingOfferRef
    call,      \* peerRef with its RTCPeerConnection, and the restart bookkeeping
    made,      \* number of SDPs c has made
    muted,     \* isAudioMuted
    badge,     \* remoteAudioMuted: the page shows the peer as muted
    unseen,    \* ghost: who may not show the flag that the peer has sent last,
               \* since the peer's call got connected
    outages, losses, toggles

serverVars == <<joiner, seated>>
wireVars == <<link, up, down>>
hookVars == <<hook, found, pending>>
mediaVars == <<muted, badge, unseen>>
counts == <<outages, losses, toggles>>
vars == <<serverVars, wireVars, view, hookVars, call, made, mediaVars, counts>>

NoView == [room |-> FALSE, peer |-> "absent", self |-> FALSE]

(* target: whom the call is with, "none" if peerRef is null.  offered: a   *)
(* local offer not answered yet; local, remote: the descriptions in force. *)
(* ops: the connection's queue of operations.                              *)
NewCall(target, ops) ==
    [target |-> target, offered |-> NoSdp, local |-> NoSdp, remote |-> NoSdp,
     conn |-> "new", ops |-> ops, restarts |-> 0, timer |-> FALSE]
NoCall == NewCall("none", <<>>)

Op(op, sdp, re) == [op |-> op, sdp |-> sdp, re |-> re]
Offer == Op("offer", NoSdp, NoSdp)

(* sdp and re belong to offers and answers (re, the offer answered, is not *)
(* on the wire); peer, the other's entry in a roster, to room answers.     *)
Event(type, sdp, re, peer) == [type |-> type, sdp |-> sdp, re |-> re, peer |-> peer]
Note(type) == Event(type, NoSdp, NoSdp, "absent")
MediaState(m) == [type |-> "media", muted |-> m]

Init ==
    /\ joiner \in Client
    /\ seated = [c \in Client |-> c # joiner]
    /\ link = [c \in Client |-> TRUE]
    /\ up = [c \in Client |-> <<>>]
    /\ down = [c \in Client |-> <<>>]
    /\ view = [c \in Client |-> [NoView EXCEPT !.room = c # joiner]]
    /\ hook = [c \in Client |-> "away"]
    /\ found = [c \in Client |-> "nobody"]
    /\ pending = [c \in Client |-> NoSdp]
    /\ call = [c \in Client |-> NoCall]
    /\ made = [c \in Client |-> 0]
    /\ muted = [c \in Client |-> FALSE]
    /\ badge = [c \in Client |-> FALSE]
    /\ unseen = {}
    /\ outages = 0 /\ losses = 0 /\ toggles = 0

-----------------------------------------------------------------------------
(* The wire.  Events to a client that is not connected are lost.           *)
Emit(c, e) == up' = [up EXCEPT ![c] = Append(@, e)]
Delivered(c, e) == IF link[c] THEN [down EXCEPT ![c] = Append(@, e)] ELSE down
Deliver(c, e) == down' = Delivered(c, e)
DeliverVolatile(c, e) == down' \in {down, Delivered(c, e)}

(* The browser.  The two ends can exchange media once each has in force    *)
(* what the other one made.                                                *)
Open(c) == call[c].target # "none"

Linked(c) ==
    /\ Open(c) /\ Open(Peer(c))
    /\ call[c].local # NoSdp
    /\ call[c].local = call[Peer(c)].remote
    /\ call[c].remote = call[Peer(c)].local

(* No answer is being made, on its way or being accepted.                  *)
Settled ==
    \A c \in Client :
        /\ \A i \in DOMAIN call[c].ops : call[c].ops[i].op = "offer"
        /\ \A queue \in {up[c], down[c]} : \A i \in DOMAIN queue : queue[i].type # "answer"

-----------------------------------------------------------------------------
(* createPeer: does nothing without a room, and closes the previous call.  *)
(* offers says whether this side makes the offer, ops what follows.        *)
CreatePeer(c, target, ops) ==
    call' = IF view[c].room THEN [call EXCEPT ![c] = NewCall(target, ops)] ELSE call

(* Slip: the offer is made twice, as if init also ran on negotiationneeded.*)
CallPeerTwice(c) == CreatePeer(c, "peer", IF Offers(c) THEN <<Offer, Offer>> ELSE <<>>)

CallPeer(c) == CreatePeer(c, "peer", IF Offers(c) THEN <<Offer>> ELSE <<>>)

(* Slip: the restart offer is counted and never sent.                      *)
RestartUnsent(r) ==
    IF r.restarts >= MAX_ICE_RESTARTS THEN r ELSE [r EXCEPT !.restarts = @ + 1]

(* attemptIceRestart, on a call that is open.                              *)
Restart(r) ==
    IF r.restarts >= MAX_ICE_RESTARTS THEN r
    ELSE [r EXCEPT !.restarts = @ + 1, !.ops = Append(@, Offer)]

(* Entering a room from the home page's form.  The code is first shown on  *)
(* the room page of whoever is in the room.                                *)
AskToJoin(c) ==
    /\ link[c] /\ hook[c] = "away" /\ ~view[c].room /\ ~seated[c]
    /\ up[c] = <<>>
    /\ hook[Peer(c)] # "away"
    /\ Emit(c, Note("join"))
    /\ UNCHANGED <<serverVars, link, down, view, hookVars, call, made, mediaVars, counts>>

(* The route change is over and the hook mounts; init's closure keeps the  *)
(* room as it is now.  The server's roster lists oneself too, last.        *)
Mount(c) ==
    /\ hook[c] = "away" /\ view[c].room
    /\ hook' = [hook EXCEPT ![c] = "acquiring"]
    /\ found' = [found EXCEPT ![c] = IF view[c].peer = "online" THEN "peer"
                                     ELSE IF view[c].self THEN "self" ELSE "nobody"]
    /\ UNCHANGED <<serverVars, wireVars, view, pending, call, made, mediaVars, counts>>

(* Slip: no return after the queued offer, so the peer is called as well.  *)
MediaReadyCallsToo(c) ==
    /\ hook[c] = "acquiring"
    /\ hook' = [hook EXCEPT ![c] = "ready"]
    /\ pending' = [pending EXCEPT ![c] = NoSdp]
    /\ IF found[c] = "peer" THEN CallPeer(c) ELSE UNCHANGED call
    /\ UNCHANGED <<serverVars, wireVars, view, found, made, mediaVars, counts>>

(* init, once camera and ICE servers are there: a queued offer is answered,*)
(* otherwise the participant found at mount is called.                     *)
MediaReady(c) ==
    /\ hook[c] = "acquiring"
    /\ hook' = [hook EXCEPT ![c] = "ready"]
    /\ pending' = [pending EXCEPT ![c] = NoSdp]
    /\ \/ /\ pending[c] # NoSdp
          /\ CreatePeer(c, "peer", <<Op("answer", pending[c], NoSdp)>>)
       \/ /\ pending[c] = NoSdp /\ found[c] = "peer"
          /\ CallPeer(c)
       \/ /\ pending[c] = NoSdp /\ found[c] = "self"
          /\ CreatePeer(c, "self", <<>>)
       \/ /\ pending[c] = NoSdp /\ found[c] = "nobody"
          /\ UNCHANGED call
    /\ UNCHANGED <<serverVars, wireVars, view, found, made, mediaVars, counts>>

MediaDenied(c) ==
    /\ hook[c] = "acquiring"
    /\ hook' = [hook EXCEPT ![c] = "denied"]
    /\ UNCHANGED <<serverVars, wireVars, view, found, pending, call, made, mediaVars, counts>>

-----------------------------------------------------------------------------
(* Events a client receives.  RoomContext's handlers keep the participant  *)
(* list; the hook's handlers exist while it is mounted.                    *)
Entry(c, peer) == view' = [view EXCEPT ![c].peer = IF view[c].room THEN peer ELSE @]

(* The answer to room:join or presence:request.                            *)
OnAnswerOfRoom(c, e) ==
    /\ view' = [view EXCEPT ![c] = [room |-> TRUE, peer |-> e.peer, self |-> TRUE]]
    /\ UNCHANGED <<pending, call>>

OnPeerJoined(c, e) ==
    /\ e.type = "peer-joined"
    /\ Entry(c, IF view[c].peer = "absent" THEN "online" ELSE view[c].peer)
    /\ IF hook[c] = "ready" THEN CallPeer(c) ELSE UNCHANGED call
    /\ UNCHANGED pending

OnPeerLeft(c, e) ==
    /\ e.type = "peer-left"
    /\ Entry(c, "absent")
    /\ call' = [call EXCEPT ![c] = NoCall]
    /\ badge' = [badge EXCEPT ![c] = FALSE]
    /\ UNCHANGED pending

OnPeerDisconnected(c, e) ==
    /\ e.type = "peer-disconnected"
    /\ Entry(c, IF view[c].peer = "absent" THEN "absent" ELSE "offline")
    /\ UNCHANGED <<pending, call>>

(* Slip: always a fresh connection.                                        *)
OnPeerReconnectedAfresh(c, e) ==
    /\ e.type = "peer-reconnected"
    /\ Entry(c, IF view[c].peer = "absent" THEN "absent" ELSE "online")
    /\ IF hook[c] = "ready" THEN CallPeer(c) ELSE UNCHANGED call
    /\ UNCHANGED pending

OnPeerReconnected(c, e) ==
    /\ e.type = "peer-reconnected"
    /\ Entry(c, IF view[c].peer = "absent" THEN "absent" ELSE "online")
    /\ IF hook[c] = "ready" /\ ~(call[c].target = "peer" /\ call[c].conn = "connected")
       THEN CallPeer(c) ELSE UNCHANGED call
    /\ UNCHANGED pending

(* Queued until media is there; handled on the existing call if there is   *)
(* one with the sender, else on a new one.                                 *)
OnOffer(c, e) ==
    /\ e.type = "offer"
    /\ pending' = [pending EXCEPT ![c] = IF hook[c] \in {"acquiring", "denied"} THEN e.sdp ELSE @]
    /\ LET answer == Op("answer", e.sdp, NoSdp) IN
       IF hook[c] # "ready" THEN UNCHANGED call
       ELSE IF call[c].target = "peer"
       THEN call' = [call EXCEPT ![c].ops = Append(@, answer)]
       ELSE CreatePeer(c, "peer", <<answer>>)
    /\ UNCHANGED view

OnAnswer(c, e) ==
    /\ e.type = "answer"
    /\ call' = IF hook[c] # "away" /\ Open(c)
               THEN [call EXCEPT ![c].ops = Append(@, Op("accept", e.sdp, e.re))] ELSE call
    /\ UNCHANGED <<view, pending>>

(* Ignored while the call is with somebody else.                           *)
OnMediaState(c, e) ==
    /\ e.type = "media"
    /\ IF hook[c] # "away" /\ call[c].target # "self"
       THEN badge' = [badge EXCEPT ![c] = e.muted] /\ UNCHANGED unseen
       ELSE unseen' = unseen \cup {c} /\ UNCHANGED badge
    /\ UNCHANGED <<view, pending, call>>

Receive(c) ==
    /\ down[c] # <<>>
    /\ down' = [down EXCEPT ![c] = Tail(@)]
    /\ LET e == Head(down[c]) IN
         \/ OnMediaState(c, e)
         \/ /\ \/ OnPeerLeft(c, e)
               \/ /\ \/ e.type = "room" /\ OnAnswerOfRoom(c, e)
                     \/ OnPeerJoined(c, e)
                     \/ OnPeerDisconnected(c, e) \/ OnPeerReconnected(c, e)
                     \/ OnOffer(c, e) \/ OnAnswer(c, e)
                  /\ UNCHANGED badge
            /\ UNCHANGED unseen
    /\ UNCHANGED <<serverVars, link, up, hook, found, made, muted, counts>>

-----------------------------------------------------------------------------
(* The connection's queued operations (createOffer and setLocalDescription;*)
(* handleOffer; handleAnswer), each with what follows in its then().       *)

(* Slip: the disconnect timer survives the change of state.                *)
RenewedWithTimer(r) == IF r.conn \in {"disconnected", "failed"} THEN [r EXCEPT !.conn = "new"] ELSE r

(* A description changes: a broken path is tried afresh.                   *)
Renewed(r) ==
    IF r.conn \in {"disconnected", "failed"} THEN [r EXCEPT !.conn = "new", !.timer = FALSE] ELSE r

MakeOffer(c) ==
    /\ Head(call[c].ops).op = "offer"
    /\ made' = [made EXCEPT ![c] = @ + 1]
    /\ call' = [call EXCEPT ![c].ops = Tail(@), ![c].offered = <<c, made'[c]>>]
    /\ Emit(c, Event("offer", <<c, made'[c]>>, NoSdp, "absent"))

(* Setting a remote offer rolls back a local one that is not answered yet. *)
MakeAnswer(c) ==
    LET r == call[c]
        offer == Head(r.ops).sdp IN
    /\ Head(r.ops).op = "answer"
    /\ made' = [made EXCEPT ![c] = @ + 1]
    /\ call' = [call EXCEPT ![c] =
            Renewed([r EXCEPT !.ops = Tail(r.ops), !.offered = NoSdp,
                              !.remote = offer, !.local = <<c, made'[c]>>])]
    /\ Emit(c, Event("answer", <<c, made'[c]>>, offer, "absent"))

(* Without an offer outstanding setRemoteDescription rejects the answer.   *)
AcceptAnswer(c) ==
    LET r == call[c] IN
    /\ Head(r.ops).op = "accept"
    /\ call' = [call EXCEPT ![c] =
            IF r.offered = NoSdp THEN [r EXCEPT !.ops = Tail(r.ops)]
            ELSE Renewed([r EXCEPT !.ops = Tail(r.ops), !.offered = NoSdp,
                             !.local = r.offered, !.remote = Head(r.ops).sdp])]
    /\ UNCHANGED <<up, made>>

Operate(c) ==
    /\ call[c].ops # <<>>
    /\ MakeOffer(c) \/ MakeAnswer(c) \/ AcceptAnswer(c)
    /\ UNCHANGED <<serverVars, link, down, view, hookVars, mediaVars, counts>>

BroadcastMediaState(c, m) ==
    up' = IF view[c].room THEN [up EXCEPT ![c] = Append(@, MediaState(m))] ELSE up

(* Slip: the flag is sent on a click only.                                 *)
PushNothing(c) == UNCHANGED up

(* The effect on connectionState becoming "connected".                     *)
PushMediaState(c) == BroadcastMediaState(c, muted[c])

(* onConnectionStateChange.  A path that should work may break; one that   *)
(* cannot work does, but not while an answer is about to come into force:  *)
(* ICE's timeouts are far longer than that takes.                          *)
Connect(c) ==
    /\ Linked(c)
    /\ call[c].conn \in {"new", "disconnected"}
    /\ call' = [call EXCEPT ![c].conn = "connected", ![c].restarts = 0, ![c].timer = FALSE]
    /\ PushMediaState(c)
    /\ unseen' = unseen \ {Peer(c)}
    /\ UNCHANGED <<serverVars, link, down, view, hookVars, made, muted, badge, counts>>

PathBreaks(c) ==
    \/ Linked(c) /\ losses + toggles < MaxIncidents /\ losses' = losses + 1
    \/ ~Linked(c) /\ Settled /\ UNCHANGED losses

(* There is a track once there is media.                                   *)
ToggleAudio(c) ==
    /\ losses + toggles < MaxIncidents /\ toggles' = toggles + 1
    /\ hook[c] = "ready"
    /\ muted' = [muted EXCEPT ![c] = ~@]
    /\ BroadcastMediaState(c, ~muted[c])
    /\ UNCHANGED <<serverVars, link, down, view, hookVars, call, made, badge, unseen, outages, losses>>

Disconnected(c) ==
    /\ call[c].conn = "connected"
    /\ PathBreaks(c)
    /\ call' = [call EXCEPT ![c].conn = "disconnected", ![c].timer = TRUE]
    /\ UNCHANGED <<serverVars, wireVars, view, hookVars, made, mediaVars, outages, toggles>>

Failed(c) ==
    /\ call[c].conn \in {"new", "disconnected"} /\ call[c].remote # NoSdp
    /\ PathBreaks(c)
    /\ call' = [call EXCEPT ![c] = Restart([@ EXCEPT !.conn = "failed", !.timer = FALSE])]
    /\ UNCHANGED <<serverVars, wireVars, view, hookVars, made, mediaVars, outages, toggles>>

(* Still disconnected after DISCONNECTED_TIMEOUT_MS.                       *)
TimerFires(c) ==
    /\ call[c].timer
    /\ call' = [call EXCEPT ![c] =
            IF @.conn = "disconnected" THEN Restart([@ EXCEPT !.timer = FALSE])
            ELSE [@ EXCEPT !.timer = FALSE]]
    /\ UNCHANGED <<serverVars, wireVars, view, hookVars, made, mediaVars, counts>>

-----------------------------------------------------------------------------
(* The server handles the next event from c.                               *)
RosterEntry(c) == IF ~seated[c] THEN "absent" ELSE IF link[c] THEN "online" ELSE "offline"

RelaySignal(c, e) ==
    /\ e.type \in {"offer", "answer"}
    /\ IF seated[c] /\ seated[Peer(c)] THEN Deliver(Peer(c), e) ELSE UNCHANGED down
    /\ UNCHANGED seated

(* To everybody else in the room who is connected.                         *)
RelayMediaState(c, e) ==
    LET heard == seated[c] /\ seated[Peer(c)] /\ link[Peer(c)] IN
    /\ e.type = "media"
    /\ IF heard THEN Deliver(Peer(c), e) ELSE UNCHANGED down
    /\ unseen' = IF heard THEN unseen \ {Peer(c)} ELSE unseen \cup {Peer(c)}
    /\ UNCHANGED seated

HandleJoin(c, e) ==
    /\ e.type = "join"
    /\ IF seated[Peer(c)]
       THEN /\ seated' = [seated EXCEPT ![c] = TRUE]
            /\ down' = [Delivered(Peer(c), Note("peer-joined")) EXCEPT
                           ![c] = Append(@, Event("room", NoSdp, NoSdp, RosterEntry(Peer(c))))]
       ELSE UNCHANGED <<seated, down>>

HandlePresence(c, e) ==
    /\ e.type = "presence"
    /\ Deliver(c, Event("room", NoSdp, NoSdp, RosterEntry(Peer(c))))
    /\ UNCHANGED seated

HandleLeave(c, e) ==
    /\ e.type = "leave"
    /\ seated' = [seated EXCEPT ![c] = FALSE]
    /\ Deliver(Peer(c), Note("peer-left"))

Serve(c) ==
    /\ link[c] /\ up[c] # <<>>
    /\ up' = [up EXCEPT ![c] = Tail(@)]
    /\ LET e == Head(up[c]) IN
         \/ RelayMediaState(c, e)
         \/ /\ \/ RelaySignal(c, e) \/ HandleJoin(c, e)
               \/ HandlePresence(c, e) \/ HandleLeave(c, e)
            /\ UNCHANGED unseen
    /\ UNCHANGED <<joiner, link, view, hookVars, call, made, muted, badge, counts>>

-----------------------------------------------------------------------------
(* Outages.  What is in transit is lost with the connection; what is       *)
(* emitted afterwards is buffered and sent on reconnect.                   *)
Outage == outages < MaxOutages /\ outages' = outages + 1

(* Those for whom a media:state event is lost with c's connection.         *)
Carries(queue) == \E i \in DOMAIN queue : queue[i].type = "media"
MediaStateLost(c) ==
    (IF Carries(down[c]) THEN {c} ELSE {}) \cup (IF Carries(up[c]) THEN {Peer(c)} ELSE {})

Lost(c) ==
    /\ link' = [link EXCEPT ![c] = FALSE]
    /\ up' = [up EXCEPT ![c] = <<>>]
    /\ \E told \in IF link[c] THEN {down, Delivered(Peer(c), Note("peer-disconnected"))} ELSE {down} :
            down' = [told EXCEPT ![c] = <<>>]

Drop(c) ==
    /\ Outage
    /\ link[c] /\ seated[c] /\ view[c].room
    /\ Lost(c)
    /\ unseen' = unseen \cup MediaStateLost(c)
    /\ UNCHANGED <<serverVars, view, hookVars, call, made, muted, badge, losses, toggles>>

(* A reload starts the page from nothing: the hook mounts at once, before  *)
(* a room is known.  RoomGuard restores the room after reconnecting.       *)
Reload(c) ==
    /\ Outage
    /\ seated[c] /\ hook[c] # "away"
    /\ Lost(c)
    /\ unseen' = unseen \cup {c} \cup MediaStateLost(c)
    /\ view' = [view EXCEPT ![c] = NoView]
    /\ hook' = [hook EXCEPT ![c] = "acquiring"]
    /\ found' = [found EXCEPT ![c] = "nobody"]
    /\ pending' = [pending EXCEPT ![c] = NoSdp]
    /\ call' = [call EXCEPT ![c] = NoCall]
    /\ muted' = [muted EXCEPT ![c] = FALSE]
    /\ badge' = [badge EXCEPT ![c] = FALSE]
    /\ UNCHANGED <<serverVars, made, losses, toggles>>

(* Within the grace period.                                                *)
Reconnect(c) ==
    /\ ~link[c] /\ seated[c]
    /\ link' = [link EXCEPT ![c] = TRUE]
    /\ up' = [up EXCEPT ![c] = IF view[c].room THEN @ ELSE Append(@, Note("presence"))]
    /\ DeliverVolatile(Peer(c), Note("peer-reconnected"))
    /\ UNCHANGED <<serverVars, view, hookVars, call, made, mediaVars, counts>>

(* The grace period is over.  The client that returns later is another     *)
(* session, outside this model.                                            *)
Expire(c) ==
    /\ ~link[c] /\ seated[c]
    /\ seated' = [seated EXCEPT ![c] = FALSE]
    /\ Deliver(Peer(c), Note("peer-left"))
    /\ UNCHANGED <<joiner, link, up, view, hookVars, call, made, mediaVars, counts>>

Leave(c) ==
    /\ Outage
    /\ link[c] /\ hook[c] # "away" /\ view[c].room
    /\ Emit(c, Note("leave"))
    /\ view' = [view EXCEPT ![c] = NoView]
    /\ hook' = [hook EXCEPT ![c] = "away"]
    /\ pending' = [pending EXCEPT ![c] = NoSdp]
    /\ call' = [call EXCEPT ![c] = NoCall]
    /\ muted' = [muted EXCEPT ![c] = FALSE]
    /\ badge' = [badge EXCEPT ![c] = FALSE]
    /\ unseen' = unseen \cup {c}
    /\ UNCHANGED <<serverVars, link, down, found, made, losses, toggles>>

Next ==
    \E c \in Client :
        \/ AskToJoin(c) \/ Mount(c) \/ MediaReady(c) \/ MediaDenied(c)
        \/ Receive(c) \/ Operate(c) \/ Serve(c) \/ ToggleAudio(c)
        \/ Connect(c) \/ Disconnected(c) \/ Failed(c) \/ TimerFires(c)
        \/ Drop(c) \/ Reload(c) \/ Reconnect(c) \/ Expire(c) \/ Leave(c)

Spec == Init /\ [][Next]_vars

(* The event loops of both pages and of the server run, queued operations  *)
(* finish, timers fire, and ICE reports in the end whether a path works.   *)
(* Users need not grant anything, and nobody need join or come back.       *)
FairSpec ==
    /\ Spec
    /\ \A c \in Client :
         /\ WF_vars(Receive(c)) /\ WF_vars(Operate(c)) /\ WF_vars(Serve(c))
         /\ WF_vars(Connect(c)) /\ WF_vars(TimerFires(c))
         /\ WF_vars(UNCHANGED losses /\ (Disconnected(c) \/ Failed(c)))

-----------------------------------------------------------------------------
(* Properties.                                                             *)

(* Types; and a disconnect timer belongs to a call that is disconnected,   *)
(* with restarts within their limit (use-webrtc.ts, disconnectedTimerRef   *)
(* and iceRestartCountRef, whichever callback replaces or closes the call). *)
CallTypeOK ==
    /\ joiner \in Client /\ seated \in [Client -> BOOLEAN] /\ link \in [Client -> BOOLEAN]
    /\ view \in [Client -> [room : BOOLEAN, peer : {"absent", "online", "offline"}, self : BOOLEAN]]
    /\ hook \in [Client -> {"away", "acquiring", "ready", "denied"}]
    /\ found \in [Client -> {"nobody", "peer", "self"}]
    /\ \A c \in Client :
         /\ pending[c] \in Sdp /\ made[c] \in Nat
         /\ call[c].target \in {"none", "peer", "self"}
         /\ {call[c].offered, call[c].local, call[c].remote} \subseteq Sdp
         /\ call[c].conn \in {"new", "connected", "disconnected", "failed"}
         /\ call[c].restarts \in 0..MAX_ICE_RESTARTS
         /\ call[c].timer => Open(c) /\ call[c].conn = "disconnected"
    /\ muted \in [Client -> BOOLEAN] /\ badge \in [Client -> BOOLEAN]
    /\ unseen \subseteq Client
    /\ outages \in 0..MaxOutages /\ losses \in Nat /\ toggles \in 0..(MaxIncidents - losses)

Undisturbed == outages = 0 /\ losses = 0

(* As long as nothing breaks, the two never have an offer outstanding at   *)
(* the same time: the comparison of ids in init, onPeerJoined and          *)
(* onPeerReconnected makes one of them the offerer (README, call flow 3).  *)
OneOfferer == Undisturbed => \E c \in Client : call[c].offered = NoSdp

(* As long as nothing breaks, an answer is applied to the very offer it    *)
(* answers: answers carry no reference, and createPeer may have replaced   *)
(* the connection in between.                                              *)
AnswerFits ==
    Undisturbed =>
        \A c \in Client :
            call[c].ops # <<>> /\ Head(call[c].ops).op = "accept"
                => Head(call[c].ops).re = call[c].offered

(* Media that flows survives socket outages: a working call is dropped or  *)
(* replaced only when its own page goes away or the peer has lost its seat *)
(* (README, call flow 7; onPeerDisconnected and onPeerReconnected).        *)
LiveMediaKept ==
    [][\A c \in Client :
        Linked(c) /\ call[c].conn = "connected" /\ call'[c].local = NoSdp
            => ~seated[Peer(c)] \/ hook'[c] # "ready"]_vars

InCall == \A c \in Client : hook[c] = "ready" /\ seated[c]
Connected == \A c \in Client : call[c].conn = "connected"

(* Between two who are connected, each page shows whether the other is     *)
(* muted, whatever was clicked before or during the call and however the   *)
(* calls and pages before this one ended: the flag is sent on each click   *)
(* and whenever a call gets connected (use-webrtc.ts, the effect on        *)
(* connectionState).  Except when, since the other's call got connected,   *)
(* the last flag was lost with a socket or came before the page was ready  *)
(* for it, or the page was left or loaded again: nothing sends the flag    *)
(* when a socket or a page comes back.                                     *)
BadgeTruthful ==
    InCall /\ Connected =>
        \A c \in Client \ unseen :
            Carries(down[c]) \/ Carries(up[Peer(c)]) \/ badge[c] = muted[Peer(c)]

(* Once both have their media and the client that joined is the one that   *)
(* offers, the two get connected, however the events of joining, mounting  *)
(* and acquiring media interleave (init, onPeerJoined, pendingOfferRef).   *)
OffererJoins == InCall /\ Offers(joiner) ~> Connected \/ ~Undisturbed

(* The same whoever joined.                                                *)
CallEstablished == InCall ~> Connected \/ ~Undisturbed

(* A call that has lost its path does not stay so: the path comes back,    *)
(* the restarts are used up, or the call is closed or replaced.            *)
RestartEnds ==
    \A c \in Client :
        call[c].conn \in {"disconnected", "failed"}
            ~> call[c].conn \in {"new", "connected"} \/ call[c].restarts = MAX_ICE_RESTARTS
==============================================================================
