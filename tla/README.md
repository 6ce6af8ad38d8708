# A verification project for Charlar

Charlar is a one-to-one chat and video application: a signaling server
(`apps/server`, Express and socket.io, everything in memory) and a web client
(`apps/web`, Next.js, socket.io-client and WebRTC). Two people share a room by
its code; the server relays their messages and their WebRTC signalling, and
keeps the seat of somebody whose connection drops for 30 seconds.

This directory holds TLA+ models of both, the instances on which TLC checks
them, and proofs that TLAPS checks. All modules are translated from the code;
where code and docs disagree the models follow the code, and four "violation"
runs show where the disagreement is visible.

Contents: [inventory](#1-inventory), [modules](#2-modules-and-how-they-follow-the-code),
[runs](#3-runs), [fairness](#4-fairness), [proofs](#5-proofs),
[findings](#6-findings), [what is not modelled](#7-not-modelled),
[plan](#8-plan).

## 1. Inventory

Server paths are below `apps/server/src`, client paths below `apps/web/app`.

| Component | State | Operations | Correct if |
|---|---|---|---|
| room table, `services/room-service.ts` | `rooms` (code to participant set), `sessionToRooms` | create, join, leave, `removeFromAll`, `reapStale` | both maps agree; a code is taken exactly while its room is occupied; at most 2 people per room |
| session table, `services/session-service.ts` | `sessions` (with socket id and cleanup timer), `socketToSession` | create, reclaim, disconnect, expiry | a timer is pending exactly for a session without socket; the maps are inverse |
| typing indicators, `services/typing-service.ts` | entries with a 5 s timer, two indexes | start, stop, clear a session, expire | no entry outlives its session; who was shown one is told its end |
| chat, `services/chat-service.ts` | a throttle window per session | process a message, clean up | only participants send; only the others hear; no throttle window of the dead |
| rate limiters, `socket/index.ts`, `handlers/rooms.ts`, `chat-service.ts` | a list of time stamps per address, socket or session | let through, refuse, drop what is old, forget | no window lets more through than the limit; nobody is refused without cause; what is left of a session goes away |
| nicknames, `handlers/rooms.ts`, `session-service.ts` | one name per session | name on creating and joining, de-duplicate | people in one room have different names |
| presence, `services/presence-service.ts` | none | counts, rosters | a roster tells the truth about who is online |
| socket layer, `socket/index.ts`, `socket/handlers/*`, `services/index.ts` | sockets, their broadcast rooms, the captured session id, four rate limiters | connect, take over, disconnect, ten client events, two timers' broadcasts, the reaper, restart | what a handler captured is current; every message reaches exactly those it is for; nobody comes or goes unannounced |
| room context and guard, `_lib/room-context.tsx`, `_components/room-guard.tsx`, `room-form.tsx`, `room-header.tsx` | the room the page knows with its participant list, the address, a form that waits for an ack | create, join, restore, leave, go back, four room events | the page shows the room the server has, to somebody with a seat; nobody waits for ever |
| video call, `room/[code]/video/_hooks/use-webrtc.ts`, `_lib/webrtc.ts` | media, one `PeerManager`, a queued offer, restart count and timer | mount, media ready, offer, answer, candidates, four membership events, connection states | one side offers and the other answers it; the two get connected; a lost path is renewed or given up |
| chat hook, `room/[code]/chat/_hooks/use-chat.ts` | messages, pending ones, typing flags, two timers | send, receive, type, mount, unmount | pages of one room tell one story; nothing is pending, and nobody types, for ever |
| socket and session, `_lib/socket.ts`, `socket-context.tsx` | the singleton socket with its send buffer, the stored session id | connect, reconnect, be refused | the id presented is the one last given |
| ICE configuration, HTTP app, env, logging, rendering, deployment | none, or constants | | stateless; not modelled |

How they interact: client and server exchange socket.io events, in order per
connection, most with an ack callback. `initSocket` captures a session id per
connection and hands it to every handler. The session table's timer calls
`services/index.ts`, which evicts the session from the other services and calls
back into the socket layer to tell the rooms; the typing service's timer does
the same for `typing:stop`. Every server callback is synchronous, so a callback
is one step; what interleaves is the order of callbacks. On the client,
`useWebRTC` reads the room context and reacts to the same events as it, through
closures and refs whose values may be older than the event; its WebRTC
operations are asynchronous.

The hard behaviours: a reconnect while the server still believes in the old
socket; the grace timer against the reconnect that cancels it; eviction by a
reverse index that must be complete; socket.io's own room membership, kept next
to the room table; typing entries cleared by five different callbacks; counts
that must be those after a change; a restart that forgets everything while
clients remember; wall clocks under the limiters; on the client, requests of a guard, a
form and a leave button that cross answers, events without a room code, outages
and page loads; optimistic messages whose acks are lost; timers that outlive the
component that set them; joining, mounting, permission prompts and signalling in
any order, crossed ICE restarts, and socket outages under a working call.
`PROJECT.json` lists each at its line, under "hazards", with the properties that
guard it.

## 2. Modules and how they follow the code

```
              server                                        client, each with its own view of the server
SessionIds                                                  RoomView      (one page: context, guard, form)
 |- RoomService ---+- Nicknames                             ChatDelivery  (the chat pages of one room)
 |                 `- TypingService --.                     CallSetup     (the two ends of a call)
 `- SessionService -------------------+- SignalingServer --- SignalingRefinement
SlidingWindow                                                 (INSTANCE RoomMembership)
```

* `RoomService`: `rooms`, `participants` and `sessionToRooms` are the two Maps
  of the class. `CreateRoom`, `JoinRoom`, `LeaveRoom`, `RemoveFromAll` and
  `ReapStale` are its methods. A code is an element of `Code`; the draw of an
  unused one is a free choice, and the failure after 100 draws is `CreateFails`.
  `LeaveRoom` does not ask whether the session is in the room, as the code does not.
* `Nicknames` adds to it the name each session shows, and the handlers that
  give names. `Deduplicate` is `deduplicateNickname`: it is called when the
  newcomer is a participant already, so the name it had until now is among those
  compared with. A session has one name, wherever it is.
* `SlidingWindow`: the four limiters are one algorithm, a list of `Date.now()`
  values from whose front the old ones are dropped. The clock is the real time
  plus an error that somebody may change at any moment; `passed` is the history
  with the real time, which the code does not have.
* `SessionService`: `sessions`, `socketOf`, `socketToSession`, and `armed` for
  the cleanup timers. `issued` is the set of ids handed out: a ghost that stands
  for `randomUUID()` never repeating. Time is the order of steps: the 30 s delay
  becomes "the timer may fire while it is armed".
* `TypingService`: a pair `<<code, session>>` per timer. The class's indexes are
  functions of that set.
* `SignalingServer` composes them with the socket layer: `connected`, `ioRooms`
  and `socketData` are socket.io's state, `out` the messages of the last step.
  `ConnectFresh`, `ConnectReclaim` and `ConnectTakeover` are the three ways
  through the connection handler; `Disconnect` the disconnect handler; one
  action per client event; `Refused` every answer `{ok: false}` and every
  event dropped by a limit; `GraceExpire`, `TypingExpire`, `Reap` and
  `SweepFailedJoins` the timers; `Restart` the end of the process.
  Two limits keep an entry per session. `recentMessages` is ChatService's, which the
  expiry callback cleans up. `failedJoinAttempts` is the join throttle of
  `handlers/rooms.ts`: every attempt makes an entry (`CountAttempt`), also one that
  succeeds, the expiry callback does not know of it, and only the sweep that runs
  every five minutes drops it. Which entries are old enough is a free choice.
  `JoinRefused` is a join that fails after its entry was made.
  A takeover is one step because `oldSocket.disconnect(true)` runs the old
  socket's handler synchronously inside `resolveSession`.
* `RoomMembership` is the abstract specification: people who are unborn, online,
  in grace or gone, and seats. `SignalingRefinement` reads `presence` off the
  session table and takes the participant sets as `members`.
* `CallSetup` models the two clients of a room, with the server's relay and
  membership handlers reduced to two seats (the server itself is modelled in full
  above). Client 2 has the higher id. `view` is `RoomContext`, `hook` the life
  of `useWebRTC`, `found` what `init`'s closure over `room` will find, `pending`
  the `pendingOfferRef`, `call` the `peerRef` with its connection and the
  restart bookkeeping. `up` and `down` are the connection's events in order;
  events to a disconnected client are lost, those it emits meanwhile are
  buffered, and volatile events may be lost at any time. Before the hook is mounted nobody
  listens to signals, so `Receive` drops them, as socket.io-client does.
  An SDP is `<<client, number>>`. `Operate` runs one queued operation of the
  connection (`createOffer` and `setLocalDescription` together, `handleOffer`,
  or `handleAnswer`); a remote offer rolls back an unanswered local one, and an
  answer without an outstanding offer is rejected, as WebRTC has it. `Linked` is the
  browser's part: media can flow once each end has in force what the other made.
  The ack's verdict and the labels it sets are left out: they change nothing else.
  `muted` is a page's own microphone flag and `badge` what it shows of the peer's;
  `unseen` is a ghost: who may not show the flag the peer has sent last, since the
  peer's call got connected.
  A click on leave while disconnected is left out here: `RoomView` has it.
* `RoomView` is one page and what the server knows of it. `url` is the address,
  `room` the context, `form` the home page's form, `link` the socket, `up` and
  `down` the two directions of the connection; `up` is also the send buffer
  while there is none. `GuardRuns` is the effect of `room-guard.tsx`, run within
  the step that changes one of its dependencies; its clean-up marks the earlier
  question as no longer `live`. `After` is the reducer of the room context,
  whose events carry no code. A session that the server destroys is followed by
  another one under the same name `Me`, without a seat. `knowsId` is what the socket
  context's `sessionId` says, `stored` whether the next handshake will offer the id
  of the session that the server has for this page: not if the connection broke
  before `session:created` arrived, or if the browser gives a loaded page no
  storage. `Abandon` is what follows: the next connection gets a fresh session, and
  the old one keeps its seats as one of the other people until its grace period
  ends. It takes the place of one without a seat (named in the module as a bound:
  with nobody like that, an id that is worth a seat is not lost). The other people
  are sessions that come and go; what is sent to the room while this page's socket
  is not in it is lost, and volatile events may be lost anyway.
* `ChatDelivery` is the hook `useChat` on each page of a room, and the chat
  handler between them. `debounce` is the typing timer of this instance of the
  hook and of former ones (unmounting does not clear it), `safetyNet` the page's
  own 6 s timer. `Confirmed` and `Removed` are the two answers of an ack, `Shown`
  the append with its cut at `MAX_MESSAGES`. There are no durations: a timer that
  is armed may fire.

The definitions marked "Slip" are wrong variants of an operation, named for the
mistake (a dropped guard, a swapped argument, a missing reset). No specification
uses them; each is substituted for the right one to confirm that a property
notices.

Ghost variables (marked so) record history that the code does not keep, for
properties that relate a state to an earlier one: `issued` in `SessionService`,
`passed` in `SlidingWindow`, `missed`, `evicted`, `unheard` and `leaving` in
`RoomView`, `missed`, `cut` and `renewed` in `ChatDelivery`. No guard reads one,
except `issued`, whose freshness is the assumption on `randomUUID()`, and `renewed`,
which also decides whether the typing effect is set up again.

`MCNicknames` and `MCSignalingServer` add the symmetry sets for TLC, the latter a view
as well. The other modules need no such module: their constants are numbers and
small sets.

## 3. Runs

| Run | Question | Bounds | Size |
|---|---|---|---|
| `rooms_and_names` | do index and participant sets agree through every mix of operations, and do people in a room have different names? | 3 sessions, 3 codes, 2 base names (each also typed with a number), 2 seats, 2 rooms per session | 112 716 states |
| `server_safety` | the whole server: tables, socket layer and messages | 3 sessions, 2 codes, 3 sockets | 100 538 states |
| `server_liveness` | does the server implement `RoomMembership`; do grace periods end, rooms close, ghosts stop typing, leftovers go? | 2 sessions, 1 code, 2 sockets | 8 821 states |
| `sliding_window` | does a limiter keep its promise when the wall clock is set? | limit 2, window 2, 6 ticks, the clock set twice, by at most 2 | 196 260 states |
| `room_view` | does the page show the room the server has, to somebody with a seat; does nobody wait for ever? | 2 codes, 1 other person, 2 mishaps, 2 events in transit | 280 093 states |
| `chat_delivery` | do the pages agree on the conversation; does nothing stay pending or typing? | 2 people, lists of 2, 3 turns | 153 756 states |
| `call_setup` | who offers, which answer fits, do the two connect, do restarts end? | 2 restarts, 2 incidents, no outage | 99 051 states |
| `call_outages` | is a working call kept through outages; is its bookkeeping sound, and the microphone badge true? | 1 restart, 1 outage (drop, reload or leave), 1 incident | 1 278 126 states |
| `leave_unchecked`, `typing_not_stopped`, `call_not_established`, `guard_unchecked` | violations, see [findings](#6-findings) | | |

Why these bounds are enough for the questions asked.

* Server (safety). A room seats two, so three sessions give a full room and a third
  party; two codes let one session be in two rooms at once, which the reverse
  index, the broadcasts and the eviction must tell apart; three sockets allow a
  takeover while another participant is connected. No id is handed out twice, so
  three ids are also three lives: one is created, destroyed and followed by
  another one while a third watches. Three codes in `rooms_and_names` let the
  limit of two rooms be reached by creating and passed by joining; two names,
  each also typed with the number 2, let a typed name meet a numbered one.
  `server_safety` uses a view: two states that differ in `failedJoinAttempts` alone
  count as one. That loses nothing: the actions that read it, `JoinRefused` and
  `SweepFailedJoins`, do to the rest of the state what `Refused` and a sweep that
  finds nothing may do anyway, and no property of that run but `TypeOK` names it.
* Server (liveness, refinement). Each of these properties speaks of one session, one
  person or one room at a time, and what may keep it from happening is that session
  or the other one in its room; with two sockets each may connect, be taken over,
  or come back. Two sessions cannot overfill a room:
  capacity is checked by `rooms_and_names` (three sessions), and proved, as is the
  refinement, for any number.
* `SlidingWindow`. With a limit of 2 and a window of 2, six ticks hold three
  windows; two settings let the clock go forward and back. `MaxTime`,
  `MaxSettings` and `MaxError` bound time and error and nothing else.
* `RoomView`. `MaxMishaps` counts what breaks: drops, page loads, refused
  connections, restarts, events over the limit. Two let one hit the recovery from
  another. Ordinary ends of a grace period after a drop are not counted.
  `MaxInTransit` bounds when the others act, not the page or the server; two
  events in transit are a join and a leave behind a pending answer.
* `ChatDelivery`. `MaxTurns` counts the messages, spells of typing, leaves, drops,
  reloads and throttled events together; deliveries, answers, timers, entering
  and reconnecting are free. Three turns are two messages and what breaks
  between them, and fill and overflow a list of two.
* `CallSetup`. `MaxIncidents` counts lost paths and clicks on a microphone button
  together. Two lost paths are needed for the two ends to notice a loss each
  and for their restart offers to cross; one outage covers each of drop, reload
  and leave, with reconnection and expiry, at every point of a call; one click
  makes a flag differ from the default before, during or after any of these.
  `MaxOutages` and `MaxIncidents` are the added bounds; `MAX_ICE_RESTARTS` is the
  code's own constant (2), lowered to 1 in `call_outages`.

Symmetry is used in the two runs of safety properties of the server only (sessions,
codes, sockets and names are interchangeable); never under a liveness property.

`CHECK_DEADLOCK FALSE` appears where users may simply stop: in `CallSetup` nobody
need join, in `RoomView` a connection refused for good ends everything on the
page, in `ChatDelivery` the turns are used up. The server never deadlocks: a new
client, a restart or the reaper can always run.

What the properties say, in the order of their importance:

* `CapturedSessionCurrent`, `BroadcastScope`, `TransientStateCleared`,
  `ParticipantsAlive`: the five tables of the server and socket.io's state tell
  one story after every callback. They are what makes the handlers' unchecked
  assumptions true: a handler may use the session id captured when its socket
  connected; the reaper never has anything to do; a roster's odd online test
  (`session?.socketId !== null`, true for a missing session) is harmless.
* `DeliveredInRoom`, `RosterTruthful`, `MembershipAnnounced`, `TypingEndTold`:
  what is sent, to whom, with which count. `MembershipAnnounced` fails if
  somebody is evicted by the reaper, which tells nobody.
* `SeatKept` and `ImplementsMembership`: nobody loses a seat except by leaving
  or by the end of a grace period.
  `TransientStateCleared` is about what disconnect and expiry clear: typing entries and
  ChatService's throttle. It says nothing of the join throttle, whose entries do
  outlive their sessions.
* `GraceEnds`, `AbandonedRoomCloses`, `GhostTypingEnds`, `LeftoversSwept`: nothing is
  held for ever. `LeftoversSwept` is about the join throttle: what a destroyed
  session left there goes away, though nothing but the sweep removes it.
* `IndexConsistent`, `RoomOpenIffOccupied`, `CapacityRespected`, `GraceTimer`,
  `SocketBijection`: the same for each table alone.
* `NamesDistinct`: two people who got their names on entering a room never share
  one there. Somebody who has since taken a name in another room is not covered:
  that name is not compared with the ones here, and may be one of them.
* `ListIsLatest`, `LimitHolds`, `RefusalJustified`: what a limiter remembers is
  the latest that got through; no window of real time lets through more than the
  limit, unless the clock was set forward within it; and nobody is refused for
  longer than the clock was set back. (The window is closed at both ends: an entry
  exactly as old as the window still counts.)
* `ViewMatches`: when what is in transit has arrived, participant list, status
  and count of the page are those of the server. Excused are a page that lost an
  event (`missed`, until the next roster; nothing else repairs the list), and a
  session with a seat in a second room, whose events the page cannot tell apart.
* `ShownHasSeat`: a room is shown to somebody with a seat in it, or whose session
  was destroyed meanwhile (`evicted`, see finding 4); this is what the guard's
  cancellation and the order of the queues are for.
* `WaitingEnds`: the guard decides and the form gets its ack, unless the request
  or the answer was lost (`unheard`) or the connection was refused for good;
  neither the guard nor the form has a timeout or a retry.
* `LeaveFreesSeat`: a room left on the page is left on the server, by the
  message, from the send buffer, or by the end of the grace period, unless the
  message was lost on the way.
* `HistoryAgrees`: two pages list the messages of one sender in the order of
  sending, and without gaps up to where their lists begin: with a message each lists
  every later one that the other lists. Excused are a page that lost a message or
  an ack with a connection (`missed`) and one that lost its seat (`renewed`).
* `PendingSettles`: a pending message is confirmed or taken back, unless its
  request or its ack was lost (`cut`): there is no ack timeout.
* `IndicatorEnds`: a typing indicator goes off, except when the page's session
  was replaced while it was on (the effect's clean-up clears the safety timer
  and not the flag).
* `OneOfferer`, `AnswerFits`: as long as nothing breaks, the two ends never both
  offer, and every answer meets its own offer. With a lost path or an outage neither
  holds: both ends may restart ICE at once, and an answer may reach a
  connection that made another offer since (checked while modelling; nothing
  in the code ties an answer to an offer).
* `OffererJoins`: if the one with the higher id joins, the two get connected,
  whatever the order of mounting, permission and signalling.
* `BadgeTruthful`: between two who are connected each page shows the other's
  microphone as it is, once what is in transit has arrived. Excused (`unseen`)
  is a page that, since the peer's call got connected, lost the last
  `media:state` with a socket, got it before its hook was mounted, or was left or
  loaded again: nothing sends the flag again then (met while modelling; no line of
  the repository promises more than a push when a connection gets established).
* `RestartEnds`, `LiveMediaKept`: a lost path is renewed or given up, and a
  working call outlives the other's socket outage.

## 4. Fairness

`FairSpec` of `SignalingServer` assumes only that an armed timer fires
unless it is cleared: Node runs a timeout whose delay is over. A
typing timer is set anew by every `typing:start`, so a session in the room could
keep its own from firing for ever; the assumption is made only for a session that has
left, whose starts are refused. The sweep of the join throttle is an interval of five
minutes and takes what is older than one; a live session may make a new entry before
every sweep, so the assumption is made only for the entries of sessions that are
gone, who can try no more. Nothing is assumed of clients, who may stop, reconnect,
try codes or type at will.

`FairSpec` of `CallSetup` assumes that both pages and the server handle the
events they have, that queued WebRTC operations finish, that the disconnect
timer fires, and that ICE reports in the end whether a path works
(`Connect` or, without spending a loss, `Disconnected` or `Failed`). Nothing is
assumed about users: they need not join, grant camera access, or come back.
`OffererJoins` and `CallEstablished` therefore start from a state in which both
have their media. ICE is assumed not to report a failure while an answer is
about to come into force (`Settled`): its timeouts are tens of seconds.

`FairSpec` of `RoomView` assumes that page and server handle what has arrived, that
socket.io-client, which retries without end, gets connected, and that the
server's ping timeout and grace timer fire while the page is away. The bound on
mishaps ends the outages. `FairSpec` of `ChatDelivery` assumes the same of handling
and connecting, and of the timers only the safety net: the debounce and the
server's expiry are not needed for `IndicatorEnds`.

## 5. Proofs

TLAPS checks the following for every finite or infinite set of sessions, codes
and sockets and every limit that satisfies the named assumptions (`NullAssumption`:
the null values are not ids; `LimitsAssumption`: the limits are positive numbers;
`WindowAssumption`, `ViewAssumption`, `BoundsAssumption`, `ChatAssumption`: bounds are
numbers, a page knows finitely many codes; `NamesApart`). The bounds of the runs play no part in any proof.

* `RoomServiceProofs`: `RoomInvInductive`, and from it one theorem for each
  invariant (`RoomTypeCorrect`, `IndexStaysConsistent`, `RoomsOpenIffOccupied`,
  `CapacityIsRespected`). The conjunction of the four is inductive as it stands; the
  lemma on capacity needs facts about finite cardinality.
* `NicknamesProofs`: `DeduplicateFresh` says that `Deduplicate` returns a name that
  nobody in a finite room has: the name and its numbered variants from 2 on are one
  more than the people, so one is free (the pigeonhole principle, by an injection into
  the set of names). `NamesAlwaysDistinct` follows by induction over the steps.
* `SessionServiceProofs`: `SessionInvInductive`, `GraceTimerExact`,
  `SocketMapInverse`.
* `SignalingServerProofs`: `ServerInvInductive`, and from it
  `OnlyTheLiveParticipate`, `CapturedIdsAreCurrent`, `BroadcastsFollowRooms` and
  `ClearedStaysClear` (of `TransientStateCleared`). The inductive invariant is `RoomInv /\ SessionInv /\ LayerInv`.
  None of the parts of `LayerInv` is inductive alone: that a room's people are alive
  after an expiry needs the index (`IndexConsistent`), that broadcast rooms follow
  the room table after a reconnect needs the captured ids, which need
  `SocketBijection`, which a takeover keeps only because the old socket was bound to
  the same session. `ServerRunsRoomTable` and `ServerRunsSessionTable` say that the
  composition behaves as each table's own specification does, so what is proved of
  a table holds of the server.
* Of the messages, in the second half of the same module: `ServerTypeCorrect`,
  `DeliveryStaysInRoom`, `RostersAreTruthful`. What a step sends is right because of the invariant before
  the step (whose sockets are in which broadcast room) and after it (who is in the
  room): both are used. Then the action properties `SeatKept`, `MembershipAnnounced`
  and `TypingEndTold` (`SeatsAreKept`, `MembershipIsAnnounced`, `TypingEndIsTold`).
  That the reaper is idle (`ReapIsIdle`) is what makes the first two true.
  Last the refinement, `ServerImplementsMembership`: initial states map to initial
  states and each step to a step of `RoomMembership` or a stutter.
* `SlidingWindowProofs`: `WindowListIsLatest`, `WindowLimitHolds`,
  `WindowRefusalJustified`, for every limit, window and history of the clock. The
  list is the history without a prefix; each entry of the prefix was older than the
  window when it was dropped, and stays so unless the clock was set forward, while
  its stamp differs from its real time by what the clock was off then.
* `RoomViewProofs`: `ViewInvInductive`, `ShownAlwaysHasSeat`, `ArrivalInvInductive`,
  `ViewAlwaysMatches`. `ShownHasSeat` alone is
  not inductive: a pending answer may show a room later. The invariant says that the
  form's request is the last thing in `up`, and that its answer comes with nothing
  behind it but room events, so no `room:leave` can take the seat before the answer
  arrives (`FormAsksLast`, `FormHearsLast`, `FormAtHome`); that on a room's page
  everything asked and answered is about that room (`PageAsksForItself`); and that
  without a connection the send buffer holds nothing but leaves
  (`BufferHoldsLeaves`). `IdComesFirst` says that until a new session's id is stored,
  `session:created` is the first message on its way and no room is shown but to
  somebody evicted, so an abandoned session takes no seat from under a shown room.
  `ViewMatches` is about `Settled`, the fold of `After` over the messages in transit.
  The lemmas named `Believed...` say what that fold does when a message is appended,
  when the first arrives, when messages change nothing, and when the page forgets
  its room; they are proved by induction over the queue, from its least
  counterexample (`WFMin` of `WellFoundedInduction`, which takes a set and no
  operator). With them each step of the others adds to the page's list what it
  changed in the roster (`RosterChanged`), and an answer replaces the list by the
  roster of that moment. One step needs more: a `room:leave` that is handled late
  leaves a session with a seat in one room fewer, so that a page that believed in
  the room left must not be compared with another. `LeavesOwnRoom` says that all
  that such a page believes, is told and asks is about the room it left
  (`ArrivalInv`).
* `CallSetupProofs`: for every `MAX_ICE_RESTARTS` and every number of outages, lost
  paths and clicks. `CallInvariant` (`CallInv`) holds whatever breaks, and gives
  `CallTypes`, `BadgeIsTruthful` and the action property `LiveMediaKept`
  (`LiveMediaIsKept`). None of these is inductive: what a page does next is decided
  by what is still in its two queues. So the invariant says who made every SDP that is
  in force, queued, kept for later or in transit (`Owned`); that a request is the
  last thing in `up` and has one answer, before which the page knows no room and so
  has no call (`AsksLast`, `CallFits`); that while a client has yet to hear that its
  peer came or went, it knows no description that the peer holds to, and none reaches
  it ahead of that notice (`FreshAfterTurn`), so a notice never meets the call that
  came after it; that whoever is connected to a client has a seat the client has
  heard of (`TurnsBeforeConnected`); and that the flag of a connected peer is shown,
  or is the last one on the way, or is excused (`FlagArrives`).
  `CalmInvariant` (`CalmInv`) is about the runs in which nothing breaks
  (`Undisturbed`), and gives `OneOffererEver` and `AnswersFit`. `Meeting` follows the
  joining through the queues; `Courtship` says that client 1 never offers, that a
  creator with the higher id calls nobody before it hears of the joiner, and in
  which of six stages the call is: silence, an offer in one place, an answer made
  and in transit to the server, relayed, arrived, or agreement. TLC checked both
  invariants on the bounds of `call_setup` and `call_outages` before they were proved.
* `ChatDeliveryProofs`: `ChatInvariant` (`ChatInv`) and `HistoryAlwaysAgrees`, for
  every set of people, `MAX_MESSAGES` and number of turns. `HistoryAgrees` compares
  what two pages will list once their queues are empty; the invariant says what they
  have been told (`Told`: listed, or on its way). `PageInOrder`: what comes from
  one sender comes in the order of sending, behind what is listed of it, and a
  message that is not acked waits in its sender's list behind what was sent before it,
  unless it was cut off with all of that (`Waits`), so that acks confirm in order.
  `RequestsInOrder`: what the server has not handled is newer than all that anybody
  knows of its sender. `SeatlessHearNothing`: a page that comes back without its seat
  starts from nothing. `ToldAlike`: of any two pages that count (`Counts`: a page
  that is about to mount counts as one with an empty list), each has been told every
  message that is later than one it was told and that the other was told. It stays so
  because a relay tells every seated page that is connected or counts the others as
  `missed`. `PageSettles` then says, by induction over what is on its way, that the
  settled list keeps the latest of what the page was told: the cut takes the oldest,
  and a refused message is one that nobody was told of. The list is a fold
  (`Settled`); `FoldTrace` says that it is the end of the one sequence of lists that
  the events lead through. TLC checked the invariant for two people, with its numbers
  bounded, before it was proved.

Only model-checked:
* the liveness properties: fairness and ENABLED are beyond the prover.

Every invariant and every action property of the passing runs is proved.

## 6. Findings

1. `leave_unchecked`: `room:leave` of a room one is not in is announced to it, and
   the client's video hook closes its running call on any `room:peer-left`.
2. `typing_not_stopped`: a sent message drops the server's typing entry without the
   `typing:stop` that would end the peer's indicator.
3. `call_not_established`: the README and `use-webrtc.ts` say that the peer with
   the higher session id offers, deterministically. If that peer created the
   room, its offer may reach the joiner before the joiner's page has mounted the
   hook and is lost; or the creator is still acquiring media when the joiner
   arrives, ignores `room:peer-joined`, and then looks for peers in a room of the
   time it mounted. Either way nobody offers, and both wait for ever.
4. `guard_unchecked`: `room-guard.tsx` says it "redirects if membership is invalid",
   but asks the server only while the context holds no room. A page that was
   offline past the grace period, or through a restart, keeps showing a room in
   which its new session has no seat.

The limit on rooms per session is enforced for creating and not for joining
(`room-service.ts:54`). Nothing in the repository says that it should be, so it is
listed as a hazard and not as a finding.

## 7. Not modelled

* In `SignalingServer` the verdict of a limit is a free choice (`Refused`), so what is
  proved of the server holds whatever the windows of `SlidingWindow` decide.
* Message contents and their validation, and the allowed characters of a
  nickname: data that changes no control but a refusal.
* ICE candidates and media tracks on the client (the server's relay of candidates
  is modelled); the camera flag, which travels in the microphone's event and is
  treated alike.
* Durations: a timer may fire whenever it is armed. So a debounce that outlasts
  the server's expiry, or a typist who types for longer than the safety net
  waits, are behaviours of the model and not violations of it.
* Two tabs of one browser on the client's side (the server's side is
  `ConnectTakeover`).
* The mode in the address, and local storage beyond the session id: it supplies
  a nickname.
* The browser's Forward button. `RoomView` has Back (`GoBack`), page loads at any
  address, and the code's own navigation; going forward again, to a room's page
  whose context still holds the room or another one, is left out.
* The wire in `SignalingServer`: a message is what is handed to socket.io; the
  client modules model the wire.
* Rendering, scrolling, styling, the connection label, the settings constant:
  functions of state that is modelled. ICE configuration, HTTP routes,
  environment, logging, deployment: stateless.

## 8. Plan

Done: the server's tables, names, limits, its composition, its contract and their
proofs; the page's room, the conversation and the call. Left, in this order:

1. ICE candidates in `CallSetup`: those that arrive while there is no
   `PeerManager`. They multiply the state space of `call_outages`, so they need
   a run of their own.
2. Proofs: that the seats of the client modules (`RoomView`, `ChatDelivery`) change
   only as `RoomMembership` allows, so that what the server is proved to
   promise is what the pages are proved against.
