--------------------------- MODULE CallSetupProofs ---------------------------
(***************************************************************************)
(* The invariants of the call that CallSetup's runs check, proved for      *)
(* every bound on outages, losses, restarts and flags.                     *)
(*                                                                         *)
(* CallInv holds whatever breaks.  It says of every SDP who made it, of    *)
(* every queue which requests and answers can be in it, of a connected     *)
(* call that the peer has a seat and no news of its coming or going is on  *)
(* its way, and of the mute badge that it is right, or the flag is on its  *)
(* way, or it has been lost.  None of the properties is inductive alone:   *)
(* each depends on what is still in the two queues.                        *)
(*                                                                         *)
(* CalmInv holds as long as nothing breaks: Meeting follows the joining    *)
(* through the queues, Courtship the one offer and its answer, stage by    *)
(* stage (Stage), whichever of the two creates the room.                   *)
(***************************************************************************)
EXTENDS CallSetup, TLAPS

-----------------------------------------------------------------------------
(* Types.                                                                  *)
Entered == {"absent", "online", "offline"}
Signals == {"offer", "answer"}
Asks == {"join", "presence", "leave"}
Turns == {"peer-joined", "peer-left"}
Moods == {"peer-disconnected", "peer-reconnected"}

MediaEvent == [type : {"media"}, muted : BOOLEAN]
UpEvent == [type : Asks \cup Signals, sdp : Sdp, re : Sdp, peer : Entered] \cup MediaEvent
DownEvent ==
    [type : {"room"} \cup Turns \cup Moods \cup Signals, sdp : Sdp, re : Sdp, peer : Entered]
        \cup MediaEvent
Operation == [op : {"offer", "answer", "accept"}, sdp : Sdp, re : Sdp]
CallState ==
    [target : {"none", "peer", "self"}, offered : Sdp, local : Sdp, remote : Sdp,
     conn : {"new", "connected", "disconnected", "failed"}, ops : Seq(Operation),
     restarts : 0..MAX_ICE_RESTARTS, timer : BOOLEAN]

TypesOK ==
    /\ joiner \in Client /\ seated \in [Client -> BOOLEAN] /\ link \in [Client -> BOOLEAN]
    /\ up \in [Client -> Seq(UpEvent)] /\ down \in [Client -> Seq(DownEvent)]
    /\ view \in [Client -> [room : BOOLEAN, peer : Entered, self : BOOLEAN]]
    /\ hook \in [Client -> {"away", "acquiring", "ready", "denied"}]
    /\ found \in [Client -> {"nobody", "peer", "self"}]
    /\ pending \in [Client -> Sdp] /\ made \in [Client -> Nat]
    /\ call \in [Client -> CallState]
    /\ muted \in [Client -> BOOLEAN] /\ badge \in [Client -> BOOLEAN]
    /\ unseen \subseteq Client
    /\ outages \in 0..MaxOutages /\ losses \in Nat /\ toggles \in 0..(MaxIncidents - losses)

-----------------------------------------------------------------------------
(* Queues of events.                                                       *)
Has(q, kinds) == \E i \in 1..Len(q) : q[i].type \in kinds
Once(q, kinds) ==
    \A i, j \in 1..Len(q) : q[i].type \in kinds /\ q[j].type \in kinds => i = j
LastOnly(q, kinds) == \A i \in 1..Len(q) : q[i].type \in kinds => i = Len(q)

(* The last flag in q says m.                                              *)
LastFlag(q, m) ==
    \E i \in 1..Len(q) :
        /\ q[i].type = "media" /\ q[i].muted = m
        /\ \A j \in 1..Len(q) : j > i => q[j].type # "media"

(* No SDP of S comes before a turn.                                        *)
FreshTurns(q, S) ==
    \A i \in 1..Len(q) : q[i].type \in Turns =>
        \A j \in 1..Len(q) : j < i /\ q[j].type \in Signals => q[j].sdp \notin S

-----------------------------------------------------------------------------
(* The invariant, whatever breaks.                                         *)

(* Every SDP in transit, queued or in force was made by the client that it *)
(* should be from.                                                         *)
Ours(c) == {c} \X (1..made[c])
Sent(c) == {e \in UpEvent : e.type \in Signals => e.sdp \in Ours(c)}
Heard(c) == {e \in DownEvent : e.type \in Signals => e.sdp \in Ours(Peer(c))}
Todo(c) ==
    {o \in Operation : IF o.op = "offer" THEN o.sdp = NoSdp ELSE o.sdp \in Ours(Peer(c))}
Owned(c) ==
    /\ call[c].offered \in Ours(c) \cup {NoSdp} /\ call[c].local \in Ours(c) \cup {NoSdp}
    /\ call[c].remote \in Ours(Peer(c)) \cup {NoSdp} /\ pending[c] \in Ours(Peer(c)) \cup {NoSdp}
    /\ call[c].ops \in Seq(Todo(c))
    /\ up[c] \in Seq(Sent(c)) /\ down[c] \in Seq(Heard(c))

(* A call needs media and a room.  Descriptions come into force in pairs,  *)
(* a path needs a pair, and a call with oneself never gets there.          *)
Accepts == {o \in Operation : o.op = "accept"}
CallFits(c) ==
    /\ Open(c) => hook[c] = "ready" /\ view[c].room
    /\ ~Open(c) => call[c] = NoCall
    /\ call[c].target = "self" =>
          call[c].remote = NoSdp /\ call[c].offered = NoSdp /\ call[c].ops \in Seq(Accepts)
    /\ call[c].local = NoSdp <=> call[c].remote = NoSdp
    /\ call[c].conn # "new" => call[c].remote # NoSdp
    /\ call[c].timer => call[c].conn = "disconnected"

(* What a client asks of the server is the last thing it has sent, and     *)
(* nothing about a room is on its way to it then: whoever joins or leaves  *)
(* has no call until the server has heard of it.                           *)
AsksLast(c) ==
    /\ LastOnly(up[c], Asks) /\ Once(down[c], {"room"})
    /\ Has(up[c], Asks) => ~view[c].room /\ ~Has(down[c], {"room"})
    /\ Has(up[c], {"join", "leave"}) => hook[c] = "away" /\ link[c]
    /\ Has(up[c], {"presence"}) => seated[c] \/ ~link[c]
    /\ Has(down[c], {"room"}) => ~view[c].room /\ seated[c]
    /\ ~link[c] => down[c] = <<>> /\ (view[c].room \/ up[c] = <<>> \/ ~seated[c])

(* While c has yet to hear that the peer came or went, nothing that the    *)
(* peer holds to now has reached c ahead of that.                          *)
HeldBy(c) == {call[c].local, call[c].offered} \ {NoSdp}
Known(c) == {call[c].remote, pending[c]} \cup {call[c].ops[i].sdp : i \in 1..Len(call[c].ops)}
FreshAfterTurn(c) ==
    seated[Peer(c)] /\ Has(down[c], Turns) =>
        /\ HeldBy(Peer(c)) \cap Known(c) = {}
        /\ FreshTurns(down[c], HeldBy(Peer(c)))

(* Whoever is connected to a client has a seat that the client knows of.   *)
TurnsBeforeConnected(c) ==
    seated[Peer(c)] /\ call[Peer(c)].conn = "connected" => ~Has(down[c], Turns)

(* The flag of a connected peer is shown, or on its way, or c is excused.  *)
FlagArrives(c) ==
    seated[Peer(c)] /\ call[Peer(c)].conn = "connected" =>
        \/ LastFlag(up[Peer(c)], muted[Peer(c)])
        \/ ~Has(up[Peer(c)], {"media"}) /\ c \in unseen
        \/ ~Has(up[Peer(c)], {"media"}) /\ LastFlag(down[c], muted[Peer(c)])
        \/ ~Has(up[Peer(c)], {"media"}) /\ ~Has(down[c], {"media"}) /\ badge[c] = muted[Peer(c)]

ClientInv(c) ==
    /\ Owned(c) /\ CallFits(c) /\ AsksLast(c)
    /\ FreshAfterTurn(c) /\ TurnsBeforeConnected(c) /\ FlagArrives(c)
CallInv == TypesOK /\ \A c \in Client : ClientInv(c)

-----------------------------------------------------------------------------
(* The invariant as long as nothing breaks.                                *)
Creator == Peer(joiner)
Welcome == {e \in DownEvent : e.type = "room" => e.peer = "online"}

(* Nothing happens but the joining.                                        *)
Meeting ==
    /\ \A c \in Client :
         link[c] /\ call[c].target # "self" /\ call[c].conn \in {"new", "connected"}
    /\ ~Has(up[joiner], {"presence", "leave"}) /\ ~Has(up[Creator], Asks)
    /\ ~Has(down[joiner], Turns \cup Moods)
    /\ ~Has(down[Creator], {"room", "peer-left"} \cup Moods)
    /\ down[joiner] \in Seq(Welcome)
    /\ Has(up[joiner], {"join"}) => ~seated[joiner]
    /\ Has(down[Creator], {"peer-joined"}) => seated[joiner]
    /\ Once(down[Creator], {"peer-joined"})
    /\ seated[Creator] /\ view[Creator].room /\ ~view[Creator].self
    /\ view[joiner].room => seated[joiner] /\ view[joiner].peer = "online"
    /\ hook[joiner] # "away" => view[joiner].room /\ found[joiner] = "peer"
    /\ hook[Creator] = "away" =>
          view[Creator].peer = "absent" /\ ~seated[joiner] /\ up[joiner] = <<>>
    /\ hook[Creator] # "away" => found[Creator] = "nobody"

(* Client 2 makes the one offer and client 1 the one answer.               *)
TheOffer == <<2, 1>>
TheAnswer == <<1, 1>>
ToAnswer == Op("answer", TheOffer, NoSdp)
ToAccept == Op("accept", TheAnswer, TheOffer)
Replies == {e \in UpEvent \cup DownEvent : e.type = "answer" => e.re = TheOffer}

OneOffers ==
    /\ call[1].offered = NoSdp /\ pending[2] = NoSdp
    /\ ~Has(up[1], {"offer"}) /\ ~Has(down[2], {"offer"})
    /\ ~Has(up[2], {"answer"}) /\ ~Has(down[1], {"answer"})
    /\ call[1].ops \in {<<>>, <<ToAnswer>>}
    /\ call[2].ops \in {<<>>, <<Offer>>, <<ToAccept>>}
    /\ up[1] \in Seq(Replies) /\ down[2] \in Seq(Replies)

(* The creator calls nobody before it hears of the joiner.                 *)
CalledOnce ==
    joiner = 1 /\ (~seated[1] \/ Has(down[2], {"peer-joined"})) => ~Open(2)

Silence == made[1] = 0 /\ made[2] = 0

(* The offer is in one place at most.                                      *)
OfferSent ==
    /\ made[1] = 0 /\ made[2] = 1
    /\ Open(2) /\ call[2].offered = TheOffer /\ call[2].ops = <<>>
    /\ \/ /\ Once(up[2], {"offer"}) /\ ~Has(down[1], {"offer"})
          /\ pending[1] = NoSdp /\ call[1].ops = <<>>
       \/ /\ ~Has(up[2], {"offer"}) /\ Once(down[1], {"offer"})
          /\ pending[1] = NoSdp /\ call[1].ops = <<>>
       \/ /\ ~Has(up[2], {"offer"}) /\ ~Has(down[1], {"offer"})
          /\ pending[1] = NoSdp \/ call[1].ops = <<>>

Answered ==
    /\ made[1] = 1 /\ made[2] = 1 /\ Open(1) /\ Open(2)
    /\ call[1].local = TheAnswer /\ call[1].remote = TheOffer /\ call[1].ops = <<>>
    /\ pending[1] = NoSdp
    /\ ~Has(up[2], {"offer"}) /\ ~Has(down[1], {"offer"})
Awaited == call[2].offered = TheOffer /\ call[2].remote = NoSdp

(* The answer is in one place.                                             *)
AnswerSent ==
    /\ Answered /\ Awaited /\ call[2].ops = <<>>
    /\ Has(up[1], {"answer"}) /\ Once(up[1], {"answer"}) /\ ~Has(down[2], {"answer"})
AnswerRelayed ==
    /\ Answered /\ Awaited /\ call[2].ops = <<>>
    /\ ~Has(up[1], {"answer"}) /\ Has(down[2], {"answer"}) /\ Once(down[2], {"answer"})
AnswerArrived ==
    /\ Answered /\ Awaited /\ call[2].ops = <<ToAccept>>
    /\ ~Has(up[1], {"answer"}) /\ ~Has(down[2], {"answer"})
Agreed ==
    /\ Answered /\ call[2].ops = <<>>
    /\ call[2].offered = NoSdp /\ call[2].local = TheOffer /\ call[2].remote = TheAnswer
    /\ ~Has(up[1], {"answer"}) /\ ~Has(down[2], {"answer"})

Stage == Silence \/ OfferSent \/ AnswerSent \/ AnswerRelayed \/ AnswerArrived \/ Agreed
Courtship == OneOffers /\ CalledOnce /\ Stage

CalmInv == Undisturbed => Meeting /\ Courtship

-----------------------------------------------------------------------------
(* The two clients, and what they make.                                    *)
LEMMA Peers ==
    ASSUME NEW c \in Client
    PROVE  /\ Peer(c) \in Client /\ Peer(c) # c /\ Peer(Peer(c)) = c
           /\ \A d \in Client : d = c \/ d = Peer(c)
BY DEF Client, Peer

LEMMA NoSdpIsNone ==
    /\ NoSdp \in Sdp
    /\ \A c, n : NoSdp # <<c, n>>
    /\ \A c : NoSdp \notin Ours(c)
<1>1. \A c, n : <<>> # <<c, n>>
  <2> SUFFICES ASSUME NEW c, NEW n, <<>> = <<c, n>> PROVE FALSE
    OBVIOUS
  <2>1. Len(<<>>) = 0 /\ Len(<<c, n>>) = 2
    OBVIOUS
  <2> QED
    BY <2>1
<1> QED
  BY <1>1 DEF Sdp, NoSdp, Ours

(* A new SDP is in nobody's hands yet.                                     *)
LEMMA OursGrow ==
    ASSUME NEW c \in Client, NEW f \in [Client -> Nat], NEW n \in Nat, n = f[c] + 1
    PROVE  /\ <<c, n>> \in {c} \X (1..n) /\ <<c, n>> \notin {c} \X (1..f[c])
           /\ {c} \X (1..f[c]) \subseteq {c} \X (1..n)
           /\ <<c, n>> \in Sdp
BY DEF Sdp

-----------------------------------------------------------------------------
(* Sequences.                                                              *)
LEMMA SeqWider ==
    ASSUME NEW S, NEW T, S \subseteq T, NEW q \in Seq(S)
    PROVE  q \in Seq(T)
OBVIOUS

LEMMA Appended ==
    ASSUME NEW S, NEW q \in Seq(S), NEW e
    PROVE  /\ Append(q, e) # <<>> /\ Len(Append(q, e)) = Len(q) + 1
           /\ Append(q, e)[Len(q) + 1] = e
           /\ \A i \in 1..Len(q) : Append(q, e)[i] = q[i]
           /\ e \in S => Append(q, e) \in Seq(S)
<1>1. Len(q) \in Nat /\ q \in Seq(S \cup {e})
  OBVIOUS
<1>2. Len(Append(q, e)) = Len(q) + 1
  BY <1>1
<1>3. Append(q, e) # <<>>
  BY <1>1, <1>2
<1> QED
  BY <1>1, <1>2, <1>3

LEMMA Taken ==
    ASSUME NEW S, NEW q \in Seq(S), q # <<>>
    PROVE  /\ Tail(q) \in Seq(S) /\ Head(q) \in S /\ Head(q) = q[1]
           /\ Len(q) \in Nat \ {0} /\ Len(Tail(q)) = Len(q) - 1
           /\ \A i \in 1..Len(Tail(q)) : Tail(q)[i] = q[i + 1]
OBVIOUS

LEMMA Nothing ==
    ASSUME NEW K
    PROVE  /\ ~Has(<<>>, K) /\ Once(<<>>, K) /\ LastOnly(<<>>, K)
           /\ \A S : FreshTurns(<<>>, S)
BY DEF Has, Once, LastOnly, FreshTurns

LEMMA HasMore ==
    ASSUME NEW q, NEW K, NEW L, K \subseteq L
    PROVE  /\ Has(q, K) => Has(q, L)
           /\ Once(q, L) => Once(q, K)
BY DEF Has, Once

LEMMA HasAppended ==
    ASSUME NEW S, NEW q \in Seq(S), NEW e, NEW K
    PROVE  Has(Append(q, e), K) <=> Has(q, K) \/ e.type \in K
<1> DEFINE r == Append(q, e)
<1>1. Len(q) \in Nat /\ Len(r) = Len(q) + 1 /\ r[Len(q) + 1] = e
      /\ \A i \in 1..Len(q) : r[i] = q[i]
  BY Appended
<1> HIDE DEF r
<1> QED
  BY <1>1 DEF Has

LEMMA OnceAppended ==
    ASSUME NEW S, NEW q \in Seq(S), NEW e, NEW K, Once(q, K), e.type \notin K \/ ~Has(q, K)
    PROVE  Once(Append(q, e), K)
<1> DEFINE r == Append(q, e)
<1>1. Len(q) \in Nat /\ Len(r) = Len(q) + 1 /\ r[Len(q) + 1] = e
      /\ \A i \in 1..Len(q) : r[i] = q[i]
  BY Appended
<1> HIDE DEF r
<1> SUFFICES ASSUME NEW i \in 1..Len(r), NEW j \in 1..Len(r), r[i].type \in K, r[j].type \in K
             PROVE  i = j
  BY DEF r, Once
<1>2. CASE e.type \notin K
  <2>1. i \in 1..Len(q) /\ j \in 1..Len(q)
    BY <1>1, <1>2
  <2> QED
    BY <2>1, <1>1 DEF Once
<1>3. CASE ~Has(q, K)
  <2>1. i = Len(q) + 1 /\ j = Len(q) + 1
    BY <1>1, <1>3 DEF Has
  <2> QED
    BY <2>1
<1> QED
  BY <1>2, <1>3

LEMMA OnceNone ==
    ASSUME NEW q, NEW K, ~Has(q, K)
    PROVE  Once(q, K) /\ LastOnly(q, K)
BY DEF Has, Once, LastOnly

LEMMA LastAppended ==
    ASSUME NEW S, NEW q \in Seq(S), NEW e, NEW K, ~Has(q, K)
    PROVE  LastOnly(Append(q, e), K)
<1> DEFINE r == Append(q, e)
<1>1. Len(q) \in Nat /\ Len(r) = Len(q) + 1
      /\ \A i \in 1..Len(q) : r[i] = q[i]
  BY Appended
<1> HIDE DEF r
<1> QED
  BY <1>1 DEF Has, LastOnly, r

LEMMA HasTaken ==
    ASSUME NEW S, NEW q \in Seq(S), q # <<>>, NEW K
    PROVE  /\ Has(q, K) <=> Head(q).type \in K \/ Has(Tail(q), K)
           /\ Once(q, K) => Once(Tail(q), K)
           /\ Once(q, K) /\ Head(q).type \in K => ~Has(Tail(q), K)
           /\ LastOnly(q, K) => LastOnly(Tail(q), K)
           /\ LastOnly(q, K) /\ Head(q).type \in K => Tail(q) = <<>>
<1> DEFINE r == Tail(q)
           h == Head(q)
<1>1. h = q[1] /\ Len(q) \in Nat \ {0} /\ Len(r) = Len(q) - 1
      /\ \A i \in 1..Len(r) : r[i] = q[i + 1]
  BY Taken
<1>2. r \in Seq(S)
  OBVIOUS
<1> HIDE DEF r, h
<1>3. Has(q, K) <=> h.type \in K \/ Has(r, K)
  <2>1. ASSUME NEW i \in 1..Len(q), q[i].type \in K, h.type \notin K
        PROVE  Has(r, K)
    <3>1. i # 1 /\ i - 1 \in 1..Len(r) /\ r[i - 1] = q[i]
      BY <1>1, <2>1
    <3> QED
      BY <3>1, <2>1 DEF Has
  <2>2. ASSUME NEW i \in 1..Len(r), r[i].type \in K
        PROVE  Has(q, K)
    <3>1. i + 1 \in 1..Len(q) /\ r[i] = q[i + 1]
      BY <1>1
    <3> QED
      BY <3>1, <2>2 DEF Has
  <2>3. h.type \in K => Has(q, K)
    BY <1>1 DEF Has
  <2> QED
    BY <2>1, <2>2, <2>3 DEF Has
<1>4. \A i \in 1..Len(r) : i + 1 \in 1..Len(q) /\ r[i] = q[i + 1]
  BY <1>1
<1>5. Once(q, K) => Once(r, K)
  BY <1>1, <1>4, SMTT(30) DEF Once
<1>6. Once(q, K) /\ h.type \in K => ~Has(r, K)
  <2> SUFFICES ASSUME Once(q, K), h.type \in K, NEW i \in 1..Len(r), r[i].type \in K
               PROVE  FALSE
    BY DEF Has
  <2>1. 1 \in 1..Len(q) /\ i + 1 # 1
    BY <1>1
  <2> QED
    BY <1>1, <1>4, <2>1 DEF Once
<1>7. LastOnly(q, K) => LastOnly(r, K)
  BY <1>1, <1>4, SMTT(30) DEF LastOnly
<1>8. LastOnly(q, K) /\ h.type \in K => r = <<>>
  BY <1>1, <1>2 DEF LastOnly
<1> QED
  BY <1>3, <1>5, <1>6, <1>7, <1>8 DEF r, h

LEMMA FlagAppended ==
    ASSUME NEW S, NEW q \in Seq(S), NEW e, NEW m
    PROVE  /\ e.type = "media" => LastFlag(Append(q, e), e.muted)
           /\ e.type # "media" /\ LastFlag(q, m) => LastFlag(Append(q, e), m)
<1> DEFINE r == Append(q, e)
<1>1. Len(q) \in Nat /\ Len(r) = Len(q) + 1 /\ r[Len(q) + 1] = e
      /\ \A i \in 1..Len(q) : r[i] = q[i]
  BY Appended
<1> HIDE DEF r
<1>2. e.type = "media" => LastFlag(r, e.muted)
  BY <1>1 DEF LastFlag
<1>3. ASSUME e.type # "media", LastFlag(q, m)
      PROVE  LastFlag(r, m)
  <2>1. PICK i \in 1..Len(q) : q[i].type = "media" /\ q[i].muted = m
                               /\ \A j \in 1..Len(q) : j > i => q[j].type # "media"
    BY <1>3 DEF LastFlag
  <2>2. \A j \in 1..Len(r) : j \in 1..Len(q) \/ j = Len(q) + 1
    BY <1>1
  <2>3. \A j \in 1..Len(r) : j > i => r[j].type # "media"
    BY <1>1, <1>3, <2>1, <2>2
  <2>4. i \in 1..Len(r) /\ r[i] = q[i]
    BY <1>1
  <2> QED
    BY <2>1, <2>3, <2>4 DEF LastFlag
<1> QED
  BY <1>2, <1>3 DEF r

LEMMA FlagTaken ==
    ASSUME NEW S, NEW q \in Seq(S), q # <<>>, NEW m, LastFlag(q, m)
    PROVE  \/ LastFlag(Tail(q), m)
           \/ Head(q).type = "media" /\ Head(q).muted = m /\ ~Has(Tail(q), {"media"})
<1> DEFINE r == Tail(q)
           h == Head(q)
<1>1. h = q[1] /\ Len(q) \in Nat \ {0} /\ Len(r) = Len(q) - 1
      /\ \A i \in 1..Len(r) : r[i] = q[i + 1]
  BY Taken
<1> HIDE DEF r, h
<1>2. PICK i \in 1..Len(q) : q[i].type = "media" /\ q[i].muted = m
                             /\ \A j \in 1..Len(q) : j > i => q[j].type # "media"
  BY DEF LastFlag
<1>3. \A j \in 1..Len(r) : j + 1 \in 1..Len(q) /\ r[j] = q[j + 1]
  BY <1>1
<1>4. CASE i = 1
  <2>1. \A j \in 1..Len(r) : r[j].type # "media"
    BY <1>2, <1>3, <1>4
  <2> QED
    BY <1>1, <1>2, <1>4, <2>1 DEF Has, r, h
<1>5. CASE i # 1
  <2>1. i - 1 \in 1..Len(r) /\ r[i - 1] = q[i]
    BY <1>1, <1>5
  <2>2. \A j \in 1..Len(r) : j > i - 1 => r[j].type # "media"
    BY <1>2, <1>3
  <2> QED
    BY <1>2, <2>1, <2>2 DEF LastFlag, r
<1> QED
  BY <1>4, <1>5

LEMMA FlagCarried ==
    ASSUME NEW S, NEW q \in Seq(S)
    PROVE  /\ Carries(q) <=> Has(q, {"media"})
           /\ \A m : LastFlag(q, m) => Has(q, {"media"})
<1>1. DOMAIN q = 1..Len(q)
  OBVIOUS
<1> QED
  BY <1>1 DEF Carries, Has, LastFlag

LEMMA TurnsAppended ==
    ASSUME NEW S, NEW q \in Seq(S), NEW e, NEW K, e.type \notin Turns, FreshTurns(q, K)
    PROVE  FreshTurns(Append(q, e), K)
<1> DEFINE r == Append(q, e)
<1>1. Len(q) \in Nat /\ Len(r) = Len(q) + 1 /\ r[Len(q) + 1] = e
      /\ \A i \in 1..Len(q) : r[i] = q[i]
  BY Appended
<1> HIDE DEF r
<1> SUFFICES ASSUME NEW i \in 1..Len(r), r[i].type \in Turns,
                    NEW j \in 1..Len(r), j < i, r[j].type \in Signals
             PROVE  r[j].sdp \notin K
  BY DEF FreshTurns, r
<1>2. i \in 1..Len(q) /\ j \in 1..Len(q)
  BY <1>1
<1>3. r[i] = q[i] /\ r[j] = q[j]
  BY <1>1, <1>2
<1> QED
  BY <1>2, <1>3 DEF FreshTurns

LEMMA TurnsTaken ==
    ASSUME NEW S, NEW q \in Seq(S), q # <<>>, NEW K, FreshTurns(q, K)
    PROVE  /\ FreshTurns(Tail(q), K)
           /\ Has(Tail(q), Turns) /\ Head(q).type \in Signals => Head(q).sdp \notin K
<1> DEFINE r == Tail(q)
           h == Head(q)
<1>1. h = q[1] /\ Len(q) \in Nat \ {0} /\ Len(r) = Len(q) - 1
      /\ \A i \in 1..Len(r) : r[i] = q[i + 1]
  BY Taken
<1> HIDE DEF r, h
<1>2. \A i \in 1..Len(r) : i + 1 \in 1..Len(q) /\ r[i] = q[i + 1]
  BY <1>1
<1>3. FreshTurns(r, K)
  <2> SUFFICES ASSUME NEW i \in 1..Len(r), r[i].type \in Turns,
                      NEW j \in 1..Len(r), j < i, r[j].type \in Signals
               PROVE  r[j].sdp \notin K
    BY DEF FreshTurns
  <2>1. i + 1 \in 1..Len(q) /\ j + 1 \in 1..Len(q) /\ j + 1 < i + 1
    BY <1>2
  <2> QED
    BY <1>2, <2>1 DEF FreshTurns
<1>4. Has(r, Turns) /\ h.type \in Signals => h.sdp \notin K
  <2> SUFFICES ASSUME NEW i \in 1..Len(r), r[i].type \in Turns, h.type \in Signals
               PROVE  h.sdp \notin K
    BY DEF Has
  <2>1. i + 1 \in 1..Len(q) /\ 1 \in 1..Len(q) /\ 1 < i + 1
    BY <1>1, <1>2
  <2> QED
    BY <1>1, <1>2, <2>1 DEF FreshTurns
<1> QED
  BY <1>3, <1>4 DEF r, h

(* An SDP that no signal of the queue carries is fresh to it.              *)
LEMMA FreshToQueue ==
    ASSUME NEW q, NEW K, NEW L, FreshTurns(q, K),
           \A i \in 1..Len(q) : q[i].type \in Signals => q[i].sdp \notin L
    PROVE  FreshTurns(q, K \cup L)
BY DEF FreshTurns

LEMMA FreshShrinks ==
    ASSUME NEW q, NEW K, NEW L \in SUBSET K, FreshTurns(q, K)
    PROVE  FreshTurns(q, L)
BY DEF FreshTurns

-----------------------------------------------------------------------------
(* What each part of the invariant speaks of.                              *)
LEMMA OwnedFrame ==
    ASSUME NEW d \in Client, Owned(d), made' = made, call'[d] = call[d], pending'[d] = pending[d],
           up'[d] = up[d], down'[d] = down[d]
    PROVE  Owned(d)'
BY DEF Owned, Ours, Sent, Heard, Todo

LEMMA FitsFrame ==
    ASSUME NEW d \in Client, CallFits(d), call'[d] = call[d], hook'[d] = hook[d],
           view'[d].room = view[d].room
    PROVE  CallFits(d)'
BY DEF CallFits, Open, NoCall, NewCall

LEMMA AsksFrame ==
    ASSUME NEW d \in Client, AsksLast(d), up'[d] = up[d], down'[d] = down[d],
           view'[d].room = view[d].room, hook'[d] = hook[d],
           link'[d] = link[d], seated'[d] = seated[d]
    PROVE  AsksLast(d)'
BY DEF AsksLast

LEMMA FreshFrame ==
    ASSUME NEW d \in Client, FreshAfterTurn(d), seated'[Peer(d)] = seated[Peer(d)],
           down'[d] = down[d], HeldBy(Peer(d))' = HeldBy(Peer(d)), Known(d)' = Known(d)
    PROVE  FreshAfterTurn(d)'
BY DEF FreshAfterTurn

LEMMA SameCall ==
    ASSUME NEW d, call'[d] = call[d]
    PROVE  HeldBy(d)' = HeldBy(d) /\ (pending'[d] = pending[d] => Known(d)' = Known(d))
BY DEF HeldBy, Known

LEMMA TurnsFrame ==
    ASSUME NEW d \in Client, TurnsBeforeConnected(d), seated'[Peer(d)] = seated[Peer(d)],
           call'[Peer(d)].conn = call[Peer(d)].conn, down'[d] = down[d]
    PROVE  TurnsBeforeConnected(d)'
BY DEF TurnsBeforeConnected

LEMMA FlagFrame ==
    ASSUME NEW d \in Client, FlagArrives(d), seated'[Peer(d)] = seated[Peer(d)],
           call'[Peer(d)].conn = call[Peer(d)].conn, muted'[Peer(d)] = muted[Peer(d)],
           up'[Peer(d)] = up[Peer(d)], down'[d] = down[d], badge'[d] = badge[d],
           d \in unseen => d \in unseen'
    PROVE  FlagArrives(d)'
BY DEF FlagArrives

(* Whoever is not in a room has no call.                                   *)
LEMMA NoRoomNoCall ==
    ASSUME CallInv, NEW c \in Client, hook[c] # "ready" \/ ~view[c].room
    PROVE  ~Open(c) /\ call[c] = NoCall
BY DEF CallInv, ClientInv, CallFits

LEMMA NoCallFacts ==
    /\ NoCall \in CallState /\ NoCall.target = "none" /\ NoCall.offered = NoSdp
    /\ NoCall.local = NoSdp /\ NoCall.remote = NoSdp /\ NoCall.conn = "new"
    /\ NoCall.ops = <<>> /\ NoCall.timer = FALSE
BY NoSdpIsNone, BoundsAssumption DEF NoCall, NewCall, CallState

LEMMA NewCallFacts ==
    ASSUME NEW t, NEW ops, NEW r, r = NewCall(t, ops)
    PROVE  /\ r.target = t /\ r.offered = NoSdp /\ r.local = NoSdp /\ r.remote = NoSdp
           /\ r.conn = "new" /\ r.ops = ops /\ ~r.timer
BY DEF NewCall

LEMMA NewCallTyped ==
    ASSUME NEW t, t \in {"peer", "self"}, NEW ops \in Seq(Operation)
    PROVE  NewCall(t, ops) \in CallState
BY NoSdpIsNone, BoundsAssumption DEF NewCall, CallState

-----------------------------------------------------------------------------
(* The steps.                                                              *)
LEMMA MountKept ==
    ASSUME CallInv, NEW c \in Client, Mount(c)
    PROVE  CallInv'
<1>1. TypesOK'
  BY DEF CallInv, TypesOK, Mount, serverVars, wireVars, mediaVars, counts
<1>2. /\ hook[c] = "away" /\ view[c].room /\ hook' = [hook EXCEPT ![c] = "acquiring"]
      /\ UNCHANGED <<seated, link, up, down, view, pending, call, made, muted, badge, unseen>>
  BY DEF Mount, serverVars, wireVars, mediaVars
<1>3. hook \in [Client -> {"away", "acquiring", "ready", "denied"}]
  BY DEF CallInv, TypesOK
<1>4. SUFFICES ASSUME NEW d \in Client PROVE ClientInv(d)'
  BY <1>1 DEF CallInv
<1>5. ClientInv(d)
  BY DEF CallInv
<1>6. Owned(d)'
  BY <1>2, <1>5, OwnedFrame DEF ClientInv
<1>7. CallFits(d)'
  BY <1>2, <1>3, <1>5 DEF ClientInv, CallFits, Open, NoCall, NewCall
<1>8. AsksLast(d)'
  <2>1. AsksLast(d) /\ (d # c => hook'[d] = hook[d])
    BY <1>2, <1>3, <1>5 DEF ClientInv
  <2>2. CASE d # c
    BY <1>2, <2>1, <2>2, AsksFrame
  <2>3. CASE d = c
    <3>1. ~Has(up[c], Asks)
      BY <1>2, <2>1, <2>3 DEF AsksLast
    <3>2. ~Has(up[c], {"join", "leave"})
      BY <3>1, HasMore DEF Asks
    <3> QED
      BY <1>2, <2>1, <2>3, <3>1, <3>2 DEF AsksLast
  <2> QED
    BY <2>2, <2>3
<1>9. FreshAfterTurn(d)' /\ TurnsBeforeConnected(d)'
  BY <1>2, <1>5, Peers, FreshFrame, SameCall, TurnsFrame DEF ClientInv
<1>10. FlagArrives(d)'
  BY <1>2, <1>5, Peers, FlagFrame DEF ClientInv
<1> QED
  BY <1>6, <1>7, <1>8, <1>9, <1>10 DEF ClientInv

LEMMA MediaDeniedKept ==
    ASSUME CallInv, NEW c \in Client, MediaDenied(c)
    PROVE  CallInv'
<1>1. TypesOK'
  BY DEF CallInv, TypesOK, MediaDenied, serverVars, wireVars, mediaVars, counts
<1>2. /\ hook[c] = "acquiring" /\ hook' = [hook EXCEPT ![c] = "denied"]
      /\ UNCHANGED <<seated, link, up, down, view, pending, call, made, muted, badge, unseen>>
  BY DEF MediaDenied, serverVars, wireVars, mediaVars
<1>3. hook \in [Client -> {"away", "acquiring", "ready", "denied"}]
  BY DEF CallInv, TypesOK
<1>4. SUFFICES ASSUME NEW d \in Client PROVE ClientInv(d)'
  BY <1>1 DEF CallInv
<1>5. ClientInv(d)
  BY DEF CallInv
<1>6. Owned(d)'
  BY <1>2, <1>5, OwnedFrame DEF ClientInv
<1>7. CallFits(d)'
  BY <1>2, <1>3, <1>5 DEF ClientInv, CallFits, Open, NoCall, NewCall
<1>8. AsksLast(d)'
  BY <1>2, <1>3, <1>5 DEF ClientInv, AsksLast
<1>9. FreshAfterTurn(d)' /\ TurnsBeforeConnected(d)'
  BY <1>2, <1>5, Peers, FreshFrame, SameCall, TurnsFrame DEF ClientInv
<1>10. FlagArrives(d)'
  BY <1>2, <1>5, Peers, FlagFrame DEF ClientInv
<1> QED
  BY <1>6, <1>7, <1>8, <1>9, <1>10 DEF ClientInv

(* What sending does to the invariant.                                     *)
LEMMA AsksEmitted ==
    ASSUME NEW d \in Client, AsksLast(d), up[d] \in Seq(UpEvent), view[d].room,
           NEW e, e.type \notin Asks, up'[d] = Append(up[d], e),
           down'[d] = down[d], view'[d].room = view[d].room, hook'[d] = hook[d],
           link'[d] = link[d], seated'[d] = seated[d]
    PROVE  AsksLast(d)'
<1>1. ~Has(up[d], Asks)
  BY DEF AsksLast
<1>2. ~Has(up'[d], Asks)
  BY <1>1, HasAppended
<1>3. LastOnly(up'[d], Asks) /\ ~Has(up'[d], {"join", "leave"}) /\ ~Has(up'[d], {"presence"})
  BY <1>2, OnceNone, HasMore DEF Asks
<1> QED
  BY <1>2, <1>3 DEF AsksLast

LEMMA SameMakes ==
    ASSUME NEW d \in Client, made' = made
    PROVE  Ours(d)' = Ours(d) /\ Sent(d)' = Sent(d) /\ Heard(d)' = Heard(d) /\ Todo(d)' = Todo(d)
BY DEF Ours, Sent, Heard, Todo

LEMMA OwnedEmitted ==
    ASSUME NEW d \in Client, Owned(d), made' = made,
           call'[d].offered = call[d].offered, call'[d].local = call[d].local,
           call'[d].remote = call[d].remote, call'[d].ops = call[d].ops,
           pending'[d] = pending[d], down'[d] = down[d],
           NEW e \in UpEvent, e.type \notin Signals, up'[d] = Append(up[d], e)
    PROVE  Owned(d)'
<1>1. /\ Ours(d)' = Ours(d) /\ Sent(d)' = Sent(d) /\ Heard(d)' = Heard(d) /\ Todo(d)' = Todo(d)
      /\ Ours(Peer(d))' = Ours(Peer(d))
  BY SameMakes, Peers
<1>2. e \in Sent(d)
  BY DEF Sent
<1>3. up'[d] \in Seq(Sent(d))
  BY <1>2 DEF Owned
<1> QED
  BY <1>1, <1>3 DEF Owned

LEMMA FlagEmitted ==
    ASSUME NEW d \in Client, FlagArrives(d), up[Peer(d)] \in Seq(UpEvent),
           NEW e, e.type # "media", up'[Peer(d)] = Append(up[Peer(d)], e),
           seated'[Peer(d)] = seated[Peer(d)],
           call'[Peer(d)].conn = "connected" => call[Peer(d)].conn = "connected",
           muted'[Peer(d)] = muted[Peer(d)],
           down'[d] = down[d], badge'[d] = badge[d], unseen' = unseen
    PROVE  FlagArrives(d)'
<1>1. ~Has(up[Peer(d)], {"media"}) => ~Has(up'[Peer(d)], {"media"})
  BY HasAppended
<1>2. LastFlag(up[Peer(d)], muted[Peer(d)]) => LastFlag(up'[Peer(d)], muted[Peer(d)])
  BY FlagAppended
<1> QED
  BY <1>1, <1>2 DEF FlagArrives

LEMMA FlagSent ==
    ASSUME NEW d \in Client, up[Peer(d)] \in Seq(UpEvent),
           up'[Peer(d)] = Append(up[Peer(d)], MediaState(muted'[Peer(d)]))
    PROVE  FlagArrives(d)'
<1>1. LastFlag(up'[Peer(d)], muted'[Peer(d)])
  BY FlagAppended DEF MediaState
<1> QED
  BY <1>1 DEF FlagArrives

LEMMA NoteTyped ==
    /\ \A t \in Asks : Note(t) \in UpEvent /\ Note(t).type = t
    /\ \A t \in Turns \cup Moods : Note(t) \in DownEvent /\ Note(t).type = t
    /\ \A m \in BOOLEAN : MediaState(m) \in UpEvent /\ MediaState(m) \in DownEvent
BY NoSdpIsNone DEF Note, Event, MediaState, UpEvent, DownEvent, MediaEvent, Asks, Turns, Moods,
                   Entered

LEMMA AskToJoinKept ==
    ASSUME CallInv, NEW c \in Client, AskToJoin(c)
    PROVE  CallInv'
<1> DEFINE e == Note("join")
<1>1. /\ link[c] /\ hook[c] = "away" /\ ~view[c].room /\ ~seated[c] /\ up[c] = <<>>
      /\ up' = [up EXCEPT ![c] = Append(@, e)]
      /\ UNCHANGED <<joiner, seated, link, down, view, hook, found, pending, call, made,
                     muted, badge, unseen, outages, losses, toggles>>
  BY DEF AskToJoin, Emit, serverVars, hookVars, mediaVars, counts
<1>2. e \in UpEvent /\ e.type = "join"
  BY NoteTyped DEF Asks
<1> HIDE DEF e
<1>3. up \in [Client -> Seq(UpEvent)]
  BY DEF CallInv, TypesOK
<1>4. TypesOK'
  BY <1>1, <1>2 DEF CallInv, TypesOK
<1>5. /\ up'[c] = Append(up[c], e) /\ up[c] \in Seq(UpEvent)
      /\ \A d \in Client : d # c => up'[d] = up[d]
  BY <1>1, <1>3
<1>6. SUFFICES ASSUME NEW d \in Client PROVE ClientInv(d)'
  BY <1>4 DEF CallInv
<1>7. ClientInv(d) /\ Peer(d) \in Client /\ up[Peer(d)] \in Seq(UpEvent)
  BY <1>3, Peers DEF CallInv
<1>8. Owned(d)'
  <2>1. CASE d = c
    BY <1>1, <1>2, <1>5, <1>7, <2>1, OwnedEmitted DEF ClientInv, Signals
  <2>2. CASE d # c
    BY <1>1, <1>5, <1>7, <2>2, OwnedFrame DEF ClientInv
  <2> QED
    BY <2>1, <2>2
<1>9. CallFits(d)' /\ FreshAfterTurn(d)' /\ TurnsBeforeConnected(d)'
  BY <1>1, <1>7, FitsFrame, FreshFrame, SameCall, TurnsFrame DEF ClientInv
<1>10. AsksLast(d)'
  <2>1. CASE d # c
    BY <1>1, <1>5, <1>7, <2>1, AsksFrame DEF ClientInv
  <2>2. CASE d = c
    <3>1. ~Has(up[c], Asks) /\ ~Has(up[c], {"presence"})
      BY <1>1, Nothing
    <3>2. LastOnly(up'[c], Asks) /\ ~Has(up'[c], {"presence"})
      BY <1>2, <1>5, <3>1, LastAppended, HasAppended
    <3> QED
      BY <1>1, <1>7, <2>2, <3>2 DEF ClientInv, AsksLast
  <2> QED
    BY <2>1, <2>2
<1>11. FlagArrives(d)'
  <2>1. CASE Peer(d) = c
    BY <1>1, <1>2, <1>5, <1>7, <2>1, FlagEmitted DEF ClientInv
  <2>2. CASE Peer(d) # c
    BY <1>1, <1>5, <1>7, <2>2, FlagFrame DEF ClientInv
  <2> QED
    BY <2>1, <2>2
<1> QED
  BY <1>8, <1>9, <1>10, <1>11 DEF ClientInv

LEMMA ToggleAudioKept ==
    ASSUME CallInv, NEW c \in Client, ToggleAudio(c)
    PROVE  CallInv'
<1> DEFINE e == MediaState(~muted[c])
<1>1. /\ losses + toggles < MaxIncidents /\ toggles' = toggles + 1
      /\ hook[c] = "ready" /\ muted' = [muted EXCEPT ![c] = ~@]
      /\ up' = IF view[c].room THEN [up EXCEPT ![c] = Append(@, e)] ELSE up
      /\ UNCHANGED <<joiner, seated, link, down, view, hook, found, pending, call, made,
                     badge, unseen, outages, losses>>
  BY DEF ToggleAudio, BroadcastMediaState, serverVars, hookVars
<1>2. /\ up \in [Client -> Seq(UpEvent)] /\ muted \in [Client -> BOOLEAN]
      /\ losses \in Nat /\ toggles \in 0..(MaxIncidents - losses)
  BY DEF CallInv, TypesOK
<1>3. e \in UpEvent /\ e.type = "media" /\ e = MediaState(muted'[c])
  BY <1>1, <1>2, NoteTyped DEF MediaState
<1> HIDE DEF e
<1>4. toggles' \in 0..(MaxIncidents - losses)
  BY <1>1, <1>2, BoundsAssumption
<1>5. muted' \in [Client -> BOOLEAN] /\ up' \in [Client -> Seq(UpEvent)]
  BY <1>1, <1>2, <1>3
<1>6. TypesOK'
  BY <1>1, <1>4, <1>5 DEF CallInv, TypesOK
<1>7. /\ up'[c] = IF view[c].room THEN Append(up[c], e) ELSE up[c]
      /\ \A d \in Client : d # c => up'[d] = up[d] /\ muted'[d] = muted[d]
  BY <1>1, <1>2
<1>8. SUFFICES ASSUME NEW d \in Client PROVE ClientInv(d)'
  BY <1>6 DEF CallInv
<1>9. ClientInv(d) /\ Peer(d) \in Client /\ up[d] \in Seq(UpEvent) /\ up[Peer(d)] \in Seq(UpEvent)
  BY <1>2, Peers DEF CallInv
<1>10. Owned(d)'
  <2>1. CASE d = c /\ view[c].room
    BY <1>1, <1>3, <1>7, <1>9, <2>1, OwnedEmitted DEF ClientInv, Signals
  <2>2. CASE ~(d = c /\ view[c].room)
    BY <1>1, <1>7, <1>9, <2>2, OwnedFrame DEF ClientInv
  <2> QED
    BY <2>1, <2>2
<1>11. CallFits(d)' /\ FreshAfterTurn(d)' /\ TurnsBeforeConnected(d)'
  BY <1>1, <1>9, FitsFrame, FreshFrame, SameCall, TurnsFrame DEF ClientInv
<1>12. AsksLast(d)'
  <2>1. CASE d = c /\ view[c].room
    BY <1>1, <1>3, <1>7, <1>9, <2>1, AsksEmitted DEF ClientInv, Asks
  <2>2. CASE ~(d = c /\ view[c].room)
    BY <1>1, <1>7, <1>9, <2>2, AsksFrame DEF ClientInv
  <2> QED
    BY <2>1, <2>2
<1>13. FlagArrives(d)'
  <2>1. CASE Peer(d) = c /\ view[c].room
    BY <1>3, <1>7, <1>9, <2>1, FlagSent
  <2>2. CASE Peer(d) = c /\ ~view[c].room
    <3>1. call'[c] = NoCall
      BY <1>1, <2>2, NoRoomNoCall
    <3> QED
      BY <2>2, <3>1, NoCallFacts DEF FlagArrives
  <2>3. CASE Peer(d) # c
    BY <1>1, <1>7, <1>9, <2>3, FlagFrame DEF ClientInv
  <2> QED
    BY <2>1, <2>2, <2>3
<1> QED
  BY <1>10, <1>11, <1>12, <1>13 DEF ClientInv

LEMMA ConnectKept ==
    ASSUME CallInv, NEW c \in Client, Connect(c)
    PROVE  CallInv'
<1> DEFINE e == MediaState(muted[c])
           r == [call[c] EXCEPT !.conn = "connected", !.restarts = 0, !.timer = FALSE]
<1>1. /\ Linked(c)
      /\ call' = [call EXCEPT ![c] = r]
      /\ up' = IF view[c].room THEN [up EXCEPT ![c] = Append(@, e)] ELSE up
      /\ unseen' = unseen \ {Peer(c)}
      /\ UNCHANGED <<joiner, seated, link, down, view, hook, found, pending, made,
                     muted, badge, outages, losses, toggles>>
  BY DEF Connect, PushMediaState, BroadcastMediaState, serverVars, hookVars, counts
<1>2. /\ up \in [Client -> Seq(UpEvent)] /\ muted \in [Client -> BOOLEAN]
      /\ call \in [Client -> CallState] /\ call[c] \in CallState
  BY DEF CallInv, TypesOK
<1>3. e \in UpEvent /\ e.type = "media" /\ e = MediaState(muted'[c])
  BY <1>1, <1>2, NoteTyped DEF MediaState
<1>4. /\ r \in CallState /\ r.conn = "connected" /\ r.timer = FALSE /\ r.target = call[c].target
      /\ r.offered = call[c].offered /\ r.local = call[c].local /\ r.remote = call[c].remote
      /\ r.ops = call[c].ops
  <2>1. 0 \in 0..MAX_ICE_RESTARTS
    BY BoundsAssumption
  <2>2. r \in CallState
    BY <1>2, <2>1 DEF CallState
  <2> QED
    BY <1>2, <2>2 DEF CallState
<1> HIDE DEF e, r
<1>5. ClientInv(c) /\ Open(c) /\ view[c].room
  BY <1>1 DEF CallInv, ClientInv, CallFits, Linked
<1>6. up'[c] = Append(up[c], e) /\ call'[c] = r
      /\ \A d \in Client : d # c => up'[d] = up[d] /\ call'[d] = call[d]
  BY <1>1, <1>2, <1>5
<1>7. TypesOK'
  BY <1>1, <1>2, <1>3, <1>4, SMTT(30) DEF CallInv, TypesOK
<1>8. SUFFICES ASSUME NEW d \in Client PROVE ClientInv(d)'
  BY <1>7 DEF CallInv
<1>9. ClientInv(d) /\ Peer(d) \in Client /\ up[d] \in Seq(UpEvent) /\ up[Peer(d)] \in Seq(UpEvent)
  BY <1>2, Peers DEF CallInv
<1>10. /\ call'[d].target = call[d].target /\ call'[d].offered = call[d].offered
       /\ call'[d].local = call[d].local /\ call'[d].remote = call[d].remote
       /\ call'[d].ops = call[d].ops
  BY <1>4, <1>6
<1>11. HeldBy(d)' = HeldBy(d) /\ Known(d)' = Known(d) /\ HeldBy(Peer(d))' = HeldBy(Peer(d))
  BY <1>1, <1>4, <1>6, <1>9 DEF HeldBy, Known
<1>12. Owned(d)'
  <2>1. CASE d = c
    BY <1>1, <1>3, <1>6, <1>9, <1>10, <2>1, OwnedEmitted, SMTT(30) DEF ClientInv, Signals
  <2>2. CASE d # c
    BY <1>1, <1>6, <1>9, <2>2, OwnedFrame DEF ClientInv
  <2> QED
    BY <2>1, <2>2
<1>13. CallFits(d)'
  <2>1. CASE d # c
    BY <1>1, <1>6, <1>9, <2>1, FitsFrame DEF ClientInv
  <2>2. CASE d = c
    <3>1. call[c].remote # NoSdp /\ call[c].target # "self"
      BY <1>1, <1>5 DEF ClientInv, CallFits, Linked
    <3> QED
      BY <1>1, <1>4, <1>5, <1>6, <2>2, <3>1 DEF ClientInv, CallFits, Open
  <2> QED
    BY <2>1, <2>2
<1>14. AsksLast(d)'
  <2>1. CASE d = c
    BY <1>1, <1>3, <1>5, <1>6, <1>9, <2>1, AsksEmitted DEF ClientInv, Asks
  <2>2. CASE d # c
    BY <1>1, <1>6, <1>9, <2>2, AsksFrame DEF ClientInv
  <2> QED
    BY <2>1, <2>2
<1>15. FreshAfterTurn(d)'
  BY <1>1, <1>9, <1>11, FreshFrame DEF ClientInv
<1>16. TurnsBeforeConnected(d)'
  <2>1. CASE Peer(d) # c
    BY <1>1, <1>6, <1>9, <2>1, TurnsFrame DEF ClientInv
  <2>2. CASE Peer(d) = c
    <3>1. Peer(c) = d
      BY <2>2, Peers
    <3>2. call[c].local # NoSdp /\ call[c].local = call[d].remote
      BY <1>1, <3>1 DEF Linked
    <3>3. call[c].local \in HeldBy(Peer(d)) \cap Known(d)
      BY <2>2, <3>2 DEF HeldBy, Known
    <3>4. seated[c] => ~Has(down[d], Turns)
      BY <1>9, <2>2, <3>3 DEF ClientInv, FreshAfterTurn
    <3> QED
      BY <1>1, <2>2, <3>4 DEF TurnsBeforeConnected
  <2> QED
    BY <2>1, <2>2
<1>17. FlagArrives(d)'
  <2>1. CASE Peer(d) = c
    BY <1>3, <1>6, <1>9, <2>1, FlagSent
  <2>2. CASE Peer(d) # c
    <3>1. d # Peer(c)
      BY <2>2, Peers
    <3> QED
      BY <1>1, <1>6, <1>9, <2>2, <3>1, FlagFrame DEF ClientInv
  <2> QED
    BY <2>1, <2>2
<1> QED
  BY <1>12, <1>13, <1>14, <1>15, <1>16, <1>17 DEF ClientInv

(* What the queue of operations does to what a client knows.               *)
LEMMA OpsKnow ==
    ASSUME NEW q \in Seq(Operation)
    PROVE  /\ \A o \in Operation :
                \A i \in 1..Len(Append(q, o)) :
                    Append(q, o)[i].sdp = o.sdp \/ \E j \in 1..Len(q) : Append(q, o)[i].sdp = q[j].sdp
           /\ q # <<>> =>
                /\ \A i \in 1..Len(Tail(q)) : \E j \in 1..Len(q) : Tail(q)[i].sdp = q[j].sdp
                /\ \E j \in 1..Len(q) : Head(q).sdp = q[j].sdp
<1>1. ASSUME NEW o \in Operation, NEW i \in 1..Len(Append(q, o))
      PROVE  Append(q, o)[i].sdp = o.sdp \/ \E j \in 1..Len(q) : Append(q, o)[i].sdp = q[j].sdp
  <2>1. i \in 1..Len(q) \/ i = Len(q) + 1
    BY <1>1, Appended
  <2> QED
    BY <2>1, Appended
<1>2. ASSUME q # <<>>
      PROVE  /\ \A i \in 1..Len(Tail(q)) : \E j \in 1..Len(q) : Tail(q)[i].sdp = q[j].sdp
             /\ \E j \in 1..Len(q) : Head(q).sdp = q[j].sdp
  <2>1. /\ Head(q) = q[1] /\ 1 \in 1..Len(q)
        /\ \A i \in 1..Len(Tail(q)) : i + 1 \in 1..Len(q) /\ Tail(q)[i] = q[i + 1]
    BY <1>2, Taken
  <2> QED
    BY <2>1
<1> QED
  BY <1>1, <1>2

LEMMA FreshWeaker ==
    ASSUME NEW d \in Client, FreshAfterTurn(d), seated'[Peer(d)] => seated[Peer(d)],
           down'[d] = down[d], HeldBy(Peer(d))' \subseteq HeldBy(Peer(d)),
           Known(d)' \subseteq Known(d) \cup {NoSdp}
    PROVE  FreshAfterTurn(d)'
<1> SUFFICES ASSUME seated'[Peer(d)], Has(down'[d], Turns)
             PROVE  /\ HeldBy(Peer(d))' \cap Known(d)' = {}
                    /\ FreshTurns(down'[d], HeldBy(Peer(d))')
  BY DEF FreshAfterTurn
<1>1. HeldBy(Peer(d)) \cap Known(d) = {} /\ FreshTurns(down[d], HeldBy(Peer(d)))
  BY DEF FreshAfterTurn
<1>2. NoSdp \notin HeldBy(Peer(d))'
  BY DEF HeldBy
<1> QED
  BY <1>1, <1>2, FreshShrinks

LEMMA OfferTyped ==
    Offer \in Operation /\ Offer.op = "offer" /\ Offer.sdp = NoSdp
BY NoSdpIsNone DEF Offer, Op, Operation

(* A call that goes from one state to another, neither of them connected   *)
(* afterwards, and may get another offer to make.                          *)
LEMMA CallWaversKept ==
    ASSUME CallInv, NEW c \in Client, NEW r \in CallState, call' = [call EXCEPT ![c] = r],
           r.target = call[c].target, r.offered = call[c].offered,
           r.local = call[c].local, r.remote = call[c].remote,
           r.ops = call[c].ops \/ r.ops = Append(call[c].ops, Offer),
           r.conn # "connected", call[c].remote # NoSdp,
           r.timer => r.conn = "disconnected",
           UNCHANGED <<seated, link, up, down, view, hook, pending, made, muted, badge, unseen>>,
           NEW d \in Client
    PROVE  ClientInv(d)'
<1>1. call \in [Client -> CallState] /\ call[c] \in CallState /\ call[c].ops \in Seq(Operation)
  BY DEF CallInv, TypesOK, CallState
<1>2. call'[c] = r /\ (d # c => call'[d] = call[d])
  BY <1>1
<1>3. ClientInv(d) /\ ClientInv(c) /\ Peer(d) \in Client
  BY Peers DEF CallInv
<1>4. Open(c) /\ call[c].target # "self"
  BY <1>3, NoCallFacts DEF ClientInv, CallFits
<1>5. Owned(d)'
  <2>1. CASE d # c
    BY <1>2, <1>3, <2>1, OwnedFrame DEF ClientInv
  <2>2. CASE d = c
    <3>1. Offer \in Todo(c)
      BY OfferTyped DEF Todo
    <3>2. r.ops \in Seq(Todo(c))
      <4>1. call[c].ops \in Seq(Todo(c))
        BY <1>3 DEF ClientInv, Owned
      <4>2. Append(call[c].ops, Offer) \in Seq(Todo(c))
        BY <3>1, <4>1
      <4> QED
        BY <4>1, <4>2
    <3>3. /\ Ours(c)' = Ours(c) /\ Ours(Peer(c))' = Ours(Peer(c))
          /\ Sent(c)' = Sent(c) /\ Heard(c)' = Heard(c) /\ Todo(c)' = Todo(c)
      BY Peers, SameMakes
    <3> QED
      BY <1>2, <1>3, <2>2, <3>2, <3>3 DEF ClientInv, Owned
  <2> QED
    BY <2>1, <2>2
<1>6. CallFits(d)'
  <2>1. CASE d # c
    BY <1>2, <1>3, <2>1, FitsFrame DEF ClientInv
  <2>2. CASE d = c
    BY <1>2, <1>3, <1>4, <2>2 DEF ClientInv, CallFits, Open
  <2> QED
    BY <2>1, <2>2
<1>7. AsksLast(d)'
  BY <1>3, AsksFrame DEF ClientInv
<1>8. FreshAfterTurn(d)'
  <2>1. HeldBy(Peer(d))' = HeldBy(Peer(d))
    BY <1>1, <1>2, <1>3 DEF HeldBy
  <2>2. Known(d)' \subseteq Known(d) \cup {NoSdp}
    <3>1. CASE d # c
      BY <1>2, <3>1, SameCall
    <3>2. CASE d = c
      <4>1. \A i \in 1..Len(r.ops) :
              r.ops[i].sdp = NoSdp \/ \E j \in 1..Len(call[c].ops) : r.ops[i].sdp = call[c].ops[j].sdp
        <5>1. CASE r.ops = call[c].ops
          BY <5>1
        <5>2. CASE r.ops = Append(call[c].ops, Offer)
          BY <1>1, <5>2, OpsKnow, OfferTyped
        <5> QED
          BY <5>1, <5>2
      <4> QED
        BY <1>2, <3>2, <4>1, SMTT(30) DEF Known
    <3> QED
      BY <3>1, <3>2
  <2> QED
    BY <1>3, <2>1, <2>2, FreshWeaker DEF ClientInv
<1>9. TurnsBeforeConnected(d)'
  BY <1>1, <1>2, <1>3 DEF ClientInv, TurnsBeforeConnected
<1>10. FlagArrives(d)'
  BY <1>1, <1>2, <1>3 DEF ClientInv, FlagArrives
<1> QED
  BY <1>5, <1>6, <1>7, <1>8, <1>9, <1>10 DEF ClientInv

LEMMA DisconnectedKept ==
    ASSUME CallInv, NEW c \in Client, Disconnected(c)
    PROVE  CallInv'
<1> DEFINE r == [call[c] EXCEPT !.conn = "disconnected", !.timer = TRUE]
<1>1. /\ call[c].conn = "connected" /\ call' = [call EXCEPT ![c] = r]
      /\ losses' = losses \/ (losses' = losses + 1 /\ losses + toggles < MaxIncidents)
      /\ UNCHANGED <<joiner, seated, link, up, down, view, hook, found, pending, made,
                     muted, badge, unseen, outages, toggles>>
  BY DEF Disconnected, PathBreaks, serverVars, wireVars, hookVars, mediaVars
<1>2. call \in [Client -> CallState] /\ call[c] \in CallState
  BY DEF CallInv, TypesOK
<1>3. /\ r \in CallState /\ r.conn = "disconnected" /\ r.target = call[c].target
      /\ r.offered = call[c].offered /\ r.local = call[c].local /\ r.remote = call[c].remote
      /\ r.ops = call[c].ops
  BY <1>2 DEF CallState
<1> HIDE DEF r
<1>4. losses' \in Nat /\ toggles' \in 0..(MaxIncidents - losses')
  BY <1>1, BoundsAssumption DEF CallInv, TypesOK
<1>5. TypesOK'
  BY <1>1, <1>2, <1>3, <1>4 DEF CallInv, TypesOK
<1>6. call[c].remote # NoSdp
  BY <1>1 DEF CallInv, ClientInv, CallFits
<1>7. \A d \in Client : ClientInv(d)'
  BY <1>1, <1>3, <1>6, CallWaversKept
<1> QED
  BY <1>5, <1>7 DEF CallInv

LEMMA RestartFacts ==
    ASSUME NEW r \in CallState
    PROVE  /\ Restart(r) \in CallState /\ Restart(r).target = r.target
           /\ Restart(r).offered = r.offered /\ Restart(r).local = r.local
           /\ Restart(r).remote = r.remote /\ Restart(r).conn = r.conn
           /\ Restart(r).timer = r.timer
           /\ Restart(r).ops = r.ops \/ Restart(r).ops = Append(r.ops, Offer)
<1>1. CASE r.restarts >= MAX_ICE_RESTARTS
  BY <1>1 DEF Restart
<1>2. CASE ~(r.restarts >= MAX_ICE_RESTARTS)
  <2> DEFINE q == Append(r.ops, Offer)
             n == r.restarts + 1
  <2>1. Restart(r) = [r EXCEPT !.restarts = n, !.ops = q]
    BY <1>2 DEF Restart
  <2>2. n \in 0..MAX_ICE_RESTARTS
    BY <1>2, BoundsAssumption DEF CallState
  <2>3. q \in Seq(Operation)
    BY OfferTyped DEF CallState
  <2> HIDE DEF q, n
  <2>4. Restart(r) \in CallState
    BY <2>1, <2>2, <2>3 DEF CallState
  <2>5. Restart(r).ops = q
    BY <2>1 DEF CallState
  <2> QED
    BY <2>1, <2>4, <2>5 DEF CallState, q
<1> QED
  BY <1>1, <1>2

LEMMA FailedKept ==
    ASSUME CallInv, NEW c \in Client, Failed(c)
    PROVE  CallInv'
<1> DEFINE s == [call[c] EXCEPT !.conn = "failed", !.timer = FALSE]
           r == Restart(s)
<1>1. /\ call[c].remote # NoSdp /\ call' = [call EXCEPT ![c] = r]
      /\ losses' = losses \/ (losses' = losses + 1 /\ losses + toggles < MaxIncidents)
      /\ UNCHANGED <<joiner, seated, link, up, down, view, hook, found, pending, made,
                     muted, badge, unseen, outages, toggles>>
  BY DEF Failed, PathBreaks, serverVars, wireVars, hookVars, mediaVars
<1>2. call \in [Client -> CallState] /\ call[c] \in CallState
  BY DEF CallInv, TypesOK
<1>3. /\ s \in CallState /\ s.conn = "failed" /\ s.target = call[c].target
      /\ s.offered = call[c].offered /\ s.local = call[c].local /\ s.remote = call[c].remote
      /\ s.ops = call[c].ops /\ s.timer = FALSE
  BY <1>2 DEF CallState
<1> HIDE DEF s
<1>4. /\ r \in CallState /\ r.conn = "failed" /\ r.target = call[c].target
      /\ r.offered = call[c].offered /\ r.local = call[c].local /\ r.remote = call[c].remote
      /\ r.timer = FALSE
      /\ r.ops = call[c].ops \/ r.ops = Append(call[c].ops, Offer)
  BY <1>3, RestartFacts
<1> HIDE DEF r
<1>5. losses' \in Nat /\ toggles' \in 0..(MaxIncidents - losses')
  BY <1>1, BoundsAssumption DEF CallInv, TypesOK
<1>6. TypesOK'
  BY <1>1, <1>2, <1>4, <1>5 DEF CallInv, TypesOK
<1>7. \A d \in Client : ClientInv(d)'
  BY <1>1, <1>4, CallWaversKept
<1> QED
  BY <1>6, <1>7 DEF CallInv

LEMMA TimerFiresKept ==
    ASSUME CallInv, NEW c \in Client, TimerFires(c)
    PROVE  CallInv'
<1> DEFINE s == [call[c] EXCEPT !.timer = FALSE]
           r == Restart(s)
<1>1. /\ call[c].timer
      /\ call' = [call EXCEPT ![c] = IF call[c].conn = "disconnected" THEN r ELSE s]
      /\ UNCHANGED <<joiner, seated, link, up, down, view, hook, found, pending, made,
                     muted, badge, unseen, outages, losses, toggles>>
  BY DEF TimerFires, serverVars, wireVars, hookVars, mediaVars, counts
<1>2. call \in [Client -> CallState] /\ call[c] \in CallState
  BY DEF CallInv, TypesOK
<1>3. call[c].conn = "disconnected" /\ call[c].remote # NoSdp
  BY <1>1 DEF CallInv, ClientInv, CallFits
<1>4. /\ s \in CallState /\ s.conn = "disconnected" /\ s.target = call[c].target
      /\ s.offered = call[c].offered /\ s.local = call[c].local /\ s.remote = call[c].remote
      /\ s.ops = call[c].ops /\ s.timer = FALSE
  BY <1>2, <1>3 DEF CallState
<1> HIDE DEF s
<1>5. /\ r \in CallState /\ r.conn = "disconnected" /\ r.target = call[c].target
      /\ r.offered = call[c].offered /\ r.local = call[c].local /\ r.remote = call[c].remote
      /\ r.timer = FALSE
      /\ r.ops = call[c].ops \/ r.ops = Append(call[c].ops, Offer)
  BY <1>4, RestartFacts
<1> HIDE DEF r
<1>6. call' = [call EXCEPT ![c] = r]
  BY <1>1, <1>3
<1>7. TypesOK'
  BY <1>1, <1>2, <1>5, <1>6 DEF CallInv, TypesOK
<1>8. \A d \in Client : ClientInv(d)'
  BY <1>1, <1>3, <1>5, <1>6, CallWaversKept
<1> QED
  BY <1>7, <1>8 DEF CallInv

(* Nothing about a flag, nothing about a turn happens to a queue.          *)
NoFlag(q, r) ==
    /\ \A m : LastFlag(q, m) => LastFlag(r, m)
    /\ Has(r, {"media"}) => Has(q, {"media"})
NoTurn(q, r) ==
    /\ \A S : FreshTurns(q, S) => FreshTurns(r, S)
    /\ Has(r, Turns) => Has(q, Turns)

LEMMA QuietSame ==
    ASSUME NEW q
    PROVE  NoFlag(q, q) /\ NoTurn(q, q)
BY DEF NoFlag, NoTurn

LEMMA QuietAppended ==
    ASSUME NEW S, NEW q \in Seq(S), NEW e
    PROVE  /\ e.type # "media" => NoFlag(q, Append(q, e))
           /\ e.type \notin Turns => NoTurn(q, Append(q, e))
<1>1. e.type # "media" => NoFlag(q, Append(q, e))
  BY FlagAppended, HasAppended DEF NoFlag
<1>2. e.type \notin Turns => NoTurn(q, Append(q, e))
  BY TurnsAppended, HasAppended DEF NoTurn
<1> QED
  BY <1>1, <1>2

LEMMA QuietTaken ==
    ASSUME NEW S, NEW q \in Seq(S), q # <<>>
    PROVE  /\ Head(q).type # "media" => NoFlag(q, Tail(q))
           /\ NoTurn(q, Tail(q))
<1>1. Head(q).type # "media" => NoFlag(q, Tail(q))
  BY FlagTaken, HasTaken DEF NoFlag
<1>2. NoTurn(q, Tail(q))
  BY TurnsTaken, HasTaken DEF NoTurn
<1> QED
  BY <1>1, <1>2

LEMMA FlagQuiet ==
    ASSUME NEW d \in Client, FlagArrives(d), seated'[Peer(d)] => seated[Peer(d)],
           call'[Peer(d)].conn = "connected" => call[Peer(d)].conn = "connected",
           muted'[Peer(d)] = muted[Peer(d)], badge'[d] = badge[d], d \in unseen => d \in unseen',
           NoFlag(up[Peer(d)], up'[Peer(d)]), NoFlag(down[d], down'[d])
    PROVE  FlagArrives(d)'
BY DEF FlagArrives, NoFlag

LEMMA FreshQuiet ==
    ASSUME NEW d \in Client, FreshAfterTurn(d), seated'[Peer(d)] => seated[Peer(d)],
           NoTurn(down[d], down'[d]), HeldBy(Peer(d))' \subseteq HeldBy(Peer(d)),
           Known(d)' \subseteq Known(d) \cup {NoSdp}
    PROVE  FreshAfterTurn(d)'
<1> SUFFICES ASSUME seated'[Peer(d)], Has(down'[d], Turns)
             PROVE  /\ HeldBy(Peer(d))' \cap Known(d)' = {}
                    /\ FreshTurns(down'[d], HeldBy(Peer(d))')
  BY DEF FreshAfterTurn
<1>1. HeldBy(Peer(d)) \cap Known(d) = {} /\ FreshTurns(down'[d], HeldBy(Peer(d)))
  BY DEF FreshAfterTurn, NoTurn
<1>2. NoSdp \notin HeldBy(Peer(d))'
  BY DEF HeldBy
<1> QED
  BY <1>1, <1>2, FreshShrinks

LEMMA TurnsQuiet ==
    ASSUME NEW d \in Client, TurnsBeforeConnected(d), seated'[Peer(d)] => seated[Peer(d)],
           call'[Peer(d)].conn = "connected" => call[Peer(d)].conn = "connected",
           NoTurn(down[d], down'[d])
    PROVE  TurnsBeforeConnected(d)'
BY DEF TurnsBeforeConnected, NoTurn

(* Of a peer without a seat nothing is said.                               *)
LEMMA Unseated ==
    ASSUME NEW d \in Client, ~seated'[Peer(d)]
    PROVE  FreshAfterTurn(d)' /\ TurnsBeforeConnected(d)' /\ FlagArrives(d)'
BY DEF FreshAfterTurn, TurnsBeforeConnected, FlagArrives

(* Nor of one without a call.                                              *)
LEMMA Uncalled ==
    ASSUME NEW d \in Client, call'[Peer(d)] = NoCall
    PROVE  FreshAfterTurn(d)' /\ TurnsBeforeConnected(d)' /\ FlagArrives(d)'
<1>1. HeldBy(Peer(d))' = {}
  BY NoCallFacts DEF HeldBy
<1>2. FreshAfterTurn(d)'
  BY <1>1 DEF FreshAfterTurn, FreshTurns
<1> QED
  BY <1>2, NoCallFacts DEF TurnsBeforeConnected, FlagArrives

LEMMA OwnedHears ==
    ASSUME NEW d \in Client, Owned(d), made' = made, call'[d] = call[d], pending'[d] = pending[d],
           up'[d] = up[d] \/ up'[d] = <<>> \/ (up[d] # <<>> /\ up'[d] = Tail(up[d])),
           NEW e \in DownEvent, e.type \in Signals => e.sdp \in Ours(Peer(d)),
           \/ down'[d] = down[d] \/ down'[d] = Append(down[d], e) \/ down'[d] = <<>>
           \/ down[d] # <<>> /\ down'[d] = Tail(down[d])
    PROVE  Owned(d)'
<1>1. /\ Ours(d)' = Ours(d) /\ Sent(d)' = Sent(d) /\ Heard(d)' = Heard(d) /\ Todo(d)' = Todo(d)
      /\ Ours(Peer(d))' = Ours(Peer(d))
  BY SameMakes, Peers
<1>2. e \in Heard(d) /\ up[d] \in Seq(Sent(d)) /\ down[d] \in Seq(Heard(d))
  BY DEF Heard, Owned
<1>3. <<>> \in Seq(Sent(d)) /\ <<>> \in Seq(Heard(d)) /\ Append(down[d], e) \in Seq(Heard(d))
  BY <1>2
<1>4. up[d] # <<>> => Tail(up[d]) \in Seq(Sent(d))
  BY <1>2
<1>5. down[d] # <<>> => Tail(down[d]) \in Seq(Heard(d))
  BY <1>2
<1>6. up'[d] \in Seq(Sent(d)) /\ down'[d] \in Seq(Heard(d))
  BY <1>2, <1>3, <1>4, <1>5
<1> QED
  BY <1>1, <1>6 DEF Owned

LEMMA AsksHears ==
    ASSUME NEW d \in Client, AsksLast(d), up'[d] = up[d], down[d] \in Seq(DownEvent), link[d],
           NEW e, e.type # "room", down'[d] = Append(down[d], e),
           view'[d].room = view[d].room, hook'[d] = hook[d],
           link'[d] = link[d], seated'[d] = seated[d]
    PROVE  AsksLast(d)'
<1>1. Has(down'[d], {"room"}) <=> Has(down[d], {"room"})
  BY HasAppended
<1>2. Once(down'[d], {"room"})
  BY OnceAppended DEF AsksLast
<1> QED
  BY <1>1, <1>2 DEF AsksLast

LEMMA DeliveredFacts ==
    ASSUME TypesOK, NEW c \in Client, NEW e \in DownEvent
    PROVE  /\ Delivered(c, e) \in [Client -> Seq(DownEvent)]
           /\ Delivered(c, e)[c] = IF link[c] THEN Append(down[c], e) ELSE down[c]
           /\ \A d \in Client : d # c => Delivered(c, e)[d] = down[d]
<1>1. down \in [Client -> Seq(DownEvent)] /\ Append(down[c], e) \in Seq(DownEvent)
  BY DEF TypesOK
<1> QED
  BY <1>1 DEF Delivered

LEMMA ReconnectKept ==
    ASSUME CallInv, NEW c \in Client, Reconnect(c)
    PROVE  CallInv'
<1> DEFINE p == Peer(c)
           e == Note("peer-reconnected")
           ask == Note("presence")
<1>1. /\ ~link[c] /\ seated[c] /\ link' = [link EXCEPT ![c] = TRUE]
      /\ up' = [up EXCEPT ![c] = IF view[c].room THEN @ ELSE Append(@, ask)]
      /\ down' \in {down, Delivered(p, e)}
      /\ UNCHANGED <<joiner, seated, view, hook, found, pending, call, made,
                     muted, badge, unseen, outages, losses, toggles>>
  BY DEF Reconnect, DeliverVolatile, serverVars, hookVars, mediaVars, counts
<1>2. e \in DownEvent /\ e.type = "peer-reconnected" /\ ask \in UpEvent /\ ask.type = "presence"
  BY NoteTyped DEF Asks, Moods
<1> HIDE DEF e, ask
<1>3. p \in Client /\ p # c /\ Peer(p) = c /\ \A d \in Client : d = c \/ d = p
  BY Peers
<1> HIDE DEF p
<1>4. /\ up \in [Client -> Seq(UpEvent)] /\ link \in [Client -> BOOLEAN]
      /\ down \in [Client -> Seq(DownEvent)] /\ ClientInv(c) /\ ClientInv(p)
  BY <1>3 DEF CallInv, TypesOK
<1>5. /\ down' \in [Client -> Seq(DownEvent)] /\ down'[c] = down[c]
      /\ down'[p] = down[p] \/ (link[p] /\ down'[p] = Append(down[p], e))
  <2>1. /\ Delivered(p, e) \in [Client -> Seq(DownEvent)]
        /\ Delivered(p, e)[p] = IF link[p] THEN Append(down[p], e) ELSE down[p]
        /\ Delivered(p, e)[c] = down[c]
    BY <1>2, <1>3, DeliveredFacts DEF CallInv
  <2> QED
    BY <1>1, <1>4, <2>1
<1>6. /\ up'[c] = IF view[c].room THEN up[c] ELSE Append(up[c], ask)
      /\ up'[p] = up[p] /\ link'[c] /\ link'[p] = link[p]
      /\ up[c] \in Seq(UpEvent) /\ down[p] \in Seq(DownEvent)
  BY <1>1, <1>3, <1>4
<1>7. TypesOK'
  <2>1. up' \in [Client -> Seq(UpEvent)] /\ link' \in [Client -> BOOLEAN]
    BY <1>1, <1>2, <1>4
  <2> QED
    BY <1>1, <1>5, <2>1 DEF CallInv, TypesOK
<1>8. Owned(c)' /\ Owned(p)'
  <2>1. ASSUME view[c].room PROVE Owned(c)'
    BY <1>1, <1>3, <1>4, <1>5, <1>6, <2>1, OwnedFrame DEF ClientInv
  <2>2. ASSUME ~view[c].room PROVE Owned(c)'
    BY <1>1, <1>2, <1>3, <1>4, <1>5, <1>6, <2>2, OwnedEmitted DEF ClientInv, Signals
  <2>3. Owned(p)'
    BY <1>1, <1>2, <1>3, <1>4, <1>5, <1>6, OwnedHears DEF ClientInv, Signals
  <2> QED
    BY <2>1, <2>2, <2>3
<1>9. CallFits(c)' /\ CallFits(p)'
  BY <1>1, <1>3, <1>4, FitsFrame DEF ClientInv
<1>10. AsksLast(c)'
  <2>1. down[c] = <<>> /\ (view[c].room \/ up[c] = <<>>)
    BY <1>1, <1>4 DEF ClientInv, AsksLast
  <2>2. CASE view[c].room
    <3>1. ~Has(up[c], Asks)
      BY <1>4, <2>2 DEF ClientInv, AsksLast
    <3>2. ~Has(up[c], {"join", "leave"}) /\ LastOnly(up[c], Asks)
      BY <3>1, HasMore, OnceNone DEF Asks
    <3> QED
      BY <1>1, <1>4, <1>5, <1>6, <2>1, <2>2, <3>1, <3>2, Nothing DEF AsksLast
  <2>3. CASE ~view[c].room
    <3>1. up[c] = <<>> /\ up'[c] = Append(up[c], ask)
      BY <1>6, <2>1, <2>3
    <3>2. ~Has(up[c], Asks) /\ ~Has(up[c], {"join", "leave"})
      BY <3>1, Nothing
    <3>3. LastOnly(up'[c], Asks) /\ ~Has(up'[c], {"join", "leave"})
      <4>1. LastOnly(up'[c], Asks)
        BY <1>6, <3>1, <3>2, LastAppended
      <4>2. ~Has(up'[c], {"join", "leave"})
        BY <1>2, <1>6, <2>3, <3>2, HasAppended
      <4> QED
        BY <4>1, <4>2
    <3> QED
      BY <1>1, <1>4, <1>5, <1>6, <2>1, <2>3, <3>3, Nothing DEF AsksLast
  <2> QED
    BY <2>2, <2>3
<1>11. AsksLast(p)'
  <2>1. CASE down'[p] = down[p]
    BY <1>1, <1>3, <1>4, <1>6, <2>1, AsksFrame DEF ClientInv
  <2>2. CASE link[p] /\ down'[p] = Append(down[p], e)
    BY <1>1, <1>2, <1>3, <1>4, <1>6, <2>2, AsksHears DEF ClientInv
  <2> QED
    BY <1>5, <2>1, <2>2
<1>12. NoTurn(down[p], down'[p]) /\ NoFlag(down[p], down'[p])
  <2>1. e.type # "media" /\ e.type \notin Turns
    BY <1>2 DEF Turns
  <2> QED
    BY <1>5, <1>6, <2>1, QuietSame, QuietAppended
<1>13. NoFlag(up[c], up'[c])
  BY <1>2, <1>6, QuietSame, QuietAppended
<1>14. FreshAfterTurn(c)' /\ TurnsBeforeConnected(c)' /\ FlagArrives(c)'
  BY <1>1, <1>3, <1>4, <1>5, <1>6, FreshFrame, SameCall, TurnsFrame, FlagFrame DEF ClientInv, p
<1>15. FreshAfterTurn(p)'
  BY <1>1, <1>3, <1>4, <1>12, FreshQuiet, SameCall DEF ClientInv
<1>16. TurnsBeforeConnected(p)' /\ FlagArrives(p)'
  BY <1>1, <1>3, <1>4, <1>12, <1>13, TurnsQuiet, FlagQuiet DEF ClientInv
<1>17. ClientInv(c)' /\ ClientInv(p)'
  BY <1>8, <1>9, <1>10, <1>11, <1>14, <1>15, <1>16 DEF ClientInv
<1> QED
  BY <1>3, <1>7, <1>17 DEF CallInv

LEMMA ExpireKept ==
    ASSUME CallInv, NEW c \in Client, Expire(c)
    PROVE  CallInv'
<1> DEFINE p == Peer(c)
           e == Note("peer-left")
<1>1. /\ ~link[c] /\ seated[c] /\ seated' = [seated EXCEPT ![c] = FALSE]
      /\ down' = Delivered(p, e)
      /\ UNCHANGED <<joiner, link, up, view, hook, found, pending, call, made,
                     muted, badge, unseen, outages, losses, toggles>>
  BY DEF Expire, Deliver, hookVars, mediaVars, counts
<1>2. e \in DownEvent /\ e.type = "peer-left"
  BY NoteTyped DEF Turns
<1> HIDE DEF e
<1>3. p \in Client /\ p # c /\ Peer(p) = c /\ \A d \in Client : d = c \/ d = p
  BY Peers
<1> HIDE DEF p
<1>4. /\ seated \in [Client -> BOOLEAN]
      /\ down \in [Client -> Seq(DownEvent)] /\ ClientInv(c) /\ ClientInv(p)
  BY <1>3 DEF CallInv, TypesOK
<1>5. /\ down' \in [Client -> Seq(DownEvent)] /\ down'[c] = down[c]
      /\ down'[p] = down[p] \/ (link[p] /\ down'[p] = Append(down[p], e))
      /\ ~seated'[c] /\ seated'[p] = seated[p]
  BY <1>1, <1>2, <1>3, <1>4, DeliveredFacts, ZenonT(60) DEF CallInv
<1>6. TypesOK'
  BY <1>1, <1>4, <1>5 DEF CallInv, TypesOK
<1>7. Owned(c)' /\ Owned(p)'
  BY <1>1, <1>2, <1>3, <1>4, <1>5, OwnedFrame, OwnedHears DEF ClientInv, Signals
<1>8. CallFits(c)' /\ CallFits(p)'
  BY <1>1, <1>3, <1>4, FitsFrame DEF ClientInv
<1>9. AsksLast(c)'
  <2>1. down[c] = <<>>
    BY <1>1, <1>4 DEF ClientInv, AsksLast
  <2> QED
    BY <1>1, <1>4, <1>5, <2>1, Nothing DEF ClientInv, AsksLast
<1>10. AsksLast(p)'
  <2>1. CASE down'[p] = down[p]
    BY <1>1, <1>3, <1>4, <1>5, <2>1, AsksFrame DEF ClientInv
  <2>2. CASE link[p] /\ down'[p] = Append(down[p], e)
    BY <1>1, <1>2, <1>3, <1>4, <1>5, <2>2, AsksHears DEF ClientInv
  <2> QED
    BY <1>5, <2>1, <2>2
<1>11. FreshAfterTurn(c)' /\ TurnsBeforeConnected(c)' /\ FlagArrives(c)'
  BY <1>1, <1>3, <1>4, <1>5, FreshFrame, SameCall, TurnsFrame, FlagFrame DEF ClientInv, p
<1>12. FreshAfterTurn(p)' /\ TurnsBeforeConnected(p)' /\ FlagArrives(p)'
  BY <1>3, <1>5, Unseated
<1>13. ClientInv(c)' /\ ClientInv(p)'
  BY <1>7, <1>8, <1>9, <1>10, <1>11, <1>12 DEF ClientInv
<1> QED
  BY <1>3, <1>6, <1>13 DEF CallInv

(* The server takes an event of c's.                                       *)
Serving(c) ==
    /\ link[c] /\ up[c] # <<>>
    /\ up' = [up EXCEPT ![c] = Tail(@)]
    /\ UNCHANGED <<joiner, link, view, hook, found, pending, call, made, muted, badge,
                   outages, losses, toggles>>

LEMMA ServingFacts ==
    ASSUME CallInv, NEW c \in Client, Serving(c)
    PROVE  /\ up' \in [Client -> Seq(UpEvent)] /\ up[c] \in Seq(UpEvent)
           /\ up'[c] = Tail(up[c]) /\ up'[Peer(c)] = up[Peer(c)]
           /\ Head(up[c]) \in UpEvent /\ Head(up[c]) \in Sent(c)
<1>1. up \in [Client -> Seq(UpEvent)] /\ up[c] \in Seq(Sent(c)) /\ up[c] # <<>>
  BY DEF CallInv, TypesOK, ClientInv, Owned, Serving
<1>2. Tail(up[c]) \in Seq(UpEvent) /\ Head(up[c]) \in Sent(c)
  BY <1>1
<1>3. up' = [up EXCEPT ![c] = Tail(up[c])]
  BY DEF Serving
<1> QED
  BY <1>1, <1>2, <1>3, Peers DEF Sent

LEMMA AsksServed ==
    ASSUME CallInv, NEW c \in Client, Serving(c), Head(up[c]).type \notin Asks,
           down'[c] = down[c], seated'[c] = seated[c]
    PROVE  AsksLast(c)'
<1>1. AsksLast(c) /\ up[c] \in Seq(UpEvent) /\ up[c] # <<>> /\ up'[c] = Tail(up[c]) /\ link[c]
  BY ServingFacts DEF CallInv, ClientInv, Serving
<1>2. /\ LastOnly(up'[c], Asks)
      /\ \A K : Has(up'[c], K) => Has(up[c], K)
  BY <1>1, HasTaken DEF AsksLast
<1> QED
  BY <1>1, <1>2 DEF AsksLast, Serving

LEMMA AskServed ==
    ASSUME CallInv, NEW c \in Client, Serving(c), Head(up[c]).type \in Asks
    PROVE  /\ up'[c] = <<>> /\ ~view[c].room /\ ~Has(down[c], {"room"})
           /\ Head(up[c]).type \in {"join", "leave"} => call[c] = NoCall
           /\ Head(up[c]).type = "presence" => seated[c]
<1>1. AsksLast(c) /\ up[c] \in Seq(UpEvent) /\ up[c] # <<>> /\ up'[c] = Tail(up[c]) /\ link[c]
  BY ServingFacts DEF CallInv, ClientInv, Serving
<1>2. up'[c] = <<>> /\ Has(up[c], Asks)
  BY <1>1, HasTaken DEF AsksLast
<1>3. Head(up[c]).type \in {"join", "leave"} => Has(up[c], {"join", "leave"})
  BY <1>1, HasTaken
<1>4. Head(up[c]).type = "presence" => Has(up[c], {"presence"})
  BY <1>1, HasTaken
<1> QED
  BY <1>1, <1>2, <1>3, <1>4, NoRoomNoCall DEF AsksLast

(* The others hear an event, or are not told.                              *)
LEMMA PeerHears ==
    ASSUME CallInv, NEW c \in Client, Serving(c), NEW e \in DownEvent, e.type # "room",
           e.type \in Signals => e.sdp \in Ours(c),
           \/ down'[Peer(c)] = down[Peer(c)]
           \/ link[Peer(c)] /\ down'[Peer(c)] = Append(down[Peer(c)], e),
           seated'[Peer(c)] = seated[Peer(c)]
    PROVE  Owned(Peer(c))' /\ CallFits(Peer(c))' /\ AsksLast(Peer(c))'
<1> DEFINE p == Peer(c)
<1>1. /\ p \in Client /\ p # c /\ Peer(p) = c /\ up'[p] = up[p]
      /\ ClientInv(p) /\ down[p] \in Seq(DownEvent)
  BY Peers, ServingFacts DEF CallInv, TypesOK
<1>2. made' = made /\ call' = call /\ pending' = pending /\ view' = view /\ hook' = hook
      /\ link' = link
  BY DEF Serving
<1> HIDE DEF p
<1>3. down'[p] = down[p] \/ (link[p] /\ down'[p] = Append(down[p], e))
  BY DEF p
<1>4. Owned(p)'
  BY <1>1, <1>2, <1>3, OwnedHears DEF ClientInv
<1>5. CallFits(p)'
  BY <1>1, <1>2, FitsFrame DEF ClientInv
<1>6. seated'[p] = seated[p]
  BY DEF p
<1>7. AsksLast(p)'
  <2>1. CASE down'[p] = down[p]
    BY <1>1, <1>2, <1>6, <2>1, AsksFrame DEF ClientInv
  <2>2. CASE link[p] /\ down'[p] = Append(down[p], e)
    BY <1>1, <1>2, <1>6, <2>2, AsksHears DEF ClientInv
  <2> QED
    BY <1>3, <2>1, <2>2
<1> QED
  BY <1>4, <1>5, <1>7 DEF p

(* The sender is told nothing, or the room.                                *)
LEMMA SenderHears ==
    ASSUME CallInv, NEW c \in Client, Serving(c), NEW e \in DownEvent, e.type = "room",
           down'[c] = down[c] \/ down'[c] = Append(down[c], e),
           seated'[Peer(c)] = seated[Peer(c)], c \in unseen => c \in unseen'
    PROVE  /\ Owned(c)' /\ CallFits(c)'
           /\ FreshAfterTurn(c)' /\ TurnsBeforeConnected(c)' /\ FlagArrives(c)'
<1> DEFINE p == Peer(c)
<1>1. /\ p \in Client /\ up'[p] = up[p] /\ up'[c] = Tail(up[c])
      /\ ClientInv(c) /\ down[c] \in Seq(DownEvent)
  BY Peers, ServingFacts DEF CallInv, TypesOK
<1>2. /\ made' = made /\ call' = call /\ pending' = pending /\ view' = view /\ hook' = hook
      /\ muted' = muted /\ badge' = badge /\ up[c] # <<>>
  BY DEF Serving
<1>3. Owned(c)' /\ CallFits(c)'
  BY <1>1, <1>2, OwnedHears, FitsFrame DEF ClientInv, Signals
<1>4. NoTurn(down[c], down'[c]) /\ NoFlag(down[c], down'[c]) /\ NoFlag(up[p], up'[p])
  BY <1>1, QuietSame, QuietAppended DEF Turns
<1>5. FreshAfterTurn(c)'
  BY <1>1, <1>2, <1>4, FreshQuiet, SameCall DEF ClientInv
<1> QED
  BY <1>1, <1>2, <1>3, <1>4, <1>5, TurnsQuiet, FlagQuiet DEF ClientInv

LEMMA RelaySignalKept ==
    ASSUME CallInv, NEW c \in Client, Serving(c), RelaySignal(c, Head(up[c])), unseen' = unseen
    PROVE  CallInv'
<1> DEFINE p == Peer(c)
           e == Head(up[c])
<1>1. /\ e \in UpEvent /\ e \in Sent(c) /\ e.type \in Signals
      /\ down' = down \/ down' = Delivered(p, e)
      /\ seated' = seated
  BY ServingFacts DEF RelaySignal, Deliver, Signals
<1>2. e \in DownEvent /\ e.sdp \in Ours(c) /\ e.type \notin Asks \cup Turns
      /\ e.type \notin {"media", "room"}
  BY <1>1 DEF Sent, UpEvent, DownEvent, MediaEvent, Signals, Asks, Turns
<1>3. /\ up[c] # <<>> /\ up[c] \in Seq(UpEvent) /\ up'[c] = Tail(up[c]) /\ up'[p] = up[p]
      /\ up' \in [Client -> Seq(UpEvent)]
      /\ e.type # "media" => NoFlag(up[c], up'[c])
  BY ServingFacts, QuietTaken DEF Serving
<1>4. AsksLast(c)'
  <2>1. down'[c] = down[c]
    BY <1>1, <1>2, Peers, DeliveredFacts DEF CallInv
  <2> QED
    BY <1>1, <1>2, <2>1, AsksServed
<1> HIDE DEF e
<1>5. p \in Client /\ p # c /\ Peer(p) = c /\ \A d \in Client : d = c \/ d = p
  BY Peers
<1>6. /\ down' \in [Client -> Seq(DownEvent)] /\ down[p] \in Seq(DownEvent) /\ down'[c] = down[c]
      /\ down'[p] = down[p] \/ (link[p] /\ down'[p] = Append(down[p], e))
  <2>1. /\ Delivered(p, e) \in [Client -> Seq(DownEvent)]
        /\ Delivered(p, e)[p] = IF link[p] THEN Append(down[p], e) ELSE down[p]
        /\ Delivered(p, e)[c] = down[c]
    BY <1>2, <1>5, DeliveredFacts DEF CallInv
  <2>2. down \in [Client -> Seq(DownEvent)]
    BY DEF CallInv, TypesOK
  <2> QED
    BY <1>1, <1>5, <2>1, <2>2
<1>7. TypesOK'
  BY <1>1, <1>3, <1>6 DEF CallInv, TypesOK, Serving
<1>8. Owned(p)' /\ CallFits(p)' /\ AsksLast(p)'
  BY <1>1, <1>2, <1>6, PeerHears
<1>9. /\ Owned(c)' /\ CallFits(c)'
      /\ FreshAfterTurn(c)' /\ TurnsBeforeConnected(c)' /\ FlagArrives(c)'
  <2>1. Event("room", NoSdp, NoSdp, "absent") \in DownEvent
        /\ Event("room", NoSdp, NoSdp, "absent").type = "room"
    BY NoSdpIsNone DEF Event, DownEvent, Entered
  <2> QED
    BY <1>1, <1>6, <2>1, SenderHears
<1>10. NoTurn(down[p], down'[p]) /\ NoFlag(down[p], down'[p])
  BY <1>2, <1>6, QuietSame, QuietAppended
<1>11. ClientInv(p) /\ call' = call /\ pending' = pending /\ muted' = muted /\ badge' = badge
  BY <1>5 DEF CallInv, Serving
<1> HIDE DEF p
<1>12. FreshAfterTurn(p)'
  BY <1>1, <1>5, <1>10, <1>11, FreshQuiet, SameCall DEF ClientInv
<1>13. TurnsBeforeConnected(p)' /\ FlagArrives(p)'
  BY <1>1, <1>2, <1>3, <1>5, <1>10, <1>11, TurnsQuiet, FlagQuiet DEF ClientInv
<1>14. ClientInv(c)' /\ ClientInv(p)'
  BY <1>4, <1>8, <1>9, <1>12, <1>13 DEF ClientInv, p
<1> QED
  BY <1>5, <1>7, <1>14 DEF CallInv

LEMMA RelayMediaStateKept ==
    ASSUME CallInv, NEW c \in Client, Serving(c), RelayMediaState(c, Head(up[c]))
    PROVE  CallInv'
<1> DEFINE p == Peer(c)
           e == Head(up[c])
           heard == seated[c] /\ seated[p] /\ link[p]
<1>1. /\ e \in UpEvent /\ e.type = "media"
      /\ down' = IF heard THEN Delivered(p, e) ELSE down
      /\ unseen' = IF heard THEN unseen \ {p} ELSE unseen \cup {p}
      /\ seated' = seated
  BY ServingFacts DEF RelayMediaState, Deliver
<1>2. e \in DownEvent
  BY <1>1 DEF UpEvent, DownEvent, MediaEvent, Signals, Asks
<1>3. /\ up[c] # <<>> /\ up[c] \in Seq(UpEvent) /\ up'[c] = Tail(up[c]) /\ up'[p] = up[p]
      /\ up' \in [Client -> Seq(UpEvent)]
  BY ServingFacts DEF Serving
<1>4. p \in Client /\ p # c /\ Peer(p) = c /\ \A d \in Client : d = c \/ d = p
  BY Peers
<1>5. /\ down' \in [Client -> Seq(DownEvent)] /\ down[p] \in Seq(DownEvent) /\ down'[c] = down[c]
      /\ down'[p] = IF heard THEN Append(down[p], e) ELSE down[p]
  <2>1. /\ Delivered(p, e) \in [Client -> Seq(DownEvent)]
        /\ Delivered(p, e)[p] = IF link[p] THEN Append(down[p], e) ELSE down[p]
        /\ Delivered(p, e)[c] = down[c]
    BY <1>2, <1>4, DeliveredFacts DEF CallInv
  <2>2. down \in [Client -> Seq(DownEvent)]
    BY DEF CallInv, TypesOK
  <2> QED
    BY <1>1, <1>4, <2>1, <2>2
<1>6. AsksLast(c)'
  BY <1>1, <1>5, AsksServed DEF Asks
<1>7. Has(up[c], {"media"}) /\
      \A m : LastFlag(up[c], m) =>
                LastFlag(up'[c], m) \/ (e.muted = m /\ ~Has(up'[c], {"media"}))
  BY <1>1, <1>3, HasTaken, FlagTaken
<1>8. heard => LastFlag(down'[p], e.muted)
  BY <1>1, <1>5, FlagAppended
<1> HIDE DEF e, p
<1>9. TypesOK'
  BY <1>1, <1>3, <1>4, <1>5 DEF CallInv, TypesOK, Serving
<1>10. Owned(p)' /\ CallFits(p)' /\ AsksLast(p)'
  BY <1>1, <1>2, <1>5, PeerHears DEF Signals, p
<1>11. /\ Owned(c)' /\ CallFits(c)'
       /\ FreshAfterTurn(c)' /\ TurnsBeforeConnected(c)' /\ FlagArrives(c)'
  <2>1. Event("room", NoSdp, NoSdp, "absent") \in DownEvent
        /\ Event("room", NoSdp, NoSdp, "absent").type = "room"
    BY NoSdpIsNone DEF Event, DownEvent, Entered
  <2>2. c \in unseen => c \in unseen'
    BY <1>1, <1>4
  <2> QED
    BY <1>1, <1>5, <2>1, <2>2, SenderHears
<1>12. NoTurn(down[p], down'[p])
  BY <1>1, <1>5, QuietSame, QuietAppended DEF Turns
<1>13. ClientInv(p) /\ call' = call /\ pending' = pending /\ muted' = muted /\ badge' = badge
  BY <1>4 DEF CallInv, Serving
<1>14. FreshAfterTurn(p)' /\ TurnsBeforeConnected(p)'
  BY <1>1, <1>4, <1>12, <1>13, FreshQuiet, SameCall, TurnsQuiet DEF ClientInv
<1>15. FlagArrives(p)'
  <2> SUFFICES ASSUME seated[c], call[c].conn = "connected"
               PROVE  FlagArrives(p)'
    BY <1>1, <1>4, <1>13 DEF FlagArrives
  <2>1. LastFlag(up[c], muted[c])
    BY <1>4, <1>7, <1>13 DEF ClientInv, FlagArrives
  <2>2. LastFlag(up'[c], muted[c]) \/ (e.muted = muted[c] /\ ~Has(up'[c], {"media"}))
    BY <1>7, <2>1
  <2>3. ~heard => p \in unseen'
    BY <1>1
  <2> QED
    BY <1>4, <1>8, <1>13, <2>2, <2>3 DEF FlagArrives
<1>16. ClientInv(c)' /\ ClientInv(p)'
  BY <1>6, <1>10, <1>11, <1>14, <1>15 DEF ClientInv
<1> QED
  BY <1>4, <1>9, <1>16 DEF CallInv

LEMMA RoomAnswerTyped ==
    ASSUME NEW d
    PROVE  /\ Event("room", NoSdp, NoSdp, RosterEntry(d)) \in DownEvent
           /\ Event("room", NoSdp, NoSdp, RosterEntry(d)).type = "room"
<1>1. RosterEntry(d) \in Entered
  BY DEF RosterEntry, Entered
<1> QED
  BY <1>1, NoSdpIsNone DEF Event, DownEvent

(* The answer to a request is the only one.                                *)
LEMMA AskAnswered ==
    ASSUME CallInv, NEW c \in Client, Serving(c), Head(up[c]).type \in Asks,
           NEW e \in DownEvent, e.type = "room",
           down'[c] = down[c] \/ (down'[c] = Append(down[c], e) /\ seated'[c])
    PROVE  AsksLast(c)'
<1>1. up'[c] = <<>> /\ ~view[c].room /\ ~Has(down[c], {"room"})
  BY AskServed
<1>2. link'[c] /\ view' = view /\ down[c] \in Seq(DownEvent)
  BY DEF Serving, CallInv, TypesOK
<1>3. Once(down'[c], {"room"})
  <2>1. Once(down[c], {"room"})
    BY <1>1, OnceNone
  <2>2. Once(Append(down[c], e), {"room"})
    BY <1>1, <1>2, <2>1, OnceAppended
  <2> QED
    BY <2>1, <2>2
<1>4. Has(down'[c], {"room"}) => seated'[c]
  BY <1>1
<1> QED
  BY <1>1, <1>2, <1>3, <1>4, Nothing DEF AsksLast

LEMMA HandleJoinKept ==
    ASSUME CallInv, NEW c \in Client, Serving(c), HandleJoin(c, Head(up[c])), unseen' = unseen
    PROVE  CallInv'
<1> DEFINE p == Peer(c)
           e == Note("peer-joined")
           room == Event("room", NoSdp, NoSdp, RosterEntry(p))
<1>1. /\ Head(up[c]).type = "join"
      /\ \/ seated' = seated /\ down' = down
         \/ /\ seated[p] /\ seated' = [seated EXCEPT ![c] = TRUE]
            /\ down' = [Delivered(p, e) EXCEPT ![c] = Append(@, room)]
  BY DEF HandleJoin
<1>2. Head(up[c]).type \in Asks
  BY <1>1 DEF Asks
<1>3. call[c] = NoCall
  BY <1>1, <1>2, AskServed
<1>4. /\ e \in DownEvent /\ e.type = "peer-joined" /\ room \in DownEvent /\ room.type = "room"
  BY NoteTyped, RoomAnswerTyped DEF Turns
<1> HIDE DEF e, room
<1>5. p \in Client /\ p # c /\ Peer(p) = c /\ \A d \in Client : d = c \/ d = p
  BY Peers
<1>6. /\ down' \in [Client -> Seq(DownEvent)]
      /\ down'[c] = down[c] \/ (down'[c] = Append(down[c], room) /\ seated'[c])
      /\ down'[p] = down[p] \/ (link[p] /\ down'[p] = Append(down[p], e))
      /\ seated' \in [Client -> BOOLEAN] /\ seated'[p] = seated[p]
  <2>1. /\ Delivered(p, e) \in [Client -> Seq(DownEvent)]
        /\ Delivered(p, e)[p] = IF link[p] THEN Append(down[p], e) ELSE down[p]
        /\ Delivered(p, e)[c] = down[c]
    BY <1>4, <1>5, DeliveredFacts DEF CallInv
  <2>2. down \in [Client -> Seq(DownEvent)] /\ seated \in [Client -> BOOLEAN]
    BY DEF CallInv, TypesOK
  <2>3. Append(down[c], room) \in Seq(DownEvent)
    BY <1>4, <2>2
  <2>4. CASE seated' = seated /\ down' = down
    BY <2>2, <2>4
  <2>5. CASE seated' = [seated EXCEPT ![c] = TRUE]
             /\ down' = [Delivered(p, e) EXCEPT ![c] = Append(@, room)]
    BY <1>5, <2>1, <2>2, <2>3, <2>5
  <2> QED
    BY <1>1, <2>4, <2>5
<1>7. up' \in [Client -> Seq(UpEvent)]
  BY ServingFacts
<1>8. TypesOK'
  BY <1>6, <1>7 DEF CallInv, TypesOK, Serving
<1>9. AsksLast(c)'
  BY <1>2, <1>4, <1>6, AskAnswered
<1>10. /\ Owned(c)' /\ CallFits(c)'
       /\ FreshAfterTurn(c)' /\ TurnsBeforeConnected(c)' /\ FlagArrives(c)'
  BY <1>4, <1>6, SenderHears
<1>11. Owned(p)' /\ CallFits(p)' /\ AsksLast(p)'
  BY <1>4, <1>6, PeerHears DEF Signals
<1>12. FreshAfterTurn(p)' /\ TurnsBeforeConnected(p)' /\ FlagArrives(p)'
  BY <1>3, <1>5, Uncalled DEF Serving
<1>13. ClientInv(c)' /\ ClientInv(p)'
  BY <1>9, <1>10, <1>11, <1>12 DEF ClientInv
<1> QED
  BY <1>5, <1>8, <1>13 DEF CallInv

LEMMA HandlePresenceKept ==
    ASSUME CallInv, NEW c \in Client, Serving(c), HandlePresence(c, Head(up[c])), unseen' = unseen
    PROVE  CallInv'
<1> DEFINE p == Peer(c)
           room == Event("room", NoSdp, NoSdp, RosterEntry(p))
           e == Note("peer-joined")
<1>1. Head(up[c]).type = "presence" /\ seated' = seated /\ down' = Delivered(c, room)
  BY DEF HandlePresence, Deliver
<1>2. Head(up[c]).type \in Asks
  BY <1>1 DEF Asks
<1>3. seated[c]
  BY <1>1, <1>2, AskServed
<1>4. e \in DownEvent /\ e.type = "peer-joined" /\ room \in DownEvent /\ room.type = "room"
  BY NoteTyped, RoomAnswerTyped DEF Turns
<1> HIDE DEF e, room
<1>5. p \in Client /\ p # c /\ Peer(p) = c /\ \A d \in Client : d = c \/ d = p
  BY Peers
<1>6. /\ down' \in [Client -> Seq(DownEvent)] /\ down'[p] = down[p]
      /\ down'[c] = down[c] \/ (down'[c] = Append(down[c], room) /\ seated'[c])
  <2>1. /\ Delivered(c, room) \in [Client -> Seq(DownEvent)]
        /\ Delivered(c, room)[c] = IF link[c] THEN Append(down[c], room) ELSE down[c]
        /\ Delivered(c, room)[p] = down[p]
    BY <1>4, <1>5, DeliveredFacts DEF CallInv
  <2> QED
    BY <1>1, <1>3, <2>1
<1>7. up' \in [Client -> Seq(UpEvent)] /\ up'[p] = up[p] /\ up'[c] = Tail(up[c])
      /\ up[c] # <<>> /\ up[c] \in Seq(UpEvent)
  BY ServingFacts DEF Serving
<1>8. TypesOK'
  BY <1>1, <1>6, <1>7 DEF CallInv, TypesOK, Serving
<1>9. AsksLast(c)'
  BY <1>2, <1>4, <1>6, AskAnswered
<1>10. /\ Owned(c)' /\ CallFits(c)'
       /\ FreshAfterTurn(c)' /\ TurnsBeforeConnected(c)' /\ FlagArrives(c)'
  BY <1>1, <1>4, <1>6, SenderHears
<1>11. Owned(p)' /\ CallFits(p)' /\ AsksLast(p)'
  BY <1>1, <1>4, <1>6, PeerHears DEF Signals
<1>12. ClientInv(p) /\ call' = call /\ pending' = pending /\ muted' = muted /\ badge' = badge
  BY <1>5 DEF CallInv, Serving
<1>13. NoTurn(down[p], down'[p]) /\ NoFlag(down[p], down'[p]) /\ NoFlag(up[c], up'[c])
  BY <1>1, <1>6, <1>7, QuietSame, QuietTaken
<1> HIDE DEF p
<1>14. FreshAfterTurn(p)' /\ TurnsBeforeConnected(p)' /\ FlagArrives(p)'
  BY <1>1, <1>5, <1>12, <1>13, FreshQuiet, SameCall, TurnsQuiet, FlagQuiet DEF ClientInv
<1>15. ClientInv(c)' /\ ClientInv(p)'
  BY <1>9, <1>10, <1>11, <1>14 DEF ClientInv, p
<1> QED
  BY <1>5, <1>8, <1>15 DEF CallInv

LEMMA HandleLeaveKept ==
    ASSUME CallInv, NEW c \in Client, Serving(c), HandleLeave(c, Head(up[c])), unseen' = unseen
    PROVE  CallInv'
<1> DEFINE p == Peer(c)
           e == Note("peer-left")
           room == Event("room", NoSdp, NoSdp, RosterEntry(p))
<1>1. /\ Head(up[c]).type = "leave" /\ seated' = [seated EXCEPT ![c] = FALSE]
      /\ down' = Delivered(p, e)
  BY DEF HandleLeave, Deliver
<1>2. Head(up[c]).type \in Asks
  BY <1>1 DEF Asks
<1>3. /\ e \in DownEvent /\ e.type = "peer-left" /\ room \in DownEvent /\ room.type = "room"
  BY NoteTyped, RoomAnswerTyped DEF Turns
<1> HIDE DEF e, room
<1>4. p \in Client /\ p # c /\ Peer(p) = c /\ \A d \in Client : d = c \/ d = p
  BY Peers
<1>5. /\ down' \in [Client -> Seq(DownEvent)] /\ down'[c] = down[c]
      /\ down'[p] = down[p] \/ (link[p] /\ down'[p] = Append(down[p], e))
  BY <1>1, <1>3, <1>4, DeliveredFacts DEF CallInv
<1>6. seated' \in [Client -> BOOLEAN] /\ seated'[p] = seated[p] /\ ~seated'[c]
  BY <1>1, <1>4 DEF CallInv, TypesOK
<1>7. up' \in [Client -> Seq(UpEvent)]
  BY ServingFacts
<1>8. TypesOK'
  BY <1>5, <1>6, <1>7 DEF CallInv, TypesOK, Serving
<1>9. AsksLast(c)'
  BY <1>2, <1>3, <1>5, AskAnswered
<1>10. /\ Owned(c)' /\ CallFits(c)'
       /\ FreshAfterTurn(c)' /\ TurnsBeforeConnected(c)' /\ FlagArrives(c)'
  BY <1>3, <1>5, <1>6, SenderHears
<1>11. Owned(p)' /\ CallFits(p)' /\ AsksLast(p)'
  BY <1>3, <1>5, <1>6, PeerHears DEF Signals
<1>12. FreshAfterTurn(p)' /\ TurnsBeforeConnected(p)' /\ FlagArrives(p)'
  BY <1>4, <1>6, Unseated
<1>13. ClientInv(c)' /\ ClientInv(p)'
  BY <1>9, <1>10, <1>11, <1>12 DEF ClientInv
<1> QED
  BY <1>4, <1>8, <1>13 DEF CallInv

LEMMA ServeKept ==
    ASSUME CallInv, NEW c \in Client, Serve(c)
    PROVE  CallInv'
<1>1. Serving(c)
  BY DEF Serve, Serving, hookVars, counts
<1>2. \/ RelayMediaState(c, Head(up[c]))
      \/ RelaySignal(c, Head(up[c])) /\ unseen' = unseen
      \/ HandleJoin(c, Head(up[c])) /\ unseen' = unseen
      \/ HandlePresence(c, Head(up[c])) /\ unseen' = unseen
      \/ HandleLeave(c, Head(up[c])) /\ unseen' = unseen
  BY DEF Serve
<1> QED
  BY <1>1, <1>2, RelayMediaStateKept, RelaySignalKept, HandleJoinKept, HandlePresenceKept,
     HandleLeaveKept

(* A connection is lost with what it carries.                              *)
LEMMA LostFacts ==
    ASSUME CallInv, NEW c \in Client, Lost(c)
    PROVE  /\ link' \in [Client -> BOOLEAN] /\ up' \in [Client -> Seq(UpEvent)]
           /\ down' \in [Client -> Seq(DownEvent)]
           /\ ~link'[c] /\ up'[c] = <<>> /\ down'[c] = <<>>
           /\ link'[Peer(c)] = link[Peer(c)] /\ up'[Peer(c)] = up[Peer(c)]
           /\ \/ down'[Peer(c)] = down[Peer(c)]
              \/ /\ link[Peer(c)]
                 /\ down'[Peer(c)] = Append(down[Peer(c)], Note("peer-disconnected"))
<1> DEFINE p == Peer(c)
           e == Note("peer-disconnected")
<1>1. e \in DownEvent
  BY NoteTyped DEF Moods
<1> HIDE DEF e
<1>2. p \in Client /\ p # c
  BY Peers
<1>3. /\ Delivered(p, e) \in [Client -> Seq(DownEvent)]
      /\ Delivered(p, e)[p] = IF link[p] THEN Append(down[p], e) ELSE down[p]
  BY <1>1, <1>2, DeliveredFacts DEF CallInv
<1>4. /\ down \in [Client -> Seq(DownEvent)] /\ up \in [Client -> Seq(UpEvent)]
      /\ link \in [Client -> BOOLEAN]
  BY DEF CallInv, TypesOK
<1>5. /\ link' = [link EXCEPT ![c] = FALSE] /\ up' = [up EXCEPT ![c] = <<>>]
      /\ \E told \in {down, Delivered(p, e)} : down' = [told EXCEPT ![c] = <<>>]
  BY DEF Lost, e
<1>6. PICK told \in {down, Delivered(p, e)} : down' = [told EXCEPT ![c] = <<>>]
  BY <1>5
<1>7. <<>> \in Seq(UpEvent) /\ <<>> \in Seq(DownEvent)
  OBVIOUS
<1>8. told \in [Client -> Seq(DownEvent)]
      /\ (told[p] = down[p] \/ (link[p] /\ told[p] = Append(down[p], e)))
  BY <1>3, <1>4
<1>9. /\ down' \in [Client -> Seq(DownEvent)] /\ down'[c] = <<>> /\ down'[p] = told[p]
  BY <1>2, <1>6, <1>7, <1>8
<1> QED
  BY <1>2, <1>4, <1>5, <1>7, <1>8, <1>9 DEF e

(* What is left of a client without a connection and of what it has heard. *)
LEMMA LostKept ==
    ASSUME CallInv, NEW c \in Client, Lost(c), UNCHANGED <<seated, made, muted[Peer(c)]>>,
           call'[Peer(c)] = call[Peer(c)], pending'[Peer(c)] = pending[Peer(c)],
           view'[Peer(c)] = view[Peer(c)], hook'[Peer(c)] = hook[Peer(c)]
    PROVE  /\ AsksLast(c)' /\ FreshAfterTurn(c)' /\ TurnsBeforeConnected(c)'
           /\ Owned(Peer(c))' /\ CallFits(Peer(c))' /\ AsksLast(Peer(c))'
<1> DEFINE p == Peer(c)
           e == Note("peer-disconnected")
<1>1. e \in DownEvent /\ e.type = "peer-disconnected"
  BY NoteTyped DEF Moods
<1>2. /\ ~link'[c] /\ up'[c] = <<>> /\ down'[c] = <<>>
      /\ link'[p] = link[p] /\ up'[p] = up[p]
      /\ down'[p] = down[p] \/ (link[p] /\ down'[p] = Append(down[p], e))
  BY LostFacts
<1>3. p \in Client /\ p # c /\ Peer(p) = c /\ ClientInv(p) /\ down[p] \in Seq(DownEvent)
  BY Peers DEF CallInv, TypesOK
<1>4. AsksLast(c)'
  BY <1>2, Nothing DEF AsksLast
<1>5. FreshAfterTurn(c)' /\ TurnsBeforeConnected(c)'
  BY <1>2, Nothing DEF FreshAfterTurn, TurnsBeforeConnected
<1>6. call'[p] = call[p] /\ pending'[p] = pending[p] /\ view'[p] = view[p] /\ hook'[p] = hook[p]
  OBVIOUS
<1> HIDE DEF p, e
<1>7. Owned(p)'
  BY <1>1, <1>2, <1>3, <1>6, OwnedHears DEF ClientInv, Signals
<1>8. CallFits(p)'
  BY <1>3, <1>6, FitsFrame DEF ClientInv
<1>9. AsksLast(p)'
  <2>1. CASE down'[p] = down[p]
    BY <1>2, <1>3, <1>6, <2>1, AsksFrame DEF ClientInv
  <2>2. CASE link[p] /\ down'[p] = Append(down[p], e)
    BY <1>1, <1>2, <1>3, <1>6, <2>2, AsksHears DEF ClientInv
  <2> QED
    BY <1>2, <2>1, <2>2
<1> QED
  BY <1>4, <1>5, <1>7, <1>8, <1>9 DEF p

LEMMA DropKept ==
    ASSUME CallInv, NEW c \in Client, Drop(c)
    PROVE  CallInv'
<1> DEFINE p == Peer(c)
           e == Note("peer-disconnected")
<1>1. /\ Lost(c) /\ outages < MaxOutages /\ outages' = outages + 1
      /\ unseen' = unseen \cup MediaStateLost(c)
      /\ UNCHANGED <<joiner, seated, view, hook, found, pending, call, made, muted, badge,
                     losses, toggles>>
  BY DEF Drop, Outage, serverVars, hookVars
<1>2. /\ link' \in [Client -> BOOLEAN] /\ up' \in [Client -> Seq(UpEvent)]
      /\ down' \in [Client -> Seq(DownEvent)]
      /\ ~link'[c] /\ up'[c] = <<>> /\ down'[c] = <<>>
      /\ link'[p] = link[p] /\ up'[p] = up[p]
      /\ down'[p] = down[p] \/ (link[p] /\ down'[p] = Append(down[p], e))
  BY <1>1, LostFacts
<1>3. e.type = "peer-disconnected"
  BY NoteTyped DEF Moods
<1>4. /\ p \in Client /\ p # c /\ Peer(p) = c /\ (\A d \in Client : d = c \/ d = p)
      /\ ClientInv(c) /\ ClientInv(p)
      /\ down[p] \in Seq(DownEvent) /\ down[c] \in Seq(DownEvent) /\ up[c] \in Seq(UpEvent)
  BY Peers DEF CallInv, TypesOK
<1>5. /\ Has(down[c], {"media"}) => c \in unseen'
      /\ Has(up[c], {"media"}) => p \in unseen'
      /\ unseen \subseteq unseen' /\ unseen' \subseteq Client
  <2>1. Carries(down[c]) <=> Has(down[c], {"media"})
    BY <1>4, FlagCarried
  <2>2. Carries(up[c]) <=> Has(up[c], {"media"})
    BY <1>4, FlagCarried
  <2>3. unseen \subseteq Client
    BY DEF CallInv, TypesOK
  <2> QED
    BY <1>1, <1>4, <2>1, <2>2, <2>3 DEF MediaStateLost
<1> HIDE DEF e
<1>6. outages' \in 0..MaxOutages
  BY <1>1, BoundsAssumption DEF CallInv, TypesOK
<1>7. TypesOK'
  BY <1>1, <1>2, <1>5, <1>6 DEF CallInv, TypesOK
<1>8. /\ AsksLast(c)' /\ FreshAfterTurn(c)' /\ TurnsBeforeConnected(c)'
      /\ Owned(p)' /\ CallFits(p)' /\ AsksLast(p)'
  BY <1>1, LostKept
<1>9. Owned(c)' /\ CallFits(c)'
  <2>1. Note("peer-left") \in DownEvent /\ Note("peer-left").type = "peer-left"
    BY NoteTyped DEF Turns
  <2> QED
    BY <1>1, <1>2, <1>4, <2>1, OwnedHears, FitsFrame DEF ClientInv, Signals
<1> HIDE DEF p
<1>10. NoTurn(down[p], down'[p]) /\ NoFlag(down[p], down'[p])
  <2>1. e.type # "media" /\ e.type \notin Turns
    BY <1>3 DEF Turns
  <2>2. CASE down'[p] = down[p]
    BY <2>2, QuietSame
  <2>3. CASE down'[p] = Append(down[p], e)
    BY <1>4, <2>1, <2>3, QuietAppended
  <2> QED
    BY <1>2, <2>2, <2>3
<1>11. FreshAfterTurn(p)' /\ TurnsBeforeConnected(p)'
  BY <1>1, <1>4, <1>10, FreshQuiet, SameCall, TurnsQuiet DEF ClientInv
<1>12. FlagArrives(p)'
  <2> SUFFICES ASSUME seated[c], call[c].conn = "connected"
               PROVE  FlagArrives(p)'
    BY <1>1, <1>4 DEF FlagArrives
  <2>1. \A m : LastFlag(up[c], m) => Has(up[c], {"media"})
    BY <1>4, FlagCarried
  <2>2. ~Has(up'[c], {"media"})
    BY <1>2, Nothing
  <2>3. \/ p \in unseen' \/ LastFlag(down[p], muted[c])
        \/ ~Has(down[p], {"media"}) /\ badge[p] = muted[c]
    BY <1>4, <1>5, <2>1 DEF ClientInv, FlagArrives
  <2> QED
    BY <1>1, <1>4, <1>10, <2>2, <2>3 DEF FlagArrives, NoFlag
<1>13. FlagArrives(c)'
  <2>1. \A m : LastFlag(down[c], m) => Has(down[c], {"media"})
    BY <1>4, FlagCarried
  <2>2. ~Has(down'[c], {"media"})
    BY <1>2, Nothing
  <2> QED
    BY <1>1, <1>2, <1>4, <1>5, <2>1, <2>2 DEF ClientInv, FlagArrives, p
<1>14. ClientInv(c)' /\ ClientInv(p)'
  BY <1>8, <1>9, <1>11, <1>12, <1>13 DEF ClientInv
<1> QED
  BY <1>4, <1>7, <1>14 DEF CallInv

(* A client without a call and without an offer kept for later.            *)
LEMMA NoCallOwned ==
    ASSUME NEW c \in Client, call'[c] = NoCall, pending'[c] = NoSdp,
           up'[c] \in Seq(Sent(c)'), down'[c] \in Seq(Heard(c)')
    PROVE  Owned(c)' /\ CallFits(c)' /\ Known(c)' = {NoSdp}
<1>1. Owned(c)'
  BY NoCallFacts DEF Owned
<1>2. CallFits(c)'
  BY NoCallFacts DEF CallFits, Open
<1>3. Known(c)' = {NoSdp}
  BY NoCallFacts DEF Known
<1> QED
  BY <1>1, <1>2, <1>3

LEMMA ReloadKept ==
    ASSUME CallInv, NEW c \in Client, Reload(c)
    PROVE  CallInv'
<1> DEFINE p == Peer(c)
<1>1. /\ Lost(c) /\ outages < MaxOutages /\ outages' = outages + 1
      /\ unseen' = unseen \cup {c} \cup MediaStateLost(c)
      /\ view' = [view EXCEPT ![c] = NoView]
      /\ hook' = [hook EXCEPT ![c] = "acquiring"]
      /\ found' = [found EXCEPT ![c] = "nobody"]
      /\ pending' = [pending EXCEPT ![c] = NoSdp]
      /\ call' = [call EXCEPT ![c] = NoCall]
      /\ muted' = [muted EXCEPT ![c] = FALSE]
      /\ badge' = [badge EXCEPT ![c] = FALSE]
      /\ UNCHANGED <<joiner, seated, made, losses, toggles>>
  BY DEF Reload, Outage, serverVars
<1>2. /\ link' \in [Client -> BOOLEAN] /\ up' \in [Client -> Seq(UpEvent)]
      /\ down' \in [Client -> Seq(DownEvent)]
      /\ up'[c] = <<>> /\ down'[c] = <<>> /\ up'[p] = up[p]
  BY <1>1, LostFacts
<1>3. /\ p \in Client /\ p # c /\ Peer(p) = c /\ (\A d \in Client : d = c \/ d = p)
      /\ ClientInv(c) /\ ClientInv(p)
  BY Peers DEF CallInv
<1>4. /\ unseen' \subseteq Client /\ c \in unseen'
  BY <1>1, <1>3 DEF MediaStateLost, CallInv, TypesOK
<1>5. outages' \in 0..MaxOutages
  BY <1>1, BoundsAssumption DEF CallInv, TypesOK
<1>6. TypesOK'
  <2>1. view' \in [Client -> [room : BOOLEAN, peer : Entered, self : BOOLEAN]]
    BY <1>1 DEF CallInv, TypesOK, NoView, Entered
  <2>2. /\ hook' \in [Client -> {"away", "acquiring", "ready", "denied"}]
        /\ found' \in [Client -> {"nobody", "peer", "self"}]
        /\ muted' \in [Client -> BOOLEAN] /\ badge' \in [Client -> BOOLEAN]
    BY <1>1 DEF CallInv, TypesOK
  <2>3. pending' \in [Client -> Sdp] /\ call' \in [Client -> CallState]
    BY <1>1, NoSdpIsNone, NoCallFacts DEF CallInv, TypesOK
  <2> QED
    BY <1>1, <1>2, <1>4, <1>5, <2>1, <2>2, <2>3 DEF CallInv, TypesOK
<1>7. /\ call'[c] = NoCall /\ pending'[c] = NoSdp
      /\ call'[p] = call[p] /\ pending'[p] = pending[p]
      /\ view'[p] = view[p] /\ hook'[p] = hook[p] /\ muted'[p] = muted[p]
  BY <1>1, <1>3 DEF CallInv, TypesOK
<1>8. /\ AsksLast(c)' /\ FreshAfterTurn(c)' /\ TurnsBeforeConnected(c)'
      /\ Owned(p)' /\ CallFits(p)' /\ AsksLast(p)'
  BY <1>1, <1>7, LostKept
<1>9. Owned(c)' /\ CallFits(c)'
  <2>1. up'[c] \in Seq(Sent(c)') /\ down'[c] \in Seq(Heard(c)')
    BY <1>2
  <2> QED
    BY <1>7, <2>1, NoCallOwned
<1> HIDE DEF p
<1>10. FlagArrives(c)'
  BY <1>1, <1>2, <1>3, <1>4, <1>7 DEF ClientInv, FlagArrives, p
<1>11. FreshAfterTurn(p)' /\ TurnsBeforeConnected(p)' /\ FlagArrives(p)'
  BY <1>3, <1>7, Uncalled
<1>12. ClientInv(c)' /\ ClientInv(p)'
  BY <1>8, <1>9, <1>10, <1>11 DEF ClientInv
<1> QED
  BY <1>3, <1>6, <1>12 DEF CallInv

LEMMA LeaveKept ==
    ASSUME CallInv, NEW c \in Client, Leave(c)
    PROVE  CallInv'
<1> DEFINE p == Peer(c)
           e == Note("leave")
<1>1. /\ outages < MaxOutages /\ outages' = outages + 1 /\ link[c] /\ view[c].room
      /\ up' = [up EXCEPT ![c] = Append(@, e)]
      /\ unseen' = unseen \cup {c}
      /\ view' = [view EXCEPT ![c] = NoView]
      /\ hook' = [hook EXCEPT ![c] = "away"]
      /\ pending' = [pending EXCEPT ![c] = NoSdp]
      /\ call' = [call EXCEPT ![c] = NoCall]
      /\ muted' = [muted EXCEPT ![c] = FALSE]
      /\ badge' = [badge EXCEPT ![c] = FALSE]
      /\ UNCHANGED <<joiner, seated, link, down, found, made, losses, toggles>>
  BY DEF Leave, Outage, Emit, serverVars
<1>2. e \in UpEvent /\ e.type = "leave"
  BY NoteTyped DEF Asks
<1> HIDE DEF e
<1>3. /\ p \in Client /\ p # c /\ Peer(p) = c /\ (\A d \in Client : d = c \/ d = p)
      /\ ClientInv(c) /\ ClientInv(p)
      /\ up \in [Client -> Seq(UpEvent)] /\ up[c] \in Seq(UpEvent)
  BY Peers DEF CallInv, TypesOK
<1>4. outages' \in 0..MaxOutages /\ unseen' \subseteq Client
  BY <1>1, BoundsAssumption DEF CallInv, TypesOK
<1>5. TypesOK'
  <2>1. view' \in [Client -> [room : BOOLEAN, peer : Entered, self : BOOLEAN]]
    BY <1>1 DEF CallInv, TypesOK, NoView, Entered
  <2>2. /\ hook' \in [Client -> {"away", "acquiring", "ready", "denied"}]
        /\ muted' \in [Client -> BOOLEAN] /\ badge' \in [Client -> BOOLEAN]
    BY <1>1 DEF CallInv, TypesOK
  <2>3. pending' \in [Client -> Sdp] /\ call' \in [Client -> CallState]
    BY <1>1, NoSdpIsNone, NoCallFacts DEF CallInv, TypesOK
  <2>4. up' \in [Client -> Seq(UpEvent)]
    BY <1>1, <1>2, <1>3
  <2> QED
    BY <1>1, <1>4, <2>1, <2>2, <2>3, <2>4 DEF CallInv, TypesOK
<1>6. /\ call'[c] = NoCall /\ pending'[c] = NoSdp /\ hook'[c] = "away" /\ ~view'[c].room
      /\ call'[p] = call[p] /\ pending'[p] = pending[p]
      /\ view'[p] = view[p] /\ hook'[p] = hook[p] /\ muted'[p] = muted[p]
      /\ up'[c] = Append(up[c], e) /\ up'[p] = up[p]
  BY <1>1, <1>3 DEF CallInv, TypesOK, NoView
<1>7. Owned(c)' /\ CallFits(c)' /\ Known(c)' = {NoSdp}
  <2>1. Sent(c)' = Sent(c) /\ Heard(c)' = Heard(c)
    BY <1>1, SameMakes
  <2>2. e \in Sent(c)
    BY <1>2 DEF Sent, Signals
  <2>3. up'[c] \in Seq(Sent(c)) /\ down'[c] \in Seq(Heard(c))
    BY <1>1, <1>3, <1>6, <2>2 DEF ClientInv, Owned
  <2> QED
    BY <1>6, <2>1, <2>3, NoCallOwned
<1> HIDE DEF p
<1>8. Owned(p)' /\ CallFits(p)' /\ AsksLast(p)'
  BY <1>1, <1>3, <1>6, OwnedFrame, FitsFrame, AsksFrame DEF ClientInv
<1>9. AsksLast(c)'
  <2>1. ~Has(up[c], Asks) /\ ~Has(down[c], {"room"}) /\ Once(down[c], {"room"})
    BY <1>1, <1>3 DEF ClientInv, AsksLast
  <2>2. ~Has(up[c], {"presence"})
    BY <2>1, HasMore DEF Asks
  <2>3. LastOnly(up'[c], Asks)
    BY <1>3, <1>6, <2>1, LastAppended
  <2>4. ~Has(up'[c], {"presence"})
    BY <1>2, <1>3, <1>6, <2>2, HasAppended
  <2> QED
    BY <1>1, <1>6, <2>1, <2>3, <2>4 DEF AsksLast
<1>10. FreshAfterTurn(c)'
  <2>1. HeldBy(p)' = HeldBy(p)
    BY <1>6, SameCall
  <2> QED
    BY <1>1, <1>3, <1>7, <2>1, FreshQuiet, QuietSame DEF ClientInv, p
<1>11. TurnsBeforeConnected(c)'
  BY <1>1, <1>3, <1>6, TurnsFrame DEF ClientInv, p
<1>12. FlagArrives(c)'
  BY <1>1, <1>3, <1>6 DEF ClientInv, FlagArrives, p
<1>13. FreshAfterTurn(p)' /\ TurnsBeforeConnected(p)' /\ FlagArrives(p)'
  BY <1>3, <1>6, Uncalled
<1>14. ClientInv(c)' /\ ClientInv(p)'
  BY <1>7, <1>8, <1>9, <1>10, <1>11, <1>12, <1>13 DEF ClientInv
<1> QED
  BY <1>3, <1>5, <1>14 DEF CallInv

(* What a client does to its own call, unless it comes to hold more or to  *)
(* be connected, is nothing to the other.                                  *)
LEMMA PeerKept ==
    ASSUME CallInv, NEW c \in Client, UNCHANGED <<seated, link, up, made, muted>>,
           down'[Peer(c)] = down[Peer(c)], call'[Peer(c)] = call[Peer(c)],
           pending'[Peer(c)] = pending[Peer(c)], view'[Peer(c)] = view[Peer(c)],
           hook'[Peer(c)] = hook[Peer(c)], badge'[Peer(c)] = badge[Peer(c)],
           Peer(c) \in unseen => Peer(c) \in unseen',
           HeldBy(c)' \subseteq HeldBy(c),
           call'[c].conn = "connected" => call[c].conn = "connected"
    PROVE  ClientInv(Peer(c))'
<1> DEFINE p == Peer(c)
<1>1. p \in Client /\ Peer(p) = c /\ ClientInv(p)
  BY Peers DEF CallInv
<1>2. /\ down'[p] = down[p] /\ call'[p] = call[p] /\ pending'[p] = pending[p]
      /\ view'[p] = view[p] /\ hook'[p] = hook[p] /\ badge'[p] = badge[p]
      /\ p \in unseen => p \in unseen'
  OBVIOUS
<1> HIDE DEF p
<1>3. Owned(p)' /\ CallFits(p)' /\ AsksLast(p)'
  BY <1>1, <1>2, OwnedFrame, FitsFrame, AsksFrame DEF ClientInv
<1>4. FreshAfterTurn(p)'
  BY <1>1, <1>2, FreshQuiet, QuietSame, SameCall DEF ClientInv
<1>5. TurnsBeforeConnected(p)' /\ FlagArrives(p)'
  BY <1>1, <1>2, TurnsQuiet, FlagQuiet, QuietSame DEF ClientInv
<1> QED
  BY <1>3, <1>4, <1>5 DEF ClientInv, p

LEMMA CreatePeerFacts ==
    ASSUME CallInv, NEW c \in Client, NEW t \in {"peer", "self"}, NEW ops \in Seq(Operation),
           CreatePeer(c, t, ops)
    PROVE  /\ call' \in [Client -> CallState] /\ call'[Peer(c)] = call[Peer(c)]
           /\ IF view[c].room THEN call'[c] = NewCall(t, ops) ELSE call' = call
           /\ HeldBy(c)' \subseteq HeldBy(c)
           /\ call'[c].conn = "connected" => call[c].conn = "connected"
<1>0. PICK r : r = NewCall(t, ops)
  OBVIOUS
<1>1. /\ r = NewCall(t, ops) /\ r \in CallState
      /\ r.offered = NoSdp /\ r.local = NoSdp /\ r.conn = "new"
  BY <1>0, NewCallFacts, NewCallTyped
<1>2. call' = IF view[c].room THEN [call EXCEPT ![c] = r] ELSE call
  BY <1>1 DEF CreatePeer
<1>3. call \in [Client -> CallState] /\ Peer(c) # c /\ Peer(c) \in Client
  BY Peers DEF CallInv, TypesOK
<1>4. CASE ~view[c].room
  BY <1>2, <1>3, <1>4 DEF HeldBy
<1>5. CASE view[c].room
  <2>1. /\ call'[c] = r /\ call'[Peer(c)] = call[Peer(c)] /\ call' \in [Client -> CallState]
    BY <1>1, <1>2, <1>3, <1>5
  <2>2. HeldBy(c)' = {}
    BY <1>1, <2>1 DEF HeldBy
  <2> QED
    BY <1>1, <1>5, <2>1, <2>2
<1> QED
  BY <1>4, <1>5

LEMMA NewCallOwned ==
    ASSUME NEW c \in Client, NEW t \in {"peer", "self"}, NEW ops \in Seq(Operation),
           ops \in Seq(Todo(c)'), t = "self" => ops = <<>>,
           call'[c] = NewCall(t, ops), hook'[c] = "ready", view'[c].room,
           pending'[c] \in Ours(Peer(c))' \cup {NoSdp},
           up'[c] \in Seq(Sent(c)'), down'[c] \in Seq(Heard(c)')
    PROVE  /\ Owned(c)' /\ CallFits(c)'
           /\ Known(c)' = {NoSdp, pending'[c]} \cup {ops[i].sdp : i \in 1..Len(ops)}
<1>0. PICK r : r = NewCall(t, ops)
  OBVIOUS
<1>1. /\ r.target = t /\ r.offered = NoSdp /\ r.local = NoSdp /\ r.remote = NoSdp
      /\ r.conn = "new" /\ r.ops = ops /\ ~r.timer
  BY <1>0, NewCallFacts
<1>2. call'[c] = r
  BY <1>0
<1>3. Owned(c)'
  BY <1>1, <1>2 DEF Owned
<1>4. t = "self" => ops \in Seq(Accepts)
  OBVIOUS
<1>5. CallFits(c)'
  BY <1>1, <1>2, <1>4 DEF CallFits, Open
<1>6. Known(c)' = {NoSdp, pending'[c]} \cup {ops[i].sdp : i \in 1..Len(ops)}
  BY <1>1, <1>2 DEF Known
<1> QED
  BY <1>3, <1>5, <1>6

LEMMA OneOp ==
    ASSUME NEW o \in Operation
    PROVE  /\ <<o>> \in Seq(Operation)
           /\ {<<o>>[i].sdp : i \in 1..Len(<<o>>)} = {o.sdp}
           /\ \A c : o \in Todo(c) => <<o>> \in Seq(Todo(c))
OBVIOUS

LEMMA NoOps ==
    /\ <<>> \in Seq(Operation)
    /\ {<<>>[i].sdp : i \in 1..Len(<<>>)} = {}
    /\ \A c : <<>> \in Seq(Todo(c))
OBVIOUS

LEMMA AnswerOpTyped ==
    ASSUME NEW s \in Sdp
    PROVE  /\ Op("answer", s, NoSdp) \in Operation
           /\ Op("answer", s, NoSdp).sdp = s /\ Op("answer", s, NoSdp).op = "answer"
BY NoSdpIsNone DEF Op, Operation

(* A client that makes a call, or takes one, in a room and with media.     *)
LEMMA CallsIt ==
    ASSUME CallInv, NEW c \in Client,
           NEW t \in {"peer", "self"}, NEW ops \in Seq(Operation), CreatePeer(c, t, ops),
           ops \in Seq(Todo(c)), t = "self" => ops = <<>>,
           hook[c] = "ready" \/ call[c] = NoCall,
           hook'[c] = "ready", view'[c].room = view[c].room, made' = made,
           pending'[c] \in {pending[c], NoSdp},
           up'[c] \in Seq(Sent(c)), down'[c] \in Seq(Heard(c))
    PROVE  /\ Owned(c)' /\ CallFits(c)'
           /\ Known(c)' \subseteq Known(c) \cup {NoSdp} \cup {ops[i].sdp : i \in 1..Len(ops)}
<1>1. /\ Ours(Peer(c))' = Ours(Peer(c)) /\ Ours(c)' = Ours(c)
      /\ Sent(c)' = Sent(c) /\ Heard(c)' = Heard(c) /\ Todo(c)' = Todo(c)
  BY SameMakes, Peers
<1>2. ClientInv(c) /\ pending'[c] \in Ours(Peer(c)) \cup {NoSdp}
  BY DEF CallInv, ClientInv, Owned
<1>3. CASE view[c].room
  <2>1. call'[c] = NewCall(t, ops)
    BY <1>3, CreatePeerFacts
  <2>2. ops \in Seq(Todo(c)') /\ pending'[c] \in Ours(Peer(c))' \cup {NoSdp}
        /\ up'[c] \in Seq(Sent(c)') /\ down'[c] \in Seq(Heard(c)')
    BY <1>1, <1>2
  <2>3. /\ Owned(c)' /\ CallFits(c)'
        /\ Known(c)' = {NoSdp, pending'[c]} \cup {ops[i].sdp : i \in 1..Len(ops)}
    BY <1>3, <2>1, <2>2, NewCallOwned, ZenonT(60)
  <2>4. pending[c] \in Known(c)
    BY DEF Known
  <2> QED
    BY <2>3, <2>4
<1>4. CASE ~view[c].room
  <2>1. call' = call
    BY <1>4, CreatePeerFacts
  <2>2. Owned(c)'
    BY <1>1, <1>2, <2>1 DEF ClientInv, Owned
  <2>3. CallFits(c)'
    BY <1>2, <1>4, <2>1, NoCallFacts DEF ClientInv, CallFits, Open
  <2>4. Known(c)' \subseteq Known(c) \cup {NoSdp}
    BY <2>1 DEF Known
  <2> QED
    BY <2>2, <2>3, <2>4
<1> QED
  BY <1>3, <1>4

LEMMA CallPeerFacts ==
    ASSUME NEW c \in Client, CallPeer(c)
    PROVE  \E ops \in {<<>>, <<Offer>>} : CreatePeer(c, "peer", ops)
BY DEF CallPeer

LEMMA OfferOps ==
    ASSUME NEW ops \in {<<>>, <<Offer>>}, NEW c
    PROVE  /\ ops \in Seq(Operation) /\ ops \in Seq(Todo(c))
           /\ {ops[i].sdp : i \in 1..Len(ops)} \subseteq {NoSdp}
<1>1. Offer \in Operation /\ Offer \in Todo(c) /\ Offer.sdp = NoSdp
  BY OfferTyped DEF Todo
<1>2. CASE ops = <<>>
  BY <1>2, NoOps
<1>3. CASE ops = <<Offer>>
  BY <1>1, <1>3, OneOp
<1> QED
  BY <1>2, <1>3

LEMMA MediaReadyKept ==
    ASSUME CallInv, NEW c \in Client, MediaReady(c)
    PROVE  CallInv'
<1> DEFINE p == Peer(c)
           answer == Op("answer", pending[c], NoSdp)
<1>1. /\ hook[c] = "acquiring" /\ hook' = [hook EXCEPT ![c] = "ready"]
      /\ pending' = [pending EXCEPT ![c] = NoSdp]
      /\ \/ pending[c] # NoSdp /\ CreatePeer(c, "peer", <<answer>>)
         \/ CallPeer(c)
         \/ CreatePeer(c, "self", <<>>)
         \/ call' = call
      /\ UNCHANGED <<joiner, seated, link, up, down, view, found, made, muted, badge, unseen,
                     outages, losses, toggles>>
  BY DEF MediaReady, serverVars, wireVars, mediaVars, counts
<1>2. /\ p \in Client /\ p # c /\ (\A d \in Client : d = c \/ d = p)
      /\ ClientInv(c) /\ call[c] = NoCall /\ pending[c] \in Sdp
      /\ hook'[c] = "ready" /\ hook'[p] = hook[p] /\ pending'[c] = NoSdp /\ pending'[p] = pending[p]
      /\ up'[c] \in Seq(Sent(c)) /\ down'[c] \in Seq(Heard(c))
  BY <1>1, Peers, NoRoomNoCall, ZenonT(60) DEF CallInv, TypesOK, ClientInv, Owned
<1>3. /\ call' \in [Client -> CallState] /\ call'[p] = call[p]
      /\ HeldBy(c)' \subseteq HeldBy(c)
      /\ call'[c].conn = "connected" => call[c].conn = "connected"
      /\ Owned(c)' /\ CallFits(c)' /\ Known(c)' \subseteq Known(c) \cup {NoSdp}
  <2>1. CASE pending[c] # NoSdp /\ CreatePeer(c, "peer", <<answer>>)
    <3>1. /\ answer \in Operation /\ answer.sdp = pending[c] /\ answer.op = "answer"
          /\ pending[c] \in Known(c)
      BY <1>2, AnswerOpTyped DEF Known
    <3>2. answer \in Todo(c)
      BY <1>2, <2>1, <3>1 DEF ClientInv, Owned, Todo
    <3> HIDE DEF answer
    <3>3. /\ <<answer>> \in Seq(Operation) /\ <<answer>> \in Seq(Todo(c))
          /\ {<<answer>>[i].sdp : i \in 1..Len(<<answer>>)} = {pending[c]}
      BY <3>1, <3>2, OneOp
    <3> DEFINE ops == <<answer>>
    <3> HIDE DEF ops
    <3>4. /\ ops \in Seq(Operation) /\ ops \in Seq(Todo(c)) /\ CreatePeer(c, "peer", ops)
          /\ {ops[i].sdp : i \in 1..Len(ops)} = {pending[c]}
      BY <2>1, <3>3 DEF ops
    <3>5. /\ Owned(c)' /\ CallFits(c)'
          /\ Known(c)' \subseteq Known(c) \cup {NoSdp} \cup {ops[i].sdp : i \in 1..Len(ops)}
      BY <1>1, <1>2, <3>4, CallsIt
    <3> QED
      BY <3>1, <3>4, <3>5, CreatePeerFacts
  <2>2. CASE CallPeer(c)
    <3>1. PICK ops \in {<<>>, <<Offer>>} : CreatePeer(c, "peer", ops)
      BY <2>2, CallPeerFacts
    <3>2. /\ ops \in Seq(Operation) /\ ops \in Seq(Todo(c))
          /\ {ops[i].sdp : i \in 1..Len(ops)} \subseteq {NoSdp}
      BY OfferOps
    <3>3. /\ Owned(c)' /\ CallFits(c)'
          /\ Known(c)' \subseteq Known(c) \cup {NoSdp} \cup {ops[i].sdp : i \in 1..Len(ops)}
      BY <1>1, <1>2, <3>1, <3>2, CallsIt
    <3> QED
      BY <3>1, <3>2, <3>3, CreatePeerFacts
  <2>3. CASE CreatePeer(c, "self", <<>>)
    <3>1. /\ Owned(c)' /\ CallFits(c)'
          /\ Known(c)' \subseteq Known(c) \cup {NoSdp} \cup {<<>>[i].sdp : i \in 1..Len(<<>>)}
      BY <1>1, <1>2, <2>3, NoOps, CallsIt
    <3> QED
      BY <2>3, <3>1, NoOps, CreatePeerFacts
  <2>4. CASE call' = call
    <3>1. /\ Sent(c)' = Sent(c) /\ Heard(c)' = Heard(c)
      BY <1>1, SameMakes
    <3>2. call'[c] = NoCall /\ up'[c] \in Seq(Sent(c)') /\ down'[c] \in Seq(Heard(c)')
      BY <1>2, <2>4, <3>1
    <3>3. Owned(c)' /\ CallFits(c)' /\ Known(c)' = {NoSdp}
      BY <1>2, <3>2, NoCallOwned
    <3> QED
      BY <2>4, <3>3 DEF HeldBy, CallInv, TypesOK
  <2> QED
    BY <1>1, <2>1, <2>2, <2>3, <2>4
<1>4. TypesOK'
  BY <1>1, <1>3, NoSdpIsNone DEF CallInv, TypesOK
<1>5. ClientInv(p)'
  BY <1>1, <1>2, <1>3, PeerKept
<1>6. AsksLast(c)'
  BY <1>1, <1>2 DEF ClientInv, AsksLast
<1> HIDE DEF p
<1>7. HeldBy(p)' = HeldBy(p)
  BY <1>3, SameCall
<1>8. FreshAfterTurn(c)'
  BY <1>1, <1>2, <1>3, <1>7, FreshQuiet, QuietSame DEF ClientInv, p
<1>9. TurnsBeforeConnected(c)' /\ FlagArrives(c)'
  BY <1>1, <1>2, <1>3, TurnsFrame, FlagFrame DEF ClientInv, p
<1>10. ClientInv(c)'
  BY <1>3, <1>6, <1>8, <1>9 DEF ClientInv
<1> QED
  BY <1>2, <1>4, <1>5, <1>10 DEF CallInv

(* One operation of c's connection: at most one new SDP, made and sent.    *)
LEMMA OperatedKept ==
    ASSUME CallInv, NEW c \in Client, call[c].ops # <<>>,
           NEW r \in CallState, call' = [call EXCEPT ![c] = r],
           NEW n, n = made[c] + 1, NEW e \in UpEvent, e.type \in Signals, e.sdp = <<c, n>>,
           \/ made' = made /\ up' = up
           \/ made' = [made EXCEPT ![c] = n] /\ up' = [up EXCEPT ![c] = Append(@, e)],
           \A s \in {r.offered, r.local} :
              \/ s \in {NoSdp, call[c].offered, call[c].local}
              \/ s = <<c, n>> /\ made'[c] = n,
           r.remote \in {call[c].remote, Head(call[c].ops).sdp},
           r.ops = Tail(call[c].ops), r.target = call[c].target,
           r.target = "self" => r.remote = NoSdp /\ r.offered = NoSdp,
           r.local = NoSdp <=> r.remote = NoSdp,
           r.conn # "new" => r.remote # NoSdp, r.timer => r.conn = "disconnected",
           r.conn = "connected" => call[c].conn = "connected",
           UNCHANGED <<joiner, seated, link, down, view, hook, found, pending, muted, badge,
                       unseen, outages, losses, toggles>>
    PROVE  CallInv'
<1> DEFINE p == Peer(c)
           ops == call[c].ops
<1>1. /\ p \in Client /\ p # c /\ Peer(p) = c /\ (\A d \in Client : d = c \/ d = p)
      /\ ClientInv(c) /\ ClientInv(p)
  BY Peers DEF CallInv
<1>2. /\ call \in [Client -> CallState] /\ made \in [Client -> Nat]
      /\ up \in [Client -> Seq(UpEvent)] /\ up[c] \in Seq(UpEvent) /\ ops \in Seq(Operation)
      /\ down[p] \in Seq(DownEvent)
  BY <1>1 DEF CallInv, TypesOK, CallState
<1>3. n \in Nat /\ made[c] \in Nat
  BY <1>2
<1>4. /\ call'[c] = r /\ call'[p] = call[p] /\ made'[p] = made[p] /\ up'[p] = up[p]
      /\ \/ made'[c] = made[c] /\ up'[c] = up[c]
         \/ made'[c] = n /\ up'[c] = Append(up[c], e)
  BY <1>1, <1>2
<1>5. TypesOK'
  <2>1. made' \in [Client -> Nat] /\ call' \in [Client -> CallState]
    BY <1>2, <1>3
  <2>2. Append(up[c], e) \in Seq(UpEvent)
    BY <1>2
  <2>3. up' \in [Client -> Seq(UpEvent)]
    BY <1>2, <2>2
  <2> QED
    BY <2>1, <2>3 DEF CallInv, TypesOK
<1>6. Open(c) /\ hook[c] = "ready" /\ view[c].room
  BY <1>1, NoCallFacts DEF ClientInv, CallFits, Open
<1>7. /\ Ours(c) \subseteq Ours(c)' /\ Ours(p)' = Ours(p)
      /\ made'[c] = n => <<c, n>> \in Ours(c)'
      /\ <<c, n>> \notin Ours(c) /\ NoSdp # <<c, n>>
  <2>1. /\ <<c, n>> \in {c} \X (1..n) /\ <<c, n>> \notin {c} \X (1..made[c])
        /\ {c} \X (1..made[c]) \subseteq {c} \X (1..n)
    BY <1>2, <1>3, OursGrow
  <2> QED
    BY <1>4, <2>1, NoSdpIsNone DEF Ours
<1>8. /\ Sent(c) \subseteq Sent(c)' /\ Heard(c)' = Heard(c) /\ Todo(c)' = Todo(c)
      /\ Sent(p)' = Sent(p) /\ Heard(p) \subseteq Heard(p)' /\ Todo(p) \subseteq Todo(p)'
  BY <1>1, <1>7 DEF Sent, Heard, Todo
<1>9. /\ Head(ops) \in Todo(c) /\ Head(ops) \in Operation /\ Tail(ops) \in Seq(Todo(c))
      /\ ops \in Seq(Todo(c))
  <2>1. ops \in Seq(Todo(c)) /\ ops # <<>>
    BY <1>1 DEF ClientInv, Owned
  <2> QED
    BY <1>2, <2>1
<1>10. Owned(c)'
  <2>1. r.offered \in Ours(c)' \cup {NoSdp} /\ r.local \in Ours(c)' \cup {NoSdp}
    BY <1>1, <1>7 DEF ClientInv, Owned
  <2>2. r.remote \in Ours(p)' \cup {NoSdp}
    BY <1>1, <1>7, <1>9 DEF ClientInv, Owned, Todo
  <2>3. up'[c] \in Seq(Sent(c)')
    <3>1. CASE up'[c] = up[c]
      BY <1>1, <1>8, <3>1, SeqWider DEF ClientInv, Owned
    <3>2. CASE made'[c] = n /\ up'[c] = Append(up[c], e)
      <4>1. up[c] \in Seq(Sent(c)')
        BY <1>1, <1>8, SeqWider DEF ClientInv, Owned
      <4>2. e \in Sent(c)'
        BY <1>7, <3>2 DEF Sent
      <4> QED
        BY <3>2, <4>1, <4>2
    <3> QED
      BY <1>4, <3>1, <3>2
  <2> QED
    BY <1>1, <1>4, <1>7, <1>8, <1>9, <2>1, <2>2, <2>3 DEF ClientInv, Owned
<1>11. Owned(p)'
  <2>1. call[p].ops \in Seq(Todo(p)') /\ down[p] \in Seq(Heard(p)')
    BY <1>1, <1>8, SeqWider DEF ClientInv, Owned
  <2> QED
    BY <1>1, <1>4, <1>7, <1>8, <2>1 DEF ClientInv, Owned
<1>12. CallFits(c)'
  <2>1. call[c].target = "self" => Tail(ops) \in Seq(Accepts)
    <3>1. call[c].target = "self" => ops \in Seq(Accepts) /\ ops # <<>>
      BY <1>1 DEF ClientInv, CallFits
    <3> QED
      BY <3>1
  <2> QED
    BY <1>4, <1>6, <2>1, ZenonT(60) DEF CallFits, Open
<1>13. CallFits(p)'
  BY <1>1, <1>4, FitsFrame DEF ClientInv
<1>14. AsksLast(c)'
  <2>1. CASE up'[c] = up[c]
    BY <1>1, <2>1, AsksFrame DEF ClientInv
  <2>2. CASE up'[c] = Append(up[c], e)
    BY <1>1, <1>2, <1>6, <2>2, AsksEmitted DEF ClientInv, Signals, Asks
  <2> QED
    BY <1>4, <2>1, <2>2
<1>15. AsksLast(p)'
  BY <1>1, <1>4, AsksFrame DEF ClientInv
<1>16. Known(c)' \subseteq Known(c)
  <2>1. /\ \A i \in 1..Len(Tail(ops)) : \E j \in 1..Len(ops) : Tail(ops)[i].sdp = ops[j].sdp
        /\ \E j \in 1..Len(ops) : Head(ops).sdp = ops[j].sdp
    BY <1>2, OpsKnow
  <2>2. /\ call[c].remote \in Known(c) /\ pending[c] \in Known(c)
        /\ \A j \in 1..Len(ops) : ops[j].sdp \in Known(c)
    BY DEF Known
  <2>3. /\ Head(ops).sdp \in Known(c)
        /\ \A i \in 1..Len(Tail(ops)) : Tail(ops)[i].sdp \in Known(c)
    BY <2>1, <2>2
  <2>4. call'[c].remote \in Known(c) /\ pending'[c] \in Known(c) /\ call'[c].ops = Tail(ops)
    BY <1>4, <2>2, <2>3
  <2> SUFFICES ASSUME NEW s \in Known(c)'
               PROVE  s \in Known(c)
    OBVIOUS
  <2>5. \/ s \in {call'[c].remote, pending'[c]}
        \/ \E i \in 1..Len(call'[c].ops) : s = call'[c].ops[i].sdp
    BY DEF Known
  <2>6. CASE s \in {call'[c].remote, pending'[c]}
    BY <2>4, <2>6
  <2>7. ASSUME NEW i \in 1..Len(call'[c].ops), s = call'[c].ops[i].sdp
        PROVE  s \in Known(c)
    <3>1. i \in 1..Len(Tail(ops)) /\ s = Tail(ops)[i].sdp
      BY <2>4, <2>7
    <3> QED
      BY <2>3, <3>1
  <2> QED
    BY <2>5, <2>6, <2>7
<1>17. HeldBy(c)' \subseteq HeldBy(c) \cup {<<c, n>>}
  BY <1>4, ZenonT(60) DEF HeldBy
<1>18. <<c, n>> \notin Known(p)
  <2>1. call[p].remote # <<c, n>> /\ pending[p] # <<c, n>>
    BY <1>1, <1>7 DEF ClientInv, Owned
  <2>2. \A i \in 1..Len(call[p].ops) : call[p].ops[i] \in Todo(p)
    BY <1>1 DEF ClientInv, Owned
  <2>3. \A i \in 1..Len(call[p].ops) : call[p].ops[i].sdp # <<c, n>>
    BY <1>1, <1>7, <2>2 DEF Todo
  <2> QED
    BY <2>1, <2>3 DEF Known
<1>19. \A i \in 1..Len(down[p]) : down[p][i].type \in Signals => down[p][i].sdp \notin {<<c, n>>}
  <2>1. \A i \in 1..Len(down[p]) : down[p][i] \in Heard(p)
    BY <1>1 DEF ClientInv, Owned
  <2> QED
    BY <1>1, <1>7, <2>1 DEF Heard
<1> HIDE DEF p, ops
<1>20. FreshAfterTurn(c)'
  <2>1. HeldBy(p)' = HeldBy(p)
    BY <1>4, SameCall
  <2> QED
    BY <1>1, <1>16, <2>1, FreshQuiet, QuietSame DEF ClientInv, p
<1>21. FreshAfterTurn(p)'
  <2> SUFFICES ASSUME seated[c], Has(down[p], Turns)
               PROVE  HeldBy(c)' \cap Known(p)' = {} /\ FreshTurns(down[p], HeldBy(c)')
    BY <1>1 DEF FreshAfterTurn
  <2>1. HeldBy(c) \cap Known(p) = {} /\ FreshTurns(down[p], HeldBy(c))
    BY <1>1 DEF ClientInv, FreshAfterTurn
  <2>2. Known(p)' = Known(p)
    BY <1>4, SameCall
  <2>3. FreshTurns(down[p], HeldBy(c) \cup {<<c, n>>})
    BY <1>19, <2>1, FreshToQueue
  <2> QED
    BY <1>17, <1>18, <2>1, <2>2, <2>3, FreshShrinks
<1>22. TurnsBeforeConnected(c)' /\ FlagArrives(c)'
  BY <1>1, <1>4, TurnsFrame, FlagFrame DEF ClientInv, p
<1>23. TurnsBeforeConnected(p)'
  BY <1>1, <1>4, TurnsQuiet, QuietSame DEF ClientInv
<1>24. FlagArrives(p)'
  <2>1. NoFlag(up[c], up'[c])
    <3>1. e.type # "media"
      BY DEF Signals
    <3>2. NoFlag(up[c], up[c]) /\ NoFlag(up[c], Append(up[c], e))
      BY <1>2, <3>1, QuietSame, QuietAppended
    <3> QED
      BY <1>4, <3>2
  <2> QED
    BY <1>1, <1>4, <2>1, FlagQuiet, QuietSame DEF ClientInv
<1>25. ClientInv(c)' /\ ClientInv(p)'
  BY <1>10, <1>11, <1>12, <1>13, <1>14, <1>15, <1>20, <1>21, <1>22, <1>23, <1>24 DEF ClientInv
<1> QED
  BY <1>1, <1>5, <1>25 DEF CallInv

LEMMA RenewedFacts ==
    ASSUME NEW r \in CallState
    PROVE  /\ Renewed(r) \in CallState /\ Renewed(r).target = r.target
           /\ Renewed(r).offered = r.offered /\ Renewed(r).local = r.local
           /\ Renewed(r).remote = r.remote /\ Renewed(r).ops = r.ops
           /\ Renewed(r).conn \in {r.conn, "new"}
           /\ (r.timer => r.conn = "disconnected") => ~Renewed(r).timer
<1>1. CASE r.conn \in {"disconnected", "failed"}
  BY <1>1 DEF Renewed, CallState
<1>2. CASE r.conn \notin {"disconnected", "failed"}
  BY <1>2 DEF Renewed, CallState
<1> QED
  BY <1>1, <1>2

LEMMA SignalTyped ==
    ASSUME NEW t \in Signals, NEW s \in Sdp, NEW u \in Sdp
    PROVE  /\ Event(t, s, u, "absent") \in UpEvent
           /\ Event(t, s, u, "absent").type = t /\ Event(t, s, u, "absent").sdp = s
BY DEF Event, UpEvent, Signals, Entered

LEMMA OperateKept ==
    ASSUME CallInv, NEW c \in Client, Operate(c)
    PROVE  CallInv'
<1> DEFINE ops == call[c].ops
           h == Head(ops)
           n == made[c] + 1
           q == Tail(ops)
<1>1. /\ ops # <<>> /\ (MakeOffer(c) \/ MakeAnswer(c) \/ AcceptAnswer(c))
      /\ UNCHANGED <<joiner, seated, link, down, view, hook, found, pending, muted, badge,
                     unseen, outages, losses, toggles>>
  BY DEF Operate, serverVars, hookVars, mediaVars, counts
<1>2. /\ call \in [Client -> CallState] /\ call[c] \in CallState /\ made \in [Client -> Nat]
      /\ ClientInv(c) /\ ops \in Seq(Operation) /\ ops \in Seq(Todo(c))
  BY DEF CallInv, TypesOK, CallState, ClientInv, Owned
<1>3. /\ n \in Nat /\ <<c, n>> \in Sdp /\ NoSdp # <<c, n>>
      /\ h \in Operation /\ h \in Todo(c) /\ q \in Seq(Operation)
  BY <1>1, <1>2, OursGrow, NoSdpIsNone
<1>4. call[c].target = "self" =>
         call[c].remote = NoSdp /\ call[c].offered = NoSdp /\ h.op = "accept"
  <2>1. call[c].target = "self" => ops \in Seq(Accepts)
    BY <1>2 DEF ClientInv, CallFits
  <2> QED
    BY <1>1, <1>2, <2>1 DEF ClientInv, CallFits, Accepts
<1>5. h.op # "offer" => h.sdp # NoSdp /\ h.sdp \in Sdp
  BY <1>3, NoSdpIsNone DEF Todo, Operation
<1>6. /\ call[c].local = NoSdp <=> call[c].remote = NoSdp
      /\ call[c].conn # "new" => call[c].remote # NoSdp
      /\ call[c].timer => call[c].conn = "disconnected"
  BY <1>2 DEF ClientInv, CallFits
<1>7. CASE MakeOffer(c)
  <2> DEFINE r == [call[c] EXCEPT !.ops = q, !.offered = <<c, n>>]
             e == Event("offer", <<c, n>>, NoSdp, "absent")
  <2>1. h.op = "offer" /\ made' = [made EXCEPT ![c] = n] /\ made'[c] = n
    BY <1>2, <1>7 DEF MakeOffer
  <2>2. call' = [call EXCEPT ![c] = r] /\ up' = [up EXCEPT ![c] = Append(@, e)]
    BY <1>7, <2>1 DEF MakeOffer, Emit
  <2>3. /\ r \in CallState /\ r.target = call[c].target /\ r.offered = <<c, n>>
        /\ r.local = call[c].local /\ r.remote = call[c].remote /\ r.conn = call[c].conn
        /\ r.ops = q /\ r.timer = call[c].timer
    BY <1>2, <1>3 DEF CallState
  <2>4. e \in UpEvent /\ e.type \in Signals /\ e.sdp = <<c, n>>
    BY <1>3, NoSdpIsNone, SignalTyped, ZenonT(60) DEF Signals
  <2> HIDE DEF r, e
  <2> QED
    BY <1>1, <1>4, <1>6, <2>1, <2>2, <2>3, <2>4, OperatedKept, ZenonT(60)
<1>8. CASE MakeAnswer(c)
  <2> DEFINE s == [call[c] EXCEPT !.ops = q, !.offered = NoSdp, !.remote = h.sdp,
                                  !.local = <<c, n>>]
             r == Renewed(s)
             e == Event("answer", <<c, n>>, h.sdp, "absent")
  <2>1. h.op = "answer" /\ made' = [made EXCEPT ![c] = n] /\ made'[c] = n
    BY <1>2, <1>8 DEF MakeAnswer
  <2>2. call' = [call EXCEPT ![c] = r] /\ up' = [up EXCEPT ![c] = Append(@, e)]
    <3>1. call' = [call EXCEPT ![c] =
              Renewed([call[c] EXCEPT !.ops = q, !.offered = NoSdp, !.remote = h.sdp,
                                      !.local = <<c, made'[c]>>])]
      BY <1>8 DEF MakeAnswer
    <3>2. up' = [up EXCEPT ![c] = Append(up[c], Event("answer", <<c, made'[c]>>, h.sdp, "absent"))]
      BY <1>8 DEF MakeAnswer, Emit
    <3> QED
      BY <2>1, <3>1, <3>2
  <2>3. /\ s \in CallState /\ s.target = call[c].target /\ s.offered = NoSdp
        /\ s.local = <<c, n>> /\ s.remote = h.sdp /\ s.conn = call[c].conn
        /\ s.ops = q /\ s.timer = call[c].timer
    BY <1>2, <1>3, <1>5, <2>1, NoSdpIsNone DEF CallState
  <2>4. e \in UpEvent /\ e.type \in Signals /\ e.sdp = <<c, n>>
    BY <1>3, <1>5, <2>1, SignalTyped DEF Signals
  <2> HIDE DEF s, e
  <2>5. /\ r \in CallState /\ r.target = call[c].target /\ r.offered = NoSdp
        /\ r.local = <<c, n>> /\ r.remote = h.sdp /\ r.conn \in {call[c].conn, "new"}
        /\ r.ops = q /\ ~r.timer
    BY <1>6, <2>3, RenewedFacts
  <2> HIDE DEF r
  <2> QED
    BY <1>1, <1>3, <1>4, <1>5, <2>1, <2>2, <2>4, <2>5, OperatedKept, ZenonT(60)
<1>9. CASE AcceptAnswer(c)
  <2> DEFINE a == [call[c] EXCEPT !.ops = q]
             s == [call[c] EXCEPT !.ops = q, !.offered = NoSdp, !.local = call[c].offered,
                                  !.remote = h.sdp]
             r == Renewed(s)
             e == Event("offer", <<c, n>>, NoSdp, "absent")
  <2>1. h.op = "accept" /\ made' = made /\ up' = up
    BY <1>9 DEF AcceptAnswer
  <2>2. call' = [call EXCEPT ![c] = IF call[c].offered = NoSdp THEN a ELSE r]
    BY <1>9 DEF AcceptAnswer
  <2>3. e \in UpEvent /\ e.type \in Signals /\ e.sdp = <<c, n>>
    BY <1>3, NoSdpIsNone, SignalTyped DEF Signals
  <2> HIDE DEF e
  <2>4. CASE call[c].offered = NoSdp
    <3>1. /\ a \in CallState /\ a.target = call[c].target /\ a.offered = NoSdp
          /\ a.local = call[c].local /\ a.remote = call[c].remote /\ a.conn = call[c].conn
          /\ a.ops = q /\ a.timer = call[c].timer
      BY <1>2, <1>3, <2>4 DEF CallState
    <3>2. call' = [call EXCEPT ![c] = a]
      BY <2>2, <2>4
    <3> HIDE DEF a
    <3> QED
      BY <1>1, <1>4, <1>6, <2>1, <2>3, <3>1, <3>2, OperatedKept, ZenonT(60)
  <2>5. CASE call[c].offered # NoSdp
    <3>1. /\ s \in CallState /\ s.target = call[c].target /\ s.offered = NoSdp
          /\ s.local = call[c].offered /\ s.remote = h.sdp /\ s.conn = call[c].conn
          /\ s.ops = q /\ s.timer = call[c].timer
      BY <1>2, <1>3, <1>5, <2>1, NoSdpIsNone DEF CallState
    <3> HIDE DEF s
    <3>2. /\ r \in CallState /\ r.target = call[c].target /\ r.offered = NoSdp
          /\ r.local = call[c].offered /\ r.remote = h.sdp /\ r.conn \in {call[c].conn, "new"}
          /\ r.ops = q /\ ~r.timer
      BY <1>6, <3>1, RenewedFacts
    <3>3. call' = [call EXCEPT ![c] = r]
      BY <2>2, <2>5
    <3> HIDE DEF r
    <3> QED
      BY <1>1, <1>4, <1>5, <2>1, <2>3, <2>5, <3>2, <3>3, OperatedKept
  <2> QED
    BY <2>4, <2>5
<1> QED
  BY <1>1, <1>7, <1>8, <1>9

(* A client takes an event.                                                *)
Receiving(c) ==
    /\ down[c] # <<>>
    /\ down' = [down EXCEPT ![c] = Tail(@)]
    /\ UNCHANGED <<joiner, seated, link, up, hook, found, made, muted, outages, losses, toggles>>

LEMMA ReceivingFacts ==
    ASSUME CallInv, NEW c \in Client, Receiving(c)
    PROVE  /\ down' \in [Client -> Seq(DownEvent)] /\ down[c] \in Seq(DownEvent)
           /\ down'[c] = Tail(down[c]) /\ down'[Peer(c)] = down[Peer(c)]
           /\ Head(down[c]) \in DownEvent /\ Head(down[c]) \in Heard(c)
           /\ up'[c] \in Seq(Sent(c)) /\ down'[c] \in Seq(Heard(c))
<1>1. /\ down \in [Client -> Seq(DownEvent)] /\ down[c] \in Seq(Heard(c)) /\ down[c] # <<>>
      /\ up[c] \in Seq(Sent(c)) /\ up' = up
  BY DEF CallInv, TypesOK, ClientInv, Owned, Receiving
<1>2. /\ Tail(down[c]) \in Seq(DownEvent) /\ Head(down[c]) \in Heard(c)
      /\ Tail(down[c]) \in Seq(Heard(c))
  BY <1>1
<1>3. down' = [down EXCEPT ![c] = Tail(down[c])]
  BY DEF Receiving
<1> QED
  BY <1>1, <1>2, <1>3, Peers DEF Heard

LEMMA AsksReceived ==
    ASSUME CallInv, NEW c \in Client, Receiving(c),
           view'[c].room = view[c].room \/ Head(down[c]).type = "room"
    PROVE  AsksLast(c)'
<1>1. /\ AsksLast(c) /\ down[c] \in Seq(DownEvent) /\ down[c] # <<>> /\ down'[c] = Tail(down[c])
      /\ up' = up /\ hook' = hook /\ link' = link /\ seated' = seated
  BY ReceivingFacts DEF CallInv, ClientInv, Receiving
<1>2. /\ Has(down'[c], {"room"}) => Has(down[c], {"room"})
      /\ Once(down'[c], {"room"})
  BY <1>1, HasTaken DEF AsksLast
<1>3. link[c]
  BY <1>1 DEF AsksLast
<1>4. CASE Head(down[c]).type = "room"
  <2>1. Has(down[c], {"room"}) /\ ~Has(down'[c], {"room"})
    BY <1>1, <1>4, HasTaken DEF AsksLast
  <2>2. ~Has(up[c], Asks)
    BY <1>1, <2>1 DEF AsksLast
  <2> QED
    BY <1>1, <1>2, <1>3, <2>1, <2>2 DEF AsksLast
<1>5. CASE view'[c].room = view[c].room
  BY <1>1, <1>2, <1>3, <1>5 DEF AsksLast
<1> QED
  BY <1>4, <1>5

LEMMA ReceivedKept ==
    ASSUME CallInv, NEW c \in Client, Receiving(c), TypesOK',
           call'[Peer(c)] = call[Peer(c)], pending'[Peer(c)] = pending[Peer(c)],
           view'[Peer(c)] = view[Peer(c)], badge'[Peer(c)] = badge[Peer(c)],
           unseen \subseteq unseen',
           view'[c].room = view[c].room \/ Head(down[c]).type = "room",
           HeldBy(c)' \subseteq HeldBy(c),
           call'[c].conn = "connected" => call[c].conn = "connected",
           Owned(c)', CallFits(c)', FlagArrives(c)',
           \A s \in Known(c)' :
              \/ s \in Known(c) \cup {NoSdp}
              \/ Head(down[c]).type \in Signals /\ s = Head(down[c]).sdp
    PROVE  CallInv'
<1> DEFINE p == Peer(c)
           h == Head(down[c])
<1>1. /\ p \in Client /\ Peer(p) = c /\ (\A d \in Client : d = c \/ d = p) /\ ClientInv(c)
      /\ down[c] \in Seq(DownEvent) /\ down[c] # <<>> /\ down'[c] = Tail(down[c])
      /\ seated' = seated
  BY Peers, ReceivingFacts DEF CallInv, Receiving
<1>2. ClientInv(p)'
  <2>1. UNCHANGED <<seated, link, up, made, muted, hook>> /\ down'[p] = down[p]
    BY ReceivingFacts DEF Receiving
  <2> QED
    BY <2>1, PeerKept
<1>3. AsksLast(c)'
  BY AsksReceived
<1>4. HeldBy(p)' = HeldBy(p)
  BY SameCall
<1>5. NoTurn(down[c], down'[c])
  BY <1>1, QuietTaken
<1>6. FreshAfterTurn(c)'
  <2> SUFFICES ASSUME seated[p], Has(down'[c], Turns)
               PROVE  HeldBy(p) \cap Known(c)' = {} /\ FreshTurns(down'[c], HeldBy(p))
    BY <1>1, <1>4 DEF FreshAfterTurn
  <2>1. HeldBy(p) \cap Known(c) = {} /\ FreshTurns(down[c], HeldBy(p))
    BY <1>1, <1>5 DEF ClientInv, FreshAfterTurn, NoTurn
  <2>2. FreshTurns(down'[c], HeldBy(p)) /\ (h.type \in Signals => h.sdp \notin HeldBy(p))
    BY <1>1, <2>1, TurnsTaken
  <2>3. NoSdp \notin HeldBy(p)
    BY DEF HeldBy
  <2> QED
    BY <2>1, <2>2, <2>3
<1>7. TurnsBeforeConnected(c)'
  BY <1>1, <1>5, TurnsQuiet
     DEF ClientInv
<1>8. ClientInv(c)'
  BY <1>3, <1>6, <1>7 DEF ClientInv
<1> QED
  BY <1>1, <1>2, <1>8 DEF CallInv

(* An event that is not a flag, with nothing done to the badge.            *)
LEMMA FlagReceived ==
    ASSUME CallInv, NEW c \in Client, Receiving(c), Head(down[c]).type # "media",
           call'[Peer(c)] = call[Peer(c)], badge' = badge, unseen' = unseen
    PROVE  FlagArrives(c)'
<1>1. /\ FlagArrives(c) /\ down[c] \in Seq(DownEvent) /\ down[c] # <<>>
      /\ down'[c] = Tail(down[c]) /\ up' = up /\ seated' = seated /\ muted' = muted
  BY ReceivingFacts DEF CallInv, ClientInv, Receiving
<1>2. NoFlag(down[c], down'[c]) /\ NoFlag(up[Peer(c)], up'[Peer(c)])
  BY <1>1, QuietTaken, QuietSame
<1> QED
  BY <1>1, <1>2, FlagQuiet

(* An event that changes the call in no way.                               *)
LEMMA CallReceived ==
    ASSUME CallInv, NEW c \in Client, Receiving(c), call' = call,
           \/ pending'[c] = pending[c]
           \/ Head(down[c]).type \in Signals /\ pending'[c] = Head(down[c]).sdp,
           view'[c].room = view[c].room \/ view'[c].room
    PROVE  /\ Owned(c)' /\ CallFits(c)'
           /\ HeldBy(c)' \subseteq HeldBy(c)
           /\ \A s \in Known(c)' :
                 \/ s \in Known(c) \cup {NoSdp}
                 \/ Head(down[c]).type \in Signals /\ s = Head(down[c]).sdp
<1>1. /\ ClientInv(c) /\ Head(down[c]) \in Heard(c) /\ made' = made /\ hook' = hook
      /\ up'[c] \in Seq(Sent(c)) /\ down'[c] \in Seq(Heard(c))
  BY ReceivingFacts DEF CallInv, Receiving
<1>2. /\ Ours(c)' = Ours(c) /\ Ours(Peer(c))' = Ours(Peer(c))
      /\ Sent(c)' = Sent(c) /\ Heard(c)' = Heard(c) /\ Todo(c)' = Todo(c)
  BY <1>1, SameMakes, Peers
<1>3. pending'[c] \in Ours(Peer(c)) \cup {NoSdp}
  BY <1>1 DEF ClientInv, Owned, Heard
<1>4. Owned(c)'
  BY <1>1, <1>2, <1>3 DEF ClientInv, Owned
<1>5. CallFits(c)'
  BY <1>1 DEF ClientInv, CallFits, Open, NoCall, NewCall
<1>6. HeldBy(c)' = HeldBy(c)
  BY SameCall
<1>7. pending[c] \in Known(c) /\ \A s \in Known(c)' : s \in Known(c) \/ s = pending'[c]
  BY DEF Known
<1> QED
  BY <1>4, <1>5, <1>6, <1>7

LEMMA EntryFacts ==
    ASSUME TypesOK, NEW c \in Client, NEW x \in Entered, Entry(c, x)
    PROVE  /\ view' \in [Client -> [room : BOOLEAN, peer : Entered, self : BOOLEAN]]
           /\ view'[c].room = view[c].room /\ view'[c].self = view[c].self
           /\ view'[c].peer = IF view[c].room THEN x ELSE view[c].peer
           /\ view'[Peer(c)] = view[Peer(c)]
<1>1. view \in [Client -> [room : BOOLEAN, peer : Entered, self : BOOLEAN]]
  BY DEF TypesOK
<1>2. view' = [view EXCEPT ![c].peer = IF view[c].room THEN x ELSE view[c].peer]
  BY DEF Entry
<1> QED
  BY <1>1, <1>2, Peers

LEMMA OnAnswerOfRoomKept ==
    ASSUME CallInv, NEW c \in Client, Receiving(c), Head(down[c]).type = "room",
           OnAnswerOfRoom(c, Head(down[c])), badge' = badge, unseen' = unseen
    PROVE  CallInv'
<1>1. /\ view' = [view EXCEPT ![c] = [room |-> TRUE, peer |-> Head(down[c]).peer, self |-> TRUE]]
      /\ pending' = pending /\ call' = call
  BY DEF OnAnswerOfRoom
<1>2. Head(down[c]).peer \in Entered
  BY ReceivingFacts DEF DownEvent, MediaEvent
<1>3. /\ view' \in [Client -> [room : BOOLEAN, peer : Entered, self : BOOLEAN]]
      /\ view'[c].room /\ view'[Peer(c)] = view[Peer(c)]
  BY <1>1, <1>2, Peers DEF CallInv, TypesOK
<1>4. TypesOK'
  BY <1>1, <1>3, ReceivingFacts DEF CallInv, TypesOK, Receiving
<1>5. /\ Owned(c)' /\ CallFits(c)' /\ HeldBy(c)' \subseteq HeldBy(c)
      /\ \A s \in Known(c)' :
            \/ s \in Known(c) \cup {NoSdp}
            \/ Head(down[c]).type \in Signals /\ s = Head(down[c]).sdp
  BY <1>1, <1>3, CallReceived
<1>6. FlagArrives(c)'
  BY <1>1, FlagReceived
<1> QED
  BY <1>1, <1>3, <1>4, <1>5, <1>6, ReceivedKept

LEMMA OnPeerDisconnectedKept ==
    ASSUME CallInv, NEW c \in Client, Receiving(c), OnPeerDisconnected(c, Head(down[c])),
           badge' = badge, unseen' = unseen
    PROVE  CallInv'
<1> DEFINE x == IF view[c].peer = "absent" THEN "absent" ELSE "offline"
<1>1. /\ Head(down[c]).type = "peer-disconnected" /\ Entry(c, x)
      /\ pending' = pending /\ call' = call
  BY DEF OnPeerDisconnected
<1>2. x \in Entered
  BY DEF Entered
<1> HIDE DEF x
<1>3. /\ view' \in [Client -> [room : BOOLEAN, peer : Entered, self : BOOLEAN]]
      /\ view'[c].room = view[c].room /\ view'[Peer(c)] = view[Peer(c)]
  BY <1>1, <1>2, EntryFacts DEF CallInv
<1>4. TypesOK'
  BY <1>1, <1>3, ReceivingFacts DEF CallInv, TypesOK, Receiving
<1>5. /\ Owned(c)' /\ CallFits(c)' /\ HeldBy(c)' \subseteq HeldBy(c)
      /\ \A s \in Known(c)' :
            \/ s \in Known(c) \cup {NoSdp}
            \/ Head(down[c]).type \in Signals /\ s = Head(down[c]).sdp
  BY <1>1, <1>3, CallReceived
<1>6. FlagArrives(c)'
  BY <1>1, FlagReceived
<1> QED
  BY <1>1, <1>3, <1>4, <1>5, <1>6, ReceivedKept

LEMMA OnMediaStateKept ==
    ASSUME CallInv, NEW c \in Client, Receiving(c), OnMediaState(c, Head(down[c]))
    PROVE  CallInv'
<1> DEFINE h == Head(down[c])
           p == Peer(c)
<1>1. /\ h.type = "media"
      /\ \/ badge' = [badge EXCEPT ![c] = h.muted] /\ unseen' = unseen
         \/ badge' = badge /\ unseen' = unseen \cup {c}
      /\ view' = view /\ pending' = pending /\ call' = call
  BY DEF OnMediaState
<1>2. /\ h \in DownEvent /\ down[c] \in Seq(DownEvent) /\ down[c] # <<>>
      /\ down'[c] = Tail(down[c]) /\ up' = up /\ seated' = seated /\ muted' = muted
  BY ReceivingFacts DEF Receiving
<1>3. h.muted \in BOOLEAN
  BY <1>1, <1>2 DEF DownEvent, MediaEvent, Turns, Moods, Signals
<1>4. p \in Client /\ p # c /\ ClientInv(c) /\ badge \in [Client -> BOOLEAN] /\ unseen \subseteq Client
  BY Peers DEF CallInv, TypesOK
<1>5. Has(down[c], {"media"})
      /\ \A m : LastFlag(down[c], m) =>
                   LastFlag(down'[c], m) \/ (h.muted = m /\ ~Has(down'[c], {"media"}))
  BY <1>1, <1>2, HasTaken, FlagTaken
<1> HIDE DEF h
<1>6. /\ badge' \in [Client -> BOOLEAN] /\ badge'[p] = badge[p] /\ unseen' \subseteq Client
      /\ unseen \subseteq unseen'
      /\ badge'[c] = h.muted \/ c \in unseen'
  BY <1>1, <1>3, <1>4
<1>7. TypesOK'
  BY <1>1, <1>6, ReceivingFacts DEF CallInv, TypesOK, Receiving
<1>8. /\ Owned(c)' /\ CallFits(c)' /\ HeldBy(c)' \subseteq HeldBy(c)
      /\ \A s \in Known(c)' :
            \/ s \in Known(c) \cup {NoSdp}
            \/ Head(down[c]).type \in Signals /\ s = Head(down[c]).sdp
  BY <1>1, CallReceived
<1>9. FlagArrives(c)'
  <2> SUFFICES ASSUME seated[p], call[p].conn = "connected"
               PROVE  FlagArrives(c)'
    BY <1>1, <1>2 DEF FlagArrives
  <2>1. \/ LastFlag(up[p], muted[p])
        \/ ~Has(up[p], {"media"}) /\ c \in unseen
        \/ ~Has(up[p], {"media"}) /\ LastFlag(down[c], muted[p])
    BY <1>4, <1>5 DEF ClientInv, FlagArrives
  <2>2. LastFlag(down[c], muted[p]) =>
           \/ LastFlag(down'[c], muted[p])
           \/ ~Has(down'[c], {"media"}) /\ badge'[c] = muted[p]
           \/ c \in unseen'
    BY <1>5, <1>6
  <2> QED
    BY <1>2, <1>6, <2>1, <2>2 DEF FlagArrives
<1> QED
  BY <1>1, <1>6, <1>7, <1>8, <1>9, ReceivedKept

LEMMA OnPeerLeftKept ==
    ASSUME CallInv, NEW c \in Client, Receiving(c), OnPeerLeft(c, Head(down[c])), unseen' = unseen
    PROVE  CallInv'
<1> DEFINE h == Head(down[c])
           p == Peer(c)
<1>1. /\ h.type = "peer-left" /\ Entry(c, "absent") /\ pending' = pending
      /\ call' = [call EXCEPT ![c] = NoCall] /\ badge' = [badge EXCEPT ![c] = FALSE]
  BY DEF OnPeerLeft
<1>2. /\ down[c] \in Seq(DownEvent) /\ down[c] # <<>> /\ seated' = seated /\ made' = made
      /\ up'[c] \in Seq(Sent(c)) /\ down'[c] \in Seq(Heard(c))
  BY ReceivingFacts DEF Receiving
<1>3. p \in Client /\ p # c /\ ClientInv(c)
  BY Peers DEF CallInv
<1>4. Has(down[c], Turns)
  BY <1>1, <1>2, HasTaken DEF Turns
<1>5. /\ view' \in [Client -> [room : BOOLEAN, peer : Entered, self : BOOLEAN]]
      /\ view'[c].room = view[c].room /\ view'[p] = view[p]
  BY <1>1, EntryFacts DEF CallInv, Entered
<1>6. /\ call' \in [Client -> CallState] /\ call'[c] = NoCall /\ call'[p] = call[p]
      /\ badge' \in [Client -> BOOLEAN] /\ badge'[p] = badge[p]
  BY <1>1, <1>3, NoCallFacts DEF CallInv, TypesOK
<1>7. TypesOK'
  BY <1>1, <1>5, <1>6, ReceivingFacts DEF CallInv, TypesOK, Receiving
<1> HIDE DEF h, p
<1>8. FlagArrives(c)'
  <2>1. ~(seated[p] /\ call[p].conn = "connected")
    BY <1>3, <1>4 DEF ClientInv, TurnsBeforeConnected, p
  <2> QED
    BY <1>2, <1>6, <2>1 DEF FlagArrives, p
<1>9. Owned(c)' /\ CallFits(c)'
  <2>1. /\ Sent(c)' = Sent(c) /\ Heard(c)' = Heard(c) /\ Ours(Peer(c))' = Ours(Peer(c))
    BY <1>2, SameMakes, Peers
  <2>2. pending'[c] \in Ours(Peer(c))' \cup {NoSdp}
    BY <1>1, <1>3, <2>1 DEF ClientInv, Owned
  <2>3. Owned(c)'
    BY <1>2, <1>6, <2>1, <2>2, NoCallFacts DEF Owned
  <2>4. CallFits(c)'
    BY <1>6, NoCallFacts DEF CallFits, Open
  <2> QED
    BY <2>3, <2>4
<1>10. HeldBy(c)' = {} /\ call'[c].conn # "connected"
  BY <1>6, NoCallFacts DEF HeldBy
<1>11. \A s \in Known(c)' : s \in Known(c) \cup {NoSdp}
  BY <1>1, <1>6, NoCallFacts DEF Known
<1> QED
  BY <1>1, <1>5, <1>6, <1>7, <1>8, <1>9, <1>10, <1>11, ReceivedKept DEF p

(* The peer has come, or come back: it is called, or not.                  *)
LEMMA PeerCameKept ==
    ASSUME CallInv, NEW c \in Client, Receiving(c), Head(down[c]).type # "media",
           NEW x \in Entered, Entry(c, x), pending' = pending, badge' = badge, unseen' = unseen,
           (hook[c] = "ready" /\ CallPeer(c)) \/ call' = call
    PROVE  CallInv'
<1>1. /\ view' \in [Client -> [room : BOOLEAN, peer : Entered, self : BOOLEAN]]
      /\ view'[c].room = view[c].room /\ view'[Peer(c)] = view[Peer(c)]
  BY EntryFacts DEF CallInv
<1>2. /\ hook' = hook /\ made' = made
      /\ up'[c] \in Seq(Sent(c)) /\ down'[c] \in Seq(Heard(c))
  BY ReceivingFacts DEF Receiving
<1>3. /\ call' \in [Client -> CallState] /\ call'[Peer(c)] = call[Peer(c)]
      /\ Owned(c)' /\ CallFits(c)' /\ HeldBy(c)' \subseteq HeldBy(c)
      /\ call'[c].conn = "connected" => call[c].conn = "connected"
      /\ \A s \in Known(c)' :
            \/ s \in Known(c) \cup {NoSdp}
            \/ Head(down[c]).type \in Signals /\ s = Head(down[c]).sdp
  <2>1. CASE call' = call
    <3>1. call' \in [Client -> CallState]
      BY <2>1 DEF CallInv, TypesOK
    <3> QED
      BY <1>1, <2>1, <3>1, CallReceived
  <2>2. CASE hook[c] = "ready" /\ CallPeer(c)
    <3>1. PICK ops \in {<<>>, <<Offer>>} : CreatePeer(c, "peer", ops)
      BY <2>2, CallPeerFacts
    <3>2. /\ ops \in Seq(Operation) /\ ops \in Seq(Todo(c))
          /\ {ops[i].sdp : i \in 1..Len(ops)} \subseteq {NoSdp}
      BY OfferOps
    <3>3. /\ Owned(c)' /\ CallFits(c)'
          /\ Known(c)' \subseteq Known(c) \cup {NoSdp} \cup {ops[i].sdp : i \in 1..Len(ops)}
      BY <1>1, <1>2, <2>2, <3>1, <3>2, CallsIt
    <3> QED
      BY <3>1, <3>2, <3>3, CreatePeerFacts
  <2> QED
    BY <2>1, <2>2
<1>4. TypesOK'
  BY <1>1, <1>3, ReceivingFacts DEF CallInv, TypesOK, Receiving
<1>5. FlagArrives(c)'
  BY <1>3, FlagReceived
<1> QED
  BY <1>1, <1>3, <1>4, <1>5, ReceivedKept

LEMMA OnPeerJoinedKept ==
    ASSUME CallInv, NEW c \in Client, Receiving(c), OnPeerJoined(c, Head(down[c])),
           badge' = badge, unseen' = unseen
    PROVE  CallInv'
<1> DEFINE x == IF view[c].peer = "absent" THEN "online" ELSE view[c].peer
<1>1. x \in Entered
  BY DEF Entered, CallInv, TypesOK
<1>2. /\ Head(down[c]).type = "peer-joined" /\ Entry(c, x) /\ pending' = pending
      /\ (hook[c] = "ready" /\ CallPeer(c)) \/ call' = call
  BY DEF OnPeerJoined
<1> HIDE DEF x
<1> QED
  BY <1>1, <1>2, PeerCameKept

LEMMA OnPeerReconnectedKept ==
    ASSUME CallInv, NEW c \in Client, Receiving(c), OnPeerReconnected(c, Head(down[c])),
           badge' = badge, unseen' = unseen
    PROVE  CallInv'
<1> DEFINE x == IF view[c].peer = "absent" THEN "absent" ELSE "online"
<1>1. x \in Entered
  BY DEF Entered
<1>2. /\ Head(down[c]).type = "peer-reconnected" /\ Entry(c, x) /\ pending' = pending
      /\ (hook[c] = "ready" /\ CallPeer(c)) \/ call' = call
  BY DEF OnPeerReconnected
<1> HIDE DEF x
<1> QED
  BY <1>1, <1>2, PeerCameKept

(* An operation joins the queue of a call.                                 *)
LEMMA QueuedFacts ==
    ASSUME CallInv, NEW c \in Client, Receiving(c), Open(c),
           NEW o \in Operation, o \in Todo(c), call[c].target = "self" => o.op = "accept",
           call' = [call EXCEPT ![c].ops = Append(@, o)], pending' = pending, view' = view
    PROVE  /\ call' \in [Client -> CallState] /\ call'[Peer(c)] = call[Peer(c)]
           /\ Owned(c)' /\ CallFits(c)' /\ HeldBy(c)' \subseteq HeldBy(c)
           /\ call'[c].conn = call[c].conn
           /\ \A s \in Known(c)' : s \in Known(c) \/ s = o.sdp
<1> DEFINE ops == Append(call[c].ops, o)
           r == [call[c] EXCEPT !.ops = ops]
<1>1. /\ call \in [Client -> CallState] /\ call[c] \in CallState /\ call[c].ops \in Seq(Operation)
      /\ ClientInv(c) /\ Peer(c) \in Client /\ Peer(c) # c
      /\ hook' = hook /\ made' = made
      /\ up'[c] \in Seq(Sent(c)) /\ down'[c] \in Seq(Heard(c))
  BY Peers, ReceivingFacts DEF CallInv, TypesOK, CallState, Receiving
<1>2. /\ ops \in Seq(Operation) /\ ops \in Seq(Todo(c))
      /\ call[c].target = "self" => ops \in Seq(Accepts)
  BY <1>1 DEF ClientInv, Owned, CallFits, Accepts
<1>3. \A i \in 1..Len(ops) : ops[i] = o \/ (i \in 1..Len(call[c].ops) /\ ops[i] = call[c].ops[i])
  BY <1>1
<1>4. call' = [call EXCEPT ![c] = r]
  OBVIOUS
<1> HIDE DEF ops
<1>5. /\ r \in CallState /\ r.ops = ops /\ r.target = call[c].target
      /\ r.offered = call[c].offered /\ r.local = call[c].local /\ r.remote = call[c].remote
      /\ r.conn = call[c].conn /\ r.timer = call[c].timer
  BY <1>1, <1>2 DEF CallState
<1> HIDE DEF r
<1>6. call' \in [Client -> CallState] /\ call'[c] = r /\ call'[Peer(c)] = call[Peer(c)]
  BY <1>1, <1>4, <1>5
<1>7. Owned(c)'
  <2>1. /\ Ours(c)' = Ours(c) /\ Ours(Peer(c))' = Ours(Peer(c))
        /\ Sent(c)' = Sent(c) /\ Heard(c)' = Heard(c) /\ Todo(c)' = Todo(c)
    BY <1>1, SameMakes
  <2> QED
    BY <1>1, <1>2, <1>5, <1>6, <2>1 DEF ClientInv, Owned
<1>8. CallFits(c)'
  BY <1>1, <1>2, <1>5, <1>6, ZenonT(60) DEF ClientInv, CallFits, Open
<1>9. HeldBy(c)' = HeldBy(c)
  BY <1>5, <1>6 DEF HeldBy
<1>10. \A s \in Known(c)' : s \in Known(c) \/ s = o.sdp
  BY <1>3, <1>5, <1>6 DEF Known
<1> QED
  BY <1>5, <1>6, <1>7, <1>8, <1>9, <1>10

LEMMA OnOfferKept ==
    ASSUME CallInv, NEW c \in Client, Receiving(c), OnOffer(c, Head(down[c])),
           badge' = badge, unseen' = unseen
    PROVE  CallInv'
<1> DEFINE h == Head(down[c])
           answer == Op("answer", h.sdp, NoSdp)
<1>1. /\ h.type = "offer" /\ view' = view
      /\ pending' = [pending EXCEPT ![c] = IF hook[c] \in {"acquiring", "denied"} THEN h.sdp ELSE @]
      /\ \/ hook[c] # "ready" /\ call' = call
         \/ /\ hook[c] = "ready" /\ call[c].target = "peer"
            /\ call' = [call EXCEPT ![c].ops = Append(@, answer)]
         \/ hook[c] = "ready" /\ CreatePeer(c, "peer", <<answer>>)
  BY DEF OnOffer
<1>2. /\ h \in Heard(c) /\ h \in DownEvent /\ h.type \in Signals /\ hook' = hook /\ made' = made
      /\ up'[c] \in Seq(Sent(c)) /\ down'[c] \in Seq(Heard(c))
      /\ call \in [Client -> CallState] /\ pending \in [Client -> Sdp]
      /\ Peer(c) \in Client /\ Peer(c) # c
  BY <1>1, Peers, ReceivingFacts DEF CallInv, TypesOK, Receiving, Signals
<1>3. h.sdp \in Sdp /\ h.sdp \in Ours(Peer(c))
  BY <1>1, <1>2 DEF DownEvent, MediaEvent, Heard
<1>4. answer \in Operation /\ answer \in Todo(c) /\ answer.sdp = h.sdp
  BY <1>3, AnswerOpTyped DEF Todo
<1> HIDE DEF h, answer
<1>5. /\ pending' \in [Client -> Sdp] /\ pending'[Peer(c)] = pending[Peer(c)]
      /\ pending'[c] = pending[c] \/ pending'[c] = h.sdp
      /\ hook[c] = "ready" => pending' = pending
  BY <1>1, <1>2, <1>3
<1>6. /\ call' \in [Client -> CallState] /\ call'[Peer(c)] = call[Peer(c)]
      /\ Owned(c)' /\ CallFits(c)' /\ HeldBy(c)' \subseteq HeldBy(c)
      /\ call'[c].conn = "connected" => call[c].conn = "connected"
      /\ \A s \in Known(c)' : s \in Known(c) \cup {NoSdp} \/ s = h.sdp
  <2>1. CASE call' = call
    <3>1. /\ Owned(c)' /\ CallFits(c)' /\ HeldBy(c)' \subseteq HeldBy(c)
          /\ \A s \in Known(c)' : s \in Known(c) \cup {NoSdp} \/ s = h.sdp
      BY <1>1, <1>2, <1>5, <2>1, CallReceived DEF h
    <3> QED
      BY <1>2, <2>1, <3>1
  <2>2. CASE /\ hook[c] = "ready" /\ call[c].target = "peer"
             /\ call' = [call EXCEPT ![c].ops = Append(@, answer)]
    <3>1. Open(c) /\ call[c].target # "self"
      BY <2>2 DEF Open
    <3>2. pending' = pending /\ view' = view
      BY <1>1, <1>5, <2>2
    <3> QED
      BY <1>4, <2>2, <3>1, <3>2, QueuedFacts
  <2>3. CASE hook[c] = "ready" /\ CreatePeer(c, "peer", <<answer>>)
    <3> DEFINE ops == <<answer>>
    <3>1. /\ ops \in Seq(Operation) /\ ops \in Seq(Todo(c)) /\ CreatePeer(c, "peer", ops)
          /\ {ops[i].sdp : i \in 1..Len(ops)} = {h.sdp}
      BY <1>4, <2>3, OneOp
    <3> HIDE DEF ops
    <3>2. /\ Owned(c)' /\ CallFits(c)'
          /\ Known(c)' \subseteq Known(c) \cup {NoSdp} \cup {ops[i].sdp : i \in 1..Len(ops)}
      BY <1>1, <1>2, <1>5, <2>3, <3>1, CallsIt
    <3> QED
      BY <3>1, <3>2, CreatePeerFacts
  <2> QED
    BY <1>1, <2>1, <2>2, <2>3
<1>7. TypesOK'
  BY <1>1, <1>5, <1>6, ReceivingFacts DEF CallInv, TypesOK, Receiving
<1>8. FlagArrives(c)'
  BY <1>1, <1>6, FlagReceived DEF h
<1> QED
  BY <1>1, <1>2, <1>5, <1>6, <1>7, <1>8, ReceivedKept DEF h

LEMMA OnAnswerKept ==
    ASSUME CallInv, NEW c \in Client, Receiving(c), OnAnswer(c, Head(down[c])),
           badge' = badge, unseen' = unseen
    PROVE  CallInv'
<1> DEFINE h == Head(down[c])
           accept == Op("accept", h.sdp, h.re)
<1>1. /\ h.type = "answer" /\ view' = view /\ pending' = pending
      /\ \/ call' = call
         \/ Open(c) /\ call' = [call EXCEPT ![c].ops = Append(@, accept)]
  BY DEF OnAnswer
<1>2. /\ h \in Heard(c) /\ h \in DownEvent /\ h.type \in Signals
      /\ call \in [Client -> CallState]
  BY <1>1, ReceivingFacts DEF CallInv, TypesOK, Signals
<1>3. h.sdp \in Sdp /\ h.re \in Sdp /\ h.sdp \in Ours(Peer(c))
  BY <1>1, <1>2 DEF DownEvent, MediaEvent, Heard
<1>4. accept \in Operation /\ accept \in Todo(c) /\ accept.sdp = h.sdp /\ accept.op = "accept"
  BY <1>3 DEF Todo, Op, Operation
<1> HIDE DEF h, accept
<1>5. /\ call' \in [Client -> CallState] /\ call'[Peer(c)] = call[Peer(c)]
      /\ Owned(c)' /\ CallFits(c)' /\ HeldBy(c)' \subseteq HeldBy(c)
      /\ call'[c].conn = "connected" => call[c].conn = "connected"
      /\ \A s \in Known(c)' : s \in Known(c) \cup {NoSdp} \/ s = h.sdp
  <2>1. CASE call' = call
    <3>1. /\ Owned(c)' /\ CallFits(c)' /\ HeldBy(c)' \subseteq HeldBy(c)
          /\ \A s \in Known(c)' : s \in Known(c) \cup {NoSdp} \/ s = h.sdp
      BY <1>1, <1>2, <2>1, CallReceived DEF h
    <3> QED
      BY <1>2, <2>1, <3>1
  <2>2. CASE Open(c) /\ call' = [call EXCEPT ![c].ops = Append(@, accept)]
    BY <1>1, <1>4, <2>2, QueuedFacts
  <2> QED
    BY <1>1, <2>1, <2>2
<1>6. TypesOK'
  BY <1>1, <1>5, ReceivingFacts DEF CallInv, TypesOK, Receiving
<1>7. FlagArrives(c)'
  BY <1>1, <1>5, FlagReceived DEF h
<1> QED
  BY <1>1, <1>2, <1>5, <1>6, <1>7, ReceivedKept DEF h

LEMMA ReceiveKept ==
    ASSUME CallInv, NEW c \in Client, Receive(c)
    PROVE  CallInv'
<1>1. Receiving(c)
  BY DEF Receive, Receiving, serverVars, counts
<1>2. \/ OnMediaState(c, Head(down[c]))
      \/ OnPeerLeft(c, Head(down[c])) /\ unseen' = unseen
      \/ /\ \/ Head(down[c]).type = "room" /\ OnAnswerOfRoom(c, Head(down[c]))
            \/ OnPeerJoined(c, Head(down[c])) \/ OnPeerDisconnected(c, Head(down[c]))
            \/ OnPeerReconnected(c, Head(down[c]))
            \/ OnOffer(c, Head(down[c])) \/ OnAnswer(c, Head(down[c]))
         /\ badge' = badge /\ unseen' = unseen
  BY DEF Receive
<1> QED
  BY <1>1, <1>2, OnMediaStateKept, OnPeerLeftKept, OnAnswerOfRoomKept, OnPeerJoinedKept,
     OnPeerDisconnectedKept, OnPeerReconnectedKept, OnOfferKept, OnAnswerKept

-----------------------------------------------------------------------------
(* The invariant of every behaviour.                                       *)

(* At the start nothing is in transit and there is no call.                *)
LEMMA InitHolds == Init => CallInv
<1> SUFFICES ASSUME Init PROVE CallInv
  OBVIOUS
<1>1. TypesOK
  <2>1. /\ joiner \in Client /\ seated \in [Client -> BOOLEAN] /\ link \in [Client -> BOOLEAN]
        /\ hook \in [Client -> {"away", "acquiring", "ready", "denied"}]
        /\ found \in [Client -> {"nobody", "peer", "self"}]
        /\ muted \in [Client -> BOOLEAN] /\ badge \in [Client -> BOOLEAN]
        /\ unseen \subseteq Client
    BY DEF Init
  <2>2. up \in [Client -> Seq(UpEvent)] /\ down \in [Client -> Seq(DownEvent)]
    BY DEF Init
  <2>3. view \in [Client -> [room : BOOLEAN, peer : Entered, self : BOOLEAN]]
    BY DEF Init, NoView, Entered
  <2>4. /\ pending \in [Client -> Sdp] /\ made \in [Client -> Nat] /\ call \in [Client -> CallState]
    BY NoSdpIsNone, NoCallFacts DEF Init
  <2>5. outages \in 0..MaxOutages /\ losses \in Nat /\ toggles \in 0..(MaxIncidents - losses)
    BY BoundsAssumption DEF Init
  <2> QED
    BY <2>1, <2>2, <2>3, <2>4, <2>5 DEF TypesOK
<1>2. ASSUME NEW c \in Client PROVE ClientInv(c)
  <2>1. /\ up[c] = <<>> /\ down[c] = <<>> /\ call[c] = NoCall /\ call[Peer(c)] = NoCall
        /\ pending[c] = NoSdp /\ link[c]
    BY Peers DEF Init
  <2>2. Owned(c)
    BY <2>1, NoCallFacts DEF Owned
  <2>3. CallFits(c)
    BY <2>1, NoCallFacts DEF CallFits, Open
  <2>4. \A K : ~Has(<<>>, K) /\ Once(<<>>, K) /\ LastOnly(<<>>, K)
    BY Nothing
  <2>5. AsksLast(c)
    BY <2>1, <2>4 DEF AsksLast
  <2>6. FreshAfterTurn(c) /\ TurnsBeforeConnected(c)
    BY <2>1, <2>4 DEF FreshAfterTurn, TurnsBeforeConnected
  <2>7. FlagArrives(c)
    BY <2>1, NoCallFacts DEF FlagArrives
  <2> QED
    BY <2>2, <2>3, <2>5, <2>6, <2>7 DEF ClientInv
<1> QED
  BY <1>1, <1>2 DEF CallInv

(* Every step of either page, of the server or of the network keeps it.    *)
LEMMA NextKeeps == CallInv /\ [Next]_vars => CallInv'
<1> SUFFICES ASSUME CallInv, [Next]_vars PROVE CallInv'
  OBVIOUS
<1>1. CASE Next
  <2>1. PICK c \in Client :
          \/ AskToJoin(c) \/ Mount(c) \/ MediaReady(c) \/ MediaDenied(c)
          \/ Receive(c) \/ Operate(c) \/ Serve(c) \/ ToggleAudio(c)
          \/ Connect(c) \/ Disconnected(c) \/ Failed(c) \/ TimerFires(c)
          \/ Drop(c) \/ Reload(c) \/ Reconnect(c) \/ Expire(c) \/ Leave(c)
    BY <1>1 DEF Next
  <2> QED
    BY <2>1, AskToJoinKept, MountKept, MediaReadyKept, MediaDeniedKept, ReceiveKept, OperateKept,
       ServeKept, ToggleAudioKept, ConnectKept, DisconnectedKept, FailedKept, TimerFiresKept,
       DropKept, ReloadKept, ReconnectKept, ExpireKept, LeaveKept
<1>2. CASE UNCHANGED vars
  <2>1. UNCHANGED <<joiner, seated, link, up, down, view, hook, found, pending, call, made,
                    muted, badge, unseen, outages, losses, toggles>>
    BY <1>2 DEF vars, serverVars, wireVars, hookVars, mediaVars, counts
  <2>2. TypesOK'
    BY <2>1 DEF CallInv, TypesOK
  <2>3. ASSUME NEW c \in Client PROVE ClientInv(c)'
    <3>1. ClientInv(c) /\ Peer(c) \in Client
      BY Peers DEF CallInv
    <3>2. \A d \in Client : HeldBy(d)' = HeldBy(d) /\ Known(d)' = Known(d)
      BY <2>1, SameCall
    <3> QED
      BY <2>1, <3>1, <3>2, OwnedFrame, FitsFrame, AsksFrame, FreshFrame, TurnsFrame, FlagFrame
         DEF ClientInv
  <2> QED
    BY <2>2, <2>3 DEF CallInv
<1> QED
  BY <1>1, <1>2

(* Every step of the two pages, the server and the network keeps CallInv,  *)
(* outages, losses, reloads, leaves and mutes included (use-webrtc.ts,     *)
(* webrtc.ts, video-room.tsx and server.ts).                               *)
THEOREM CallInvariant == Spec => []CallInv
BY InitHolds, NextKeeps, PTL DEF Spec

(* Types, and the disconnect timer belongs to a call that is disconnected. *)
THEOREM CallTypes == Spec => []CallTypeOK
<1>1. CallInv => CallTypeOK
  <2> SUFFICES ASSUME CallInv PROVE CallTypeOK
    OBVIOUS
  <2>1. \A c \in Client : call[c] \in CallState /\ (call[c].timer => Open(c) /\ call[c].conn = "disconnected")
    BY NoCallFacts DEF CallInv, TypesOK, ClientInv, CallFits
  <2>2. \A c \in Client :
          /\ call[c].target \in {"none", "peer", "self"}
          /\ {call[c].offered, call[c].local, call[c].remote} \subseteq Sdp
          /\ call[c].conn \in {"new", "connected", "disconnected", "failed"}
          /\ call[c].restarts \in 0..MAX_ICE_RESTARTS
    BY <2>1 DEF CallState
  <2> QED
    BY <2>1, <2>2 DEF CallTypeOK, CallInv, TypesOK, Entered
<1> QED
  BY <1>1, CallInvariant, PTL

(* Between two who are connected, either page shows whether the other one  *)
(* is muted, but for those that the flag has passed by (useWebRTC's effect *)
(* on connectionState, and broadcastMediaState).                           *)
THEOREM BadgeIsTruthful == Spec => []BadgeTruthful
<1>1. CallInv => BadgeTruthful
  <2> SUFFICES ASSUME CallInv, InCall, Connected, NEW c \in Client, c \notin unseen,
                      ~Carries(down[c]), ~Carries(up[Peer(c)])
               PROVE  badge[c] = muted[Peer(c)]
    BY DEF BadgeTruthful
  <2>1. /\ Peer(c) \in Client /\ seated[Peer(c)] /\ call[Peer(c)].conn = "connected"
        /\ down[c] \in Seq(DownEvent) /\ up[Peer(c)] \in Seq(UpEvent) /\ FlagArrives(c)
    BY Peers DEF InCall, Connected, CallInv, TypesOK, ClientInv
  <2>2. ~Has(down[c], {"media"}) /\ ~Has(up[Peer(c)], {"media"})
    BY <2>1, FlagCarried
  <2>3. \A m : ~LastFlag(down[c], m) /\ ~LastFlag(up[Peer(c)], m)
    BY <2>1, <2>2, FlagCarried
  <2> QED
    BY <2>1, <2>2, <2>3 DEF FlagArrives
<1> QED
  BY <1>1, CallInvariant, PTL

(* A client's own doings, and what it hears, leave the other's call alone. *)
LEMMA OthersCall ==
    ASSUME CallInv, NEW c \in Client,
           \/ AskToJoin(c) \/ Mount(c) \/ MediaReady(c) \/ MediaDenied(c)
           \/ Receive(c) \/ Operate(c) \/ Serve(c) \/ ToggleAudio(c)
           \/ Connect(c) \/ Disconnected(c) \/ Failed(c) \/ TimerFires(c)
           \/ Drop(c) \/ Reload(c) \/ Reconnect(c) \/ Expire(c) \/ Leave(c)
    PROVE  call'[Peer(c)] = call[Peer(c)]
<1>1. Peer(c) \in Client /\ Peer(c) # c /\ call \in [Client -> CallState]
  BY Peers DEF CallInv, TypesOK
<1>2. CASE AskToJoin(c) \/ Mount(c) \/ MediaDenied(c) \/ Serve(c) \/ ToggleAudio(c)
           \/ Drop(c) \/ Reconnect(c) \/ Expire(c)
  BY <1>2 DEF AskToJoin, Mount, MediaDenied, Serve, ToggleAudio, Drop, Reconnect, Expire
<1>3. CASE Connect(c) \/ Disconnected(c) \/ Failed(c) \/ TimerFires(c) \/ Reload(c) \/ Leave(c)
  BY <1>1, <1>3 DEF Connect, Disconnected, Failed, TimerFires, Reload, Leave
<1>4. CASE MediaReady(c)
  BY <1>1, <1>4 DEF MediaReady, CallPeer, CreatePeer
<1>5. CASE Operate(c)
  BY <1>1, <1>5, SMTT(30) DEF Operate, MakeOffer, MakeAnswer, AcceptAnswer
<1>6. CASE Receive(c)
  BY <1>1, <1>6 DEF Receive, OnMediaState, OnPeerLeft, OnAnswerOfRoom, OnPeerJoined,
     OnPeerDisconnected, OnPeerReconnected, OnOffer, OnAnswer, CallPeer, CreatePeer
<1> QED
  BY <1>2, <1>3, <1>4, <1>5, <1>6

(* A call over which media flows has the peer's descriptions, so no event  *)
(* of the peer's coming or going is on its way to it while the peer has a  *)
(* seat.                                                                   *)
LEMMA LiveFacts ==
    ASSUME CallInv, NEW c \in Client, Linked(c), seated[Peer(c)]
    PROVE  /\ hook[c] = "ready" /\ call[c].target = "peer" /\ call[c].local # NoSdp
           /\ ~Has(down[c], Turns)
<1>1. Peer(c) \in Client /\ ClientInv(c) /\ ClientInv(Peer(c)) /\ call[c] \in CallState
  BY Peers DEF CallInv, TypesOK
<1>2. call[c].local # NoSdp /\ call[c].remote = call[Peer(c)].local /\ call[c].remote # NoSdp
  BY <1>1 DEF Linked, ClientInv, CallFits
<1>3. hook[c] = "ready" /\ call[c].target = "peer"
  BY <1>1, <1>2 DEF Linked, Open, ClientInv, CallFits, CallState
<1>4. call[c].remote \in HeldBy(Peer(c)) \cap Known(c)
  BY <1>2 DEF HeldBy, Known
<1> QED
  BY <1>1, <1>2, <1>3, <1>4 DEF ClientInv, FreshAfterTurn

(* A working call is dropped or replaced only with its own page, or when   *)
(* the peer has lost its seat (onPeerJoined, onPeerLeft, onPeerReconnected,*)
(* onOffer, initMedia and attemptIceRestart of use-webrtc.ts).             *)
THEOREM LiveMediaIsKept == Spec => LiveMediaKept
<1>1. ASSUME CallInv, [Next]_vars, NEW c \in Client,
             Linked(c), call[c].conn = "connected", seated[Peer(c)], hook'[c] = "ready"
      PROVE  call'[c].local # NoSdp
  <2>1. /\ hook[c] = "ready" /\ call[c].target = "peer" /\ call[c].local # NoSdp
        /\ ~Has(down[c], Turns)
    BY <1>1, LiveFacts
  <2>2. /\ call \in [Client -> CallState] /\ call[c] \in CallState
        /\ hook \in [Client -> {"away", "acquiring", "ready", "denied"}]
        /\ ClientInv(c)
    BY <1>1 DEF CallInv, TypesOK
  <2>3. CASE UNCHANGED vars
    BY <2>1, <2>3 DEF vars
  <2>4. ASSUME NEW d \in Client,
               \/ AskToJoin(d) \/ Mount(d) \/ MediaReady(d) \/ MediaDenied(d)
               \/ Receive(d) \/ Operate(d) \/ Serve(d) \/ ToggleAudio(d)
               \/ Connect(d) \/ Disconnected(d) \/ Failed(d) \/ TimerFires(d)
               \/ Drop(d) \/ Reload(d) \/ Reconnect(d) \/ Expire(d) \/ Leave(d)
        PROVE  call'[c].local # NoSdp
    <3>1. CASE d # c
      <4>1. c = Peer(d)
        BY <3>1, Peers
      <4> QED
        BY <1>1, <2>1, <2>4, <4>1, OthersCall
    <3>2. CASE d = c
      <4>1. CASE AskToJoin(c) \/ Mount(c) \/ MediaDenied(c) \/ Serve(c) \/ ToggleAudio(c)
                 \/ Drop(c) \/ Reconnect(c) \/ Expire(c)
        BY <2>1, <4>1 DEF AskToJoin, Mount, MediaDenied, Serve, ToggleAudio, Drop, Reconnect, Expire
      <4>2. CASE MediaReady(c)
        BY <2>1, <4>2 DEF MediaReady
      <4>3. CASE Reload(c) \/ Leave(c)
        BY <1>1, <2>2, <4>3 DEF Reload, Leave
      <4>4. CASE Connect(c) \/ Disconnected(c)
        BY <2>1, <2>2, <4>4 DEF Connect, Disconnected, CallState
      <4>5. CASE Failed(c) \/ TimerFires(c)
        BY <1>1, <2>2, <4>5 DEF Failed, TimerFires, ClientInv, CallFits
      <4>6. CASE Operate(c)
        <5>1. CASE MakeOffer(c)
          BY <2>1, <2>2, <5>1 DEF MakeOffer, CallState
        <5>2. CASE MakeAnswer(c)
          <6> DEFINE x == <<c, made'[c]>>
                     r == [call[c] EXCEPT !.ops = Tail(call[c].ops), !.offered = NoSdp,
                                          !.remote = Head(call[c].ops).sdp, !.local = x]
          <6>1. r.local = x /\ x # NoSdp
            BY <2>2, NoSdpIsNone DEF CallState
          <6>2. call' = [call EXCEPT ![c] = Renewed(r)]
            BY <5>2 DEF MakeAnswer
          <6> HIDE DEF r
          <6>3. Renewed(r).local = r.local
            BY DEF Renewed
          <6> QED
            BY <2>2, <6>1, <6>2, <6>3
        <5>3. CASE AcceptAnswer(c)
          BY <2>1, <2>2, <5>3 DEF AcceptAnswer, Renewed, CallState
        <5> QED
          BY <4>6, <5>1, <5>2, <5>3 DEF Operate
      <4>7. CASE Receive(c)
        <5>1. /\ down[c] # <<>> /\ down[c] \in Seq(DownEvent)
              /\ Head(down[c]).type \notin Turns
          BY <1>1, <2>1, <4>7, HasTaken DEF Receive, CallInv, TypesOK
        <5>2. ~OnPeerJoined(c, Head(down[c])) /\ ~OnPeerLeft(c, Head(down[c]))
          BY <5>1 DEF OnPeerJoined, OnPeerLeft, Turns
        <5>3. \/ call' = call
              \/ \E o : call' = [call EXCEPT ![c].ops = Append(@, o)]
          BY <1>1, <2>1, <4>7, <5>2 DEF Receive, OnMediaState, OnAnswerOfRoom, OnPeerDisconnected,
             OnPeerReconnected, OnOffer, OnAnswer
        <5> QED
          BY <2>1, <2>2, <5>3 DEF CallState
      <4> QED
        BY <2>4, <3>2, <4>1, <4>2, <4>3, <4>4, <4>5, <4>6, <4>7
    <3> QED
      BY <3>1, <3>2
  <2> QED
    BY <1>1, <2>3, <2>4 DEF Next
<1>2. CallInv /\ [Next]_vars =>
        [\A c \in Client :
            Linked(c) /\ call[c].conn = "connected" /\ call'[c].local = NoSdp
                => ~seated[Peer(c)] \/ hook'[c] # "ready"]_vars
  BY <1>1
<1> QED
  BY <1>2, CallInvariant, PTL DEF Spec, LiveMediaKept

-----------------------------------------------------------------------------
(* As long as nothing breaks: what the parts of the invariant speak of.    *)
LEMMA TheTwo ==
    /\ 1 \in Client /\ 2 \in Client /\ Peer(1) = 2 /\ Peer(2) = 1
    /\ \A c \in Client : c = 1 \/ c = 2
    /\ Offers(2) /\ ~Offers(1)
BY DEF Client, Peer, Offers

LEMMA Meet ==
    ASSUME CallInv
    PROVE  /\ joiner \in Client /\ Creator \in Client /\ Creator # joiner
           /\ Peer(joiner) = Creator /\ Peer(Creator) = joiner
           /\ \A c \in Client : c = joiner \/ c = Creator
BY Peers DEF CallInv, TypesOK, Creator

LEMMA NoneMade ==
    ASSUME CallInv, NEW c \in Client, made[c] = 0
    PROVE  /\ call[Peer(c)].remote = NoSdp /\ call[Peer(c)].local = NoSdp
           /\ pending[Peer(c)] = NoSdp /\ call[c].offered = NoSdp /\ call[c].local = NoSdp
           /\ ~Has(up[c], Signals) /\ ~Has(down[Peer(c)], Signals)
           /\ \A i \in 1..Len(call[Peer(c)].ops) : call[Peer(c)].ops[i].op = "offer"
<1> DEFINE p == Peer(c)
<1>1. p \in Client /\ Peer(p) = c /\ ClientInv(c) /\ ClientInv(p) /\ Ours(c) = {}
  BY Peers DEF CallInv, Ours
<1>2. /\ call[p].remote = NoSdp /\ pending[p] = NoSdp
      /\ call[c].offered = NoSdp /\ call[c].local = NoSdp
  BY <1>1 DEF ClientInv, Owned
<1>3. call[p].local = NoSdp
  BY <1>1, <1>2 DEF ClientInv, CallFits
<1>4. ~Has(up[c], Signals)
  <2>1. up[c] \in Seq(Sent(c)) /\ \A e \in Sent(c) : e.type \notin Signals
    BY <1>1 DEF ClientInv, Owned, Sent
  <2> QED
    BY <2>1 DEF Has
<1>5. ~Has(down[p], Signals)
  <2>1. down[p] \in Seq(Heard(p)) /\ \A e \in Heard(p) : e.type \notin Signals
    BY <1>1 DEF ClientInv, Owned, Heard
  <2> QED
    BY <2>1 DEF Has
<1>6. \A i \in 1..Len(call[p].ops) : call[p].ops[i].op = "offer"
  <2>1. call[p].ops \in Seq(Todo(p)) /\ \A o \in Todo(p) : o.op = "offer"
    BY <1>1 DEF ClientInv, Owned, Todo
  <2> QED
    BY <2>1
<1> QED
  BY <1>2, <1>3, <1>4, <1>5, <1>6

LEMMA OneMade ==
    ASSUME NEW c \in Client, made[c] = 1, NEW s \in Ours(c)
    PROVE  s = <<c, 1>>
BY DEF Ours

(* Nothing of the joining has come into a queue.                           *)
Joining == Asks \cup Turns \cup Moods \cup {"room"}
Tame(q, r) ==
    /\ \A K \in SUBSET Joining : (Has(r, K) => Has(q, K)) /\ (Once(q, K) => Once(r, K))
    /\ q \in Seq(Welcome) => r \in Seq(Welcome)

LEMMA TameSame == ASSUME NEW q PROVE Tame(q, q)
BY DEF Tame

LEMMA TameAppended ==
    ASSUME NEW S, NEW q \in Seq(S), NEW e, e.type \notin Joining,
           q \in Seq(Welcome) => e \in DownEvent
    PROVE  Tame(q, Append(q, e))
<1>1. ASSUME NEW K \in SUBSET Joining
      PROVE  /\ Has(Append(q, e), K) => Has(q, K)
             /\ Once(q, K) => Once(Append(q, e), K)
  BY HasAppended, OnceAppended
<1>2. ASSUME q \in Seq(Welcome) PROVE Append(q, e) \in Seq(Welcome)
  <2>1. e \in Welcome
    BY <1>2 DEF Welcome, Joining
  <2> QED
    BY <1>2, <2>1
<1> QED
  BY <1>1, <1>2 DEF Tame

LEMMA TameTaken ==
    ASSUME NEW S, NEW q \in Seq(S), q # <<>>
    PROVE  Tame(q, Tail(q))
<1>1. \A K : (Has(Tail(q), K) => Has(q, K)) /\ (Once(q, K) => Once(Tail(q), K))
  BY HasTaken
<1>2. q \in Seq(Welcome) => Tail(q) \in Seq(Welcome)
  OBVIOUS
<1> QED
  BY <1>1, <1>2 DEF Tame

(* No offer or answer has come or gone.                                    *)
SameSignals(q, r) ==
    /\ \A k \in Signals : (Has(r, {k}) <=> Has(q, {k})) /\ (Once(q, {k}) => Once(r, {k}))
    /\ q \in Seq(Replies) => r \in Seq(Replies)

LEMMA SignalsSame == ASSUME NEW q PROVE SameSignals(q, q)
BY DEF SameSignals

LEMMA SignalsAppended ==
    ASSUME NEW S, NEW q \in Seq(S), NEW e \in UpEvent \cup DownEvent, e.type \notin Signals
    PROVE  SameSignals(q, Append(q, e))
<1>1. ASSUME NEW k \in Signals
      PROVE  /\ Has(Append(q, e), {k}) <=> Has(q, {k})
             /\ Once(q, {k}) => Once(Append(q, e), {k})
  <2>1. e.type \notin {k}
    OBVIOUS
  <2> QED
    BY <2>1, HasAppended, OnceAppended
<1>2. e \in Replies
  BY DEF Replies, Signals
<1>3. ASSUME q \in Seq(Replies) PROVE Append(q, e) \in Seq(Replies)
  BY <1>2, <1>3
<1> QED
  BY <1>1, <1>3 DEF SameSignals

LEMMA SignalsTaken ==
    ASSUME NEW S, NEW q \in Seq(S), q # <<>>, Head(q).type \notin Signals
    PROVE  SameSignals(q, Tail(q))
<1>1. \A k \in Signals : /\ Has(Tail(q), {k}) <=> Has(q, {k})
                         /\ Once(q, {k}) => Once(Tail(q), {k})
  BY HasTaken
<1>2. q \in Seq(Replies) => Tail(q) \in Seq(Replies)
  OBVIOUS
<1> QED
  BY <1>1, <1>2 DEF SameSignals

-----------------------------------------------------------------------------
(* The meeting goes on: what is left of it when only events that are not   *)
(* about joining come and go.                                              *)
LEMMA MeetingFrame ==
    ASSUME CallInv, Meeting, joiner' = joiner, seated' = seated, found' = found, link' = link,
           \A d \in Client :
              /\ Tame(up[d], up'[d]) /\ Tame(down[d], down'[d])
              /\ hook'[d] = "away" <=> hook[d] = "away"
              /\ view'[d].room = view[d].room /\ view'[d].self = view[d].self
              /\ call'[d].target # "self" /\ call'[d].conn \in {"new", "connected"},
           view'[joiner].peer = view[joiner].peer,
           hook[Creator] = "away" => view'[Creator].peer = view[Creator].peer /\ up'[joiner] = <<>>
    PROVE  Meeting'
<1> DEFINE j == joiner
           k == Creator
<1>1. j \in Client /\ k \in Client /\ j' = j /\ k' = k
  BY Meet DEF Creator, Peer
<1>2. \A c \in Client :
        link'[c] /\ call'[c].target # "self" /\ call'[c].conn \in {"new", "connected"}
  BY DEF Meeting
<1>3. ~Has(up'[j], {"presence", "leave"}) /\ ~Has(up'[k], Asks)
  BY <1>1 DEF Meeting, Tame, Joining, Asks
<1>4. /\ ~Has(down'[j], Turns \cup Moods)
      /\ ~Has(down'[k], {"room", "peer-left"} \cup Moods)
  BY <1>1 DEF Meeting, Tame, Joining, Turns
<1>5. down'[j] \in Seq(Welcome)
  BY <1>1 DEF Meeting, Tame
<1>6. /\ Has(up'[j], {"join"}) => ~seated'[j]
      /\ Has(down'[k], {"peer-joined"}) => seated'[j]
      /\ Once(down'[k], {"peer-joined"})
  <2>1. {"join"} \in SUBSET Joining /\ {"peer-joined"} \in SUBSET Joining
    BY DEF Joining, Asks, Turns
  <2> QED
    BY <1>1, <2>1 DEF Meeting, Tame
<1>7. /\ seated'[k] /\ view'[k].room /\ ~view'[k].self
      /\ view'[j].room => seated'[j] /\ view'[j].peer = "online"
      /\ hook'[j] # "away" => view'[j].room /\ found'[j] = "peer"
      /\ hook'[k] # "away" => found'[k] = "nobody"
  BY <1>1 DEF Meeting
<1>8. hook'[k] = "away" => view'[k].peer = "absent" /\ ~seated'[j] /\ up'[j] = <<>>
  BY <1>1 DEF Meeting
<1> HIDE DEF j, k
<1>9. /\ ~Has(up[j], {"presence", "leave"})' /\ ~Has(up[k], Asks)'
      /\ ~Has(down[j], Turns \cup Moods)' /\ ~Has(down[k], {"room", "peer-left"} \cup Moods)'
      /\ (down[j] \in Seq(Welcome))'
      /\ (Has(up[j], {"join"}) => ~seated[j])' /\ (Has(down[k], {"peer-joined"}) => seated[j])'
      /\ Once(down[k], {"peer-joined"})'
  BY <1>1, <1>3, <1>4, <1>5, <1>6 DEF Has, Once, Asks, Turns, Moods, Welcome
<1> QED
  BY <1>1, <1>2, <1>7, <1>8, <1>9 DEF Meeting, j, k

(* The signalling stays as it is when no SDP comes or goes.                *)
LEMMA CourtshipFrame ==
    ASSUME CallInv, Courtship, joiner' = joiner, made' = made, pending' = pending,
           \A d \in Client :
              /\ SameSignals(up[d], up'[d]) /\ SameSignals(down[d], down'[d])
              /\ call'[d].target = call[d].target /\ call'[d].offered = call[d].offered
              /\ call'[d].local = call[d].local /\ call'[d].remote = call[d].remote
              /\ call'[d].ops = call[d].ops,
           \/ joiner # 1 \/ ~seated[1]
           \/ seated'[1] /\ (Has(down'[2], {"peer-joined"}) => Has(down[2], {"peer-joined"}))
    PROVE  Courtship'
<1>1. /\ 1 \in Client /\ 2 \in Client /\ "offer" \in Signals /\ "answer" \in Signals
  BY TheTwo DEF Signals
<1>2. \A c \in {1, 2} : Open(c)' <=> Open(c)
  BY <1>1 DEF Open
<1>4. OneOffers'
  BY <1>1 DEF Courtship, OneOffers, SameSignals
<1>5. CalledOnce'
  BY <1>1, <1>2 DEF Courtship, CalledOnce
<1>6. \A c \in {1, 2}, k \in Signals :
        /\ Has(up'[c], {k}) <=> Has(up[c], {k})
        /\ Has(down'[c], {k}) <=> Has(down[c], {k})
        /\ Once(up[c], {k}) => Once(up'[c], {k})
        /\ Once(down[c], {k}) => Once(down'[c], {k})
  BY <1>1 DEF SameSignals
<1>7. Silence => Silence'
  BY DEF Silence
<1>8. OfferSent => OfferSent'
  BY <1>1, <1>2, <1>6 DEF OfferSent
<1>9. (Answered => Answered') /\ (Awaited => Awaited')
  BY <1>1, <1>2, <1>6 DEF Answered, Awaited
<1>10. /\ AnswerSent => AnswerSent'
       /\ AnswerRelayed => AnswerRelayed'
       /\ AnswerArrived => AnswerArrived'
       /\ Agreed => Agreed'
  BY <1>1, <1>6, <1>9 DEF AnswerSent, AnswerRelayed, AnswerArrived, Agreed
<1>11. Stage'
  BY <1>7, <1>8, <1>10 DEF Courtship, Stage
<1> QED
  BY <1>4, <1>5, <1>11 DEF Courtship

-----------------------------------------------------------------------------
(* The steps that neither make nor move an SDP.                            *)
Calm == CallInv /\ Meeting /\ Courtship

LEMMA CalmFacts ==
    ASSUME Calm, NEW c \in Client
    PROVE  /\ up \in [Client -> Seq(UpEvent)] /\ down \in [Client -> Seq(DownEvent)]
           /\ view \in [Client -> [room : BOOLEAN, peer : Entered, self : BOOLEAN]]
           /\ hook \in [Client -> {"away", "acquiring", "ready", "denied"}]
           /\ call \in [Client -> CallState] /\ call[c] \in CallState
           /\ made \in [Client -> Nat] /\ pending \in [Client -> Sdp]
           /\ seated \in [Client -> BOOLEAN] /\ ClientInv(c)
           /\ link[c] /\ call[c].target # "self" /\ call[c].conn \in {"new", "connected"}
BY DEF Calm, CallInv, TypesOK, Meeting

(* Whoever has mounted the hook, and so whoever has a call, is in the room *)
(* and both are seated, or it is the creator, waiting.                     *)
LEMMA Mounted ==
    ASSUME Calm, NEW c \in Client, hook[c] # "away" \/ Open(c)
    PROVE  /\ hook[c] # "away" /\ view[c].room /\ seated[c]
           /\ c = joiner => hook[Creator] # "away"
<1>1. hook[c] # "away"
  BY CalmFacts DEF ClientInv, CallFits
<1>2. c = joiner \/ c = Creator
  BY Meet DEF Calm
<1> QED
  BY <1>1, <1>2 DEF Calm, Meeting

LEMMA CalmAskToJoin ==
    ASSUME Calm, NEW c \in Client, AskToJoin(c)
    PROVE  Meeting' /\ Courtship'
<1> DEFINE e == Note("join")
           j == joiner
           k == Creator
<1>1. /\ link[c] /\ hook[c] = "away" /\ ~view[c].room /\ ~seated[c] /\ up[c] = <<>>
      /\ hook[Peer(c)] # "away"
      /\ up' = [up EXCEPT ![c] = Append(@, e)]
      /\ UNCHANGED <<joiner, seated, link, down, view, hook, found, pending, call, made>>
  BY DEF AskToJoin, Emit, serverVars, hookVars
<1>2. /\ j \in Client /\ k \in Client /\ k # j /\ c = j /\ Peer(c) = k /\ k' = k
      /\ \A d \in Client : d = j \/ d = k
  BY <1>1, Meet DEF Calm, Meeting, Creator, Peer
<1>3. e \in UpEvent /\ e.type = "join"
  BY NoteTyped DEF Asks
<1> HIDE DEF e
<1>4. up[j] \in Seq(UpEvent) /\ up'[j] = Append(up[j], e) /\ up'[k] = up[k] /\ up[j] = <<>>
  BY <1>1, <1>2, CalmFacts
<1>5. ~Has(up'[j], {"presence", "leave"})
  <2>1. ~Has(up[j], {"presence", "leave"}) /\ e.type \notin {"presence", "leave"}
    BY <1>3, <1>4, Nothing
  <2> QED
    BY <1>4, <2>1, HasAppended, ZenonT(60)
<1> HIDE DEF j, k
<1>6. Meeting'
  BY <1>1, <1>2, <1>4, <1>5 DEF Calm, Meeting, Has, Once, Welcome, j, k
<1>7. \A d \in Client : SameSignals(up[d], up'[d]) /\ SameSignals(down[d], down'[d])
  <2>1. SameSignals(up[j], up'[j])
    BY <1>3, <1>4, SignalsAppended DEF Signals
  <2> QED
    BY <1>1, <1>2, <1>4, <2>1, SignalsSame
<1>8. Courtship'
  <2>1. Has(down'[2], {"peer-joined"}) => Has(down[2], {"peer-joined"})
    BY <1>1
  <2> QED
    BY <1>1, <1>7, <2>1, CourtshipFrame, TheTwo, CalmFacts DEF Calm
<1> QED
  BY <1>6, <1>8

LEMMA CalmMount ==
    ASSUME Calm, NEW c \in Client, Mount(c)
    PROVE  Meeting' /\ Courtship'
<1> DEFINE j == joiner
           k == Creator
           x == IF view[c].peer = "online" THEN "peer" ELSE IF view[c].self THEN "self" ELSE "nobody"
<1>1. /\ hook[c] = "away" /\ view[c].room
      /\ hook' = [hook EXCEPT ![c] = "acquiring"] /\ found' = [found EXCEPT ![c] = x]
      /\ UNCHANGED <<joiner, seated, link, up, down, view, pending, call, made>>
  BY DEF Mount, serverVars, wireVars
<1>2. /\ j \in Client /\ k \in Client /\ k # j /\ (c = j \/ c = k) /\ k' = k
  BY <1>1, Meet DEF Calm, Creator, Peer
<1>3. /\ hook'[c] = "acquiring" /\ found'[c] = x
      /\ \A d \in Client : d # c => hook'[d] = hook[d] /\ found'[d] = found[d]
  BY <1>1, CalmFacts DEF Calm, CallInv, TypesOK
<1>4. x = IF c = j THEN "peer" ELSE "nobody"
  BY <1>1, <1>2 DEF Calm, Meeting
<1> HIDE DEF j, k, x
<1>5. Meeting'
  BY <1>1, <1>2, <1>3, <1>4 DEF Calm, Meeting, Has, Once, Welcome, j, k
<1>6. Courtship'
  <2>1. \A d \in Client : SameSignals(up[d], up'[d]) /\ SameSignals(down[d], down'[d])
    BY <1>1, SignalsSame
  <2>2. Has(down'[2], {"peer-joined"}) => Has(down[2], {"peer-joined"})
    BY <1>1
  <2> QED
    BY <1>1, <2>1, <2>2, CourtshipFrame, TheTwo, CalmFacts DEF Calm
<1> QED
  BY <1>5, <1>6

LEMMA CalmMediaDenied ==
    ASSUME Calm, NEW c \in Client, MediaDenied(c)
    PROVE  Meeting' /\ Courtship'
<1>1. /\ hook[c] = "acquiring" /\ hook' = [hook EXCEPT ![c] = "denied"]
      /\ UNCHANGED <<joiner, seated, link, up, down, view, found, pending, call, made>>
  BY DEF MediaDenied, serverVars, wireVars
<1>2. \A d \in Client : /\ Tame(up[d], up'[d]) /\ Tame(down[d], down'[d])
                        /\ SameSignals(up[d], up'[d]) /\ SameSignals(down[d], down'[d])
                        /\ hook'[d] = "away" <=> hook[d] = "away"
  BY <1>1, TameSame, SignalsSame, CalmFacts
<1>3. hook[Creator] = "away" => up'[joiner] = <<>>
  BY <1>1 DEF Calm, Meeting
<1>4. Meeting'
  BY <1>1, <1>2, <1>3, MeetingFrame, CalmFacts DEF Calm
<1>5. Courtship'
  <2>1. Has(down'[2], {"peer-joined"}) => Has(down[2], {"peer-joined"})
    BY <1>1
  <2> QED
    BY <1>1, <1>2, <2>1, CourtshipFrame, TheTwo, CalmFacts DEF Calm
<1> QED
  BY <1>4, <1>5

(* A flag is sent, if anything: ToggleAudio, and Connect.                  *)
LEMMA CalmFlag ==
    ASSUME Calm, NEW c \in Client, NEW m \in BOOLEAN, BroadcastMediaState(c, m),
           UNCHANGED <<joiner, seated, link, down, view, hook, found, pending, made>>,
           hook[c] # "away" \/ Open(c),
           \A d \in Client :
              /\ call'[d].target = call[d].target /\ call'[d].offered = call[d].offered
              /\ call'[d].local = call[d].local /\ call'[d].remote = call[d].remote
              /\ call'[d].ops = call[d].ops /\ call'[d].conn \in {"new", "connected"}
    PROVE  Meeting' /\ Courtship'
<1> DEFINE e == MediaState(m)
<1>1. e \in UpEvent /\ e \in DownEvent /\ e.type \notin Joining /\ e.type \notin Signals
  BY NoteTyped DEF MediaState, Joining, Asks, Turns, Moods, Signals
<1>2. up' = up \/ up' = [up EXCEPT ![c] = Append(@, e)]
  BY DEF BroadcastMediaState
<1> HIDE DEF e
<1>3. /\ up'[c] = up[c] \/ up'[c] = Append(up[c], e)
      /\ \A d \in Client : d # c => up'[d] = up[d]
  BY <1>2, CalmFacts
<1>4. \A d \in Client : Tame(up[d], up'[d]) /\ SameSignals(up[d], up'[d])
  <2>1. \A d \in Client : up[d] \in Seq(UpEvent)
    BY CalmFacts
  <2>2. Tame(up[c], Append(up[c], e)) /\ SameSignals(up[c], Append(up[c], e))
    BY <1>1, <2>1, TameAppended, SignalsAppended
  <2> QED
    BY <1>3, <2>2, TameSame, SignalsSame
<1>5. \A d \in Client : Tame(down[d], down'[d]) /\ SameSignals(down[d], down'[d])
  BY TameSame, SignalsSame
<1>6. hook[Creator] = "away" => up'[joiner] = <<>>
  <2> SUFFICES ASSUME hook[Creator] = "away" PROVE up'[joiner] = <<>>
    OBVIOUS
  <2>1. c # joiner
    BY Mounted
  <2> QED
    BY <1>3, <2>1, Meet DEF Calm, Meeting
<1>7. Meeting'
  BY <1>4, <1>5, <1>6, MeetingFrame, CalmFacts DEF Calm
<1>8. Courtship'
  <2>1. Has(down'[2], {"peer-joined"}) => Has(down[2], {"peer-joined"})
    OBVIOUS
  <2> QED
    BY <1>4, <1>5, <2>1, CourtshipFrame, TheTwo, CalmFacts DEF Calm
<1> QED
  BY <1>7, <1>8

LEMMA CalmToggleAudio ==
    ASSUME Calm, NEW c \in Client, ToggleAudio(c)
    PROVE  Meeting' /\ Courtship'
<1>1. /\ hook[c] # "away" /\ BroadcastMediaState(c, ~muted[c])
      /\ UNCHANGED <<joiner, seated, link, down, view, hook, found, pending, call, made>>
  BY DEF ToggleAudio, serverVars, hookVars
<1>2. PICK m \in BOOLEAN : BroadcastMediaState(c, m)
  BY <1>1
<1> QED
  BY <1>1, <1>2, CalmFlag, CalmFacts

LEMMA CalmConnect ==
    ASSUME Calm, NEW c \in Client, Connect(c)
    PROVE  Meeting' /\ Courtship'
<1>1. /\ Open(c) /\ BroadcastMediaState(c, muted[c])
      /\ call' = [call EXCEPT ![c].conn = "connected", ![c].restarts = 0, ![c].timer = FALSE]
      /\ UNCHANGED <<joiner, seated, link, down, view, hook, found, pending, made>>
  BY DEF Connect, Linked, PushMediaState, serverVars, hookVars
<1>2. muted[c] \in BOOLEAN
  BY DEF Calm, CallInv, TypesOK
<1>3. \A d \in Client :
        /\ call'[d].target = call[d].target /\ call'[d].offered = call[d].offered
        /\ call'[d].local = call[d].local /\ call'[d].remote = call[d].remote
        /\ call'[d].ops = call[d].ops /\ call'[d].conn \in {"new", "connected"}
  BY <1>1, CalmFacts DEF CallState
<1> QED
  BY <1>1, <1>2, <1>3, CalmFlag

-----------------------------------------------------------------------------
(* As long as nothing breaks: the server.                                  *)

(* It takes a flag or a signal and may pass it on.                         *)
LEMMA CalmRelayed ==
    ASSUME Calm, NEW c \in Client, Serving(c), Head(up[c]).type \in Signals \cup {"media"},
           seated' = seated, down' = down \/ down' = Delivered(Peer(c), Head(up[c]))
    PROVE  Meeting'
<1> DEFINE e == Head(up[c])
           p == Peer(c)
<1>1. /\ p \in Client /\ p # c /\ \A d \in Client : d = c \/ d = p
      /\ e \in UpEvent /\ up[c] \in Seq(UpEvent) /\ up[c] # <<>>
      /\ up'[c] = Tail(up[c]) /\ up'[p] = up[p]
      /\ UNCHANGED <<joiner, link, view, hook, found, call>>
  BY Peers, ServingFacts DEF Calm, Serving
<1>2. e \in DownEvent /\ e.type \notin Joining
  BY <1>1 DEF UpEvent, DownEvent, MediaEvent, Asks, Signals, Joining, Turns, Moods
<1>3. down'[c] = down[c] /\ (down'[p] = down[p] \/ down'[p] = Append(down[p], e))
  <2>1. Delivered(p, e)[c] = down[c]
        /\ Delivered(p, e)[p] = IF link[p] THEN Append(down[p], e) ELSE down[p]
    BY <1>1, <1>2, DeliveredFacts DEF Calm, CallInv
  <2> QED
    BY <2>1
<1> HIDE DEF e, p
<1>4. \A d \in Client : Tame(up[d], up'[d]) /\ Tame(down[d], down'[d])
  <2>1. Tame(up[c], up'[c]) /\ Tame(up[p], up'[p]) /\ Tame(down[c], down'[c])
    BY <1>1, <1>3, TameSame, TameTaken
  <2>2. Tame(down[p], down'[p])
    <3>1. down[p] \in Seq(DownEvent)
      BY <1>1, CalmFacts
    <3>2. Tame(down[p], Append(down[p], e))
      BY <1>2, <3>1, TameAppended
    <3> QED
      BY <1>3, <3>2, TameSame
  <2> QED
    BY <1>1, <2>1, <2>2
<1>5. hook[Creator] = "away" => up'[joiner] = <<>>
  <2> SUFFICES ASSUME hook[Creator] = "away" PROVE up'[joiner] = <<>>
    OBVIOUS
  <2>1. up[joiner] = <<>>
    BY DEF Calm, Meeting
  <2>2. joiner = p
    BY <1>1, <2>1, Meet DEF Calm
  <2> QED
    BY <1>1, <2>1, <2>2
<1> QED
  BY <1>1, <1>4, <1>5, MeetingFrame, CalmFacts DEF Calm

LEMMA CalmServeMedia ==
    ASSUME Calm, NEW c \in Client, Serving(c), RelayMediaState(c, Head(up[c]))
    PROVE  Meeting' /\ Courtship'
<1> DEFINE e == Head(up[c])
           p == Peer(c)
<1>1. /\ e.type = "media" /\ seated' = seated
      /\ down' = down \/ down' = Delivered(p, e)
  BY DEF RelayMediaState, Deliver
<1>2. Meeting'
  BY <1>1, CalmRelayed
<1>3. /\ p \in Client /\ p # c /\ \A d \in Client : d = c \/ d = p
      /\ e \in UpEvent /\ up[c] \in Seq(UpEvent) /\ up[c] # <<>>
      /\ up'[c] = Tail(up[c]) /\ up'[p] = up[p]
      /\ UNCHANGED <<joiner, made, pending, call>>
  BY Peers, ServingFacts DEF Calm, Serving
<1>4. e \in DownEvent /\ e.type \notin Signals /\ e.type # "peer-joined"
  BY <1>1, <1>3 DEF UpEvent, DownEvent, Asks, Signals
<1>5. down'[c] = down[c] /\ (down'[p] = down[p] \/ down'[p] = Append(down[p], e))
      /\ down[p] \in Seq(DownEvent)
  <2>1. Delivered(p, e)[c] = down[c]
        /\ Delivered(p, e)[p] = IF link[p] THEN Append(down[p], e) ELSE down[p]
    BY <1>3, <1>4, DeliveredFacts DEF Calm, CallInv
  <2> QED
    BY <1>1, <1>3, <2>1, CalmFacts
<1> HIDE DEF e, p
<1>6. \A d \in Client : SameSignals(up[d], up'[d]) /\ SameSignals(down[d], down'[d])
  <2>1. SameSignals(up[c], up'[c]) /\ SameSignals(up[p], up'[p]) /\ SameSignals(down[c], down'[c])
    BY <1>3, <1>4, <1>5, SignalsSame, SignalsTaken DEF e
  <2>2. SameSignals(down[p], down'[p])
    BY <1>3, <1>4, <1>5, SignalsSame, SignalsAppended
  <2> QED
    BY <1>3, <2>1, <2>2
<1>7. \A d \in Client : Has(down'[d], {"peer-joined"}) => Has(down[d], {"peer-joined"})
  <2>1. Has(Append(down[p], e), {"peer-joined"}) => Has(down[p], {"peer-joined"})
    BY <1>4, <1>5, HasAppended
  <2> QED
    BY <1>3, <1>5, <2>1
<1>8. Courtship'
  BY <1>1, <1>3, <1>6, <1>7, CourtshipFrame, TheTwo, CalmFacts DEF Calm
<1> QED
  BY <1>2, <1>8

(* The one offer.                                                          *)
LEMMA CalmServeOffer ==
    ASSUME Calm, Serving(2), Head(up[2]).type = "offer",
           seated' = seated, down' = down \/ down' = Delivered(1, Head(up[2]))
    PROVE  Courtship'
<1> DEFINE e == Head(up[2])
<1>1. /\ e \in UpEvent /\ up[2] \in Seq(UpEvent) /\ up[2] # <<>>
      /\ up'[2] = Tail(up[2]) /\ up'[1] = up[1]
      /\ UNCHANGED <<joiner, made, pending, call>>
  BY TheTwo, ServingFacts DEF Calm, Serving
<1>2. e \in DownEvent /\ e.type = "offer"
  BY <1>1 DEF UpEvent, DownEvent, MediaEvent, Asks, Signals
<1>3. /\ down'[2] = down[2] /\ (down'[1] = down[1] \/ down'[1] = Append(down[1], e))
      /\ down[1] \in Seq(DownEvent)
  <2>1. Delivered(1, e)[2] = down[2]
        /\ Delivered(1, e)[1] = IF link[1] THEN Append(down[1], e) ELSE down[1]
    BY <1>2, TheTwo, DeliveredFacts DEF Calm, CallInv
  <2> QED
    BY <2>1, TheTwo, CalmFacts
<1> HIDE DEF e
<1>4. Has(up[2], {"offer"})
  BY <1>1, <1>2, HasTaken DEF e
<1>5. Has(up[2], Signals)
  BY <1>4, HasMore DEF Signals
<1>6. /\ OfferSent /\ Once(up[2], {"offer"}) /\ ~Has(down[1], {"offer"})
      /\ pending[1] = NoSdp /\ call[1].ops = <<>>
  <2>1. ~Silence
    BY <1>5, NoneMade, TheTwo DEF Silence, Calm
  <2>2. ~Answered
    BY <1>4 DEF Answered
  <2> QED
    BY <1>4, <2>1, <2>2
       DEF Calm, Courtship, Stage, OfferSent, AnswerSent, AnswerRelayed, AnswerArrived, Agreed
<1>7. /\ ~Has(up'[2], {"offer"}) /\ (Has(up'[2], {"answer"}) => Has(up[2], {"answer"}))
  BY <1>1, <1>2, <1>6, HasTaken DEF e
<1>8. /\ Once(down'[1], {"offer"}) /\ (Has(down'[1], {"answer"}) => Has(down[1], {"answer"}))
  <2>1. /\ Has(Append(down[1], e), {"answer"}) => Has(down[1], {"answer"})
        /\ Once(Append(down[1], e), {"offer"}) /\ Once(down[1], {"offer"})
    BY <1>2, <1>3, <1>6, OnceNone, OnceAppended, HasAppended
  <2> QED
    BY <1>3, <2>1
<1>9. OneOffers'
  BY <1>1, <1>3, <1>7, <1>8 DEF Calm, Courtship, OneOffers
<1>10. CalledOnce'
  BY <1>1, <1>3 DEF Calm, Courtship, CalledOnce, Open
<1>11. OfferSent'
  BY <1>1, <1>6, <1>7, <1>8 DEF OfferSent, Open
<1> QED
  BY <1>9, <1>10, <1>11 DEF Courtship, Stage

(* The one answer: both are seated when it comes by.                       *)
LEMMA CalmServeAnswer ==
    ASSUME Calm, Serving(1), Head(up[1]).type = "answer",
           seated' = seated, seated[1] /\ seated[2] => down' = Delivered(2, Head(up[1]))
    PROVE  Courtship'
<1> DEFINE e == Head(up[1])
<1>1. /\ e \in UpEvent /\ up[1] \in Seq(UpEvent) /\ up[1] # <<>>
      /\ up'[1] = Tail(up[1]) /\ up'[2] = up[2]
      /\ UNCHANGED <<joiner, made, pending, call>>
  BY TheTwo, ServingFacts DEF Calm, Serving
<1>2. e \in DownEvent /\ e.type = "answer"
  BY <1>1 DEF UpEvent, DownEvent, MediaEvent, Asks, Signals
<1> HIDE DEF e
<1>3. Has(up[1], {"answer"})
  BY <1>1, <1>2, HasTaken DEF e
<1>4. Has(up[1], Signals)
  BY <1>3, HasMore DEF Signals
<1>5. AnswerSent
  <2>1. made[1] # 0
    BY <1>4, NoneMade, TheTwo DEF Calm
  <2> QED
    BY <1>3, <2>1
       DEF Calm, Courtship, Stage, Silence, OfferSent, AnswerRelayed, AnswerArrived, Agreed
<1>6. seated[1] /\ seated[2]
  BY <1>5, Mounted, TheTwo DEF AnswerSent, Answered
<1>7. /\ down'[1] = down[1] /\ down'[2] = Append(down[2], e)
      /\ down[2] \in Seq(DownEvent)
  <2>1. Delivered(2, e)[1] = down[1]
        /\ Delivered(2, e)[2] = IF link[2] THEN Append(down[2], e) ELSE down[2]
    BY <1>2, TheTwo, DeliveredFacts DEF Calm, CallInv
  <2> QED
    BY <1>6, <2>1, TheTwo, CalmFacts DEF e
<1>8. /\ ~Has(up'[1], {"answer"}) /\ (Has(up'[1], {"offer"}) => Has(up[1], {"offer"}))
      /\ up'[1] \in Seq(Replies) /\ e \in Replies
  <2>1. up[1] \in Seq(Replies)
    BY DEF Calm, Courtship, OneOffers
  <2>2. Tail(up[1]) \in Seq(Replies) /\ e \in Replies
    BY <1>1, <2>1 DEF e
  <2>3. ~Has(up'[1], {"answer"}) /\ (Has(up'[1], {"offer"}) => Has(up[1], {"offer"}))
    BY <1>1, <1>2, <1>5, HasTaken DEF AnswerSent, e
  <2> QED
    BY <1>1, <2>2, <2>3
<1>9. /\ Has(down'[2], {"answer"}) /\ Once(down'[2], {"answer"})
      /\ Has(down'[2], {"offer"}) => Has(down[2], {"offer"})
      /\ Has(down'[2], {"peer-joined"}) => Has(down[2], {"peer-joined"})
      /\ down'[2] \in Seq(Replies)
  <2>1. /\ Has(down'[2], {"answer"}) /\ Once(down'[2], {"answer"})
        /\ Has(down'[2], {"offer"}) => Has(down[2], {"offer"})
        /\ Has(down'[2], {"peer-joined"}) => Has(down[2], {"peer-joined"})
    BY <1>2, <1>5, <1>7, OnceNone, OnceAppended, HasAppended DEF AnswerSent
  <2>2. down[2] \in Seq(Replies)
    BY DEF Calm, Courtship, OneOffers
  <2> QED
    BY <1>7, <1>8, <2>1, <2>2
<1>10. OneOffers'
  BY <1>1, <1>7, <1>8, <1>9 DEF Calm, Courtship, OneOffers
<1>11. CalledOnce'
  BY <1>1, <1>9 DEF Calm, Courtship, CalledOnce, Open
<1>12. AnswerRelayed'
  BY <1>1, <1>5, <1>7, <1>8, <1>9 DEF AnswerSent, AnswerRelayed, Answered, Awaited, Open
<1> QED
  BY <1>10, <1>11, <1>12 DEF Courtship, Stage

LEMMA CalmServeSignal ==
    ASSUME Calm, NEW c \in Client, Serving(c), RelaySignal(c, Head(up[c]))
    PROVE  Meeting' /\ Courtship'
<1> DEFINE e == Head(up[c])
<1>1. /\ e.type \in Signals /\ seated' = seated
      /\ IF seated[c] /\ seated[Peer(c)] THEN down' = Delivered(Peer(c), e) ELSE down' = down
  BY DEF RelaySignal, Deliver, Signals
<1>2. Meeting'
  BY <1>1, CalmRelayed
<1>3. up[c] \in Seq(UpEvent) /\ up[c] # <<>>
  BY CalmFacts DEF Serving
<1>4. Has(up[c], {e.type})
  BY <1>3, HasTaken
<1>5. CASE e.type = "offer"
  <2>1. c = 2
    BY <1>4, <1>5, TheTwo DEF Calm, Courtship, OneOffers
  <2> QED
    BY <1>1, <1>2, <1>5, <2>1, TheTwo, CalmServeOffer
<1>6. CASE e.type = "answer"
  <2>1. c = 1
    BY <1>4, <1>6, TheTwo DEF Calm, Courtship, OneOffers
  <2> QED
    BY <1>1, <1>2, <1>6, <2>1, TheTwo, CalmServeAnswer
<1> QED
  BY <1>1, <1>5, <1>6 DEF Signals

(* The joiner gets its seat, its answer and, with it, the creator's news.  *)
LEMMA CalmServeJoin ==
    ASSUME Calm, NEW c \in Client, Serving(c), HandleJoin(c, Head(up[c]))
    PROVE  Meeting' /\ Courtship'
<1> DEFINE j == joiner
           k == Creator
           e == Note("peer-joined")
           room == Event("room", NoSdp, NoSdp, RosterEntry(k))
<1>1. /\ j \in Client /\ k \in Client /\ k # j /\ Peer(j) = k /\ (\A d \in Client : d = j \/ d = k)
      /\ up[c] \in Seq(UpEvent) /\ up[c] # <<>> /\ up'[c] = Tail(up[c])
      /\ \A d \in Client : d # c => up'[d] = up[d]
      /\ UNCHANGED <<joiner, link, view, hook, found, pending, call, made>>
      /\ Head(up[c]).type = "join"
  BY Peers, ServingFacts, Meet, ZenonT(60) DEF Calm, Serving, HandleJoin
<1>2. Has(up[c], {"join"}) /\ Has(up[c], Asks) /\ c = j
  <2>1. Has(up[c], {"join"}) /\ Has(up[c], Asks)
    BY <1>1, HasTaken DEF Asks
  <2> QED
    BY <1>1, <2>1 DEF Calm, Meeting
<1>3. up'[j] = <<>> /\ ~Has(down[j], {"room"})
  BY <1>1, <1>2, AskServed DEF Calm, Asks
<1>4. ~seated[j] /\ seated[k] /\ ~Has(down[k], {"peer-joined"}) /\ hook[k] # "away"
  BY <1>1, <1>2 DEF Calm, Meeting
<1>5. /\ e \in DownEvent /\ e.type = "peer-joined"
      /\ room \in DownEvent /\ room.type = "room" /\ room.peer = "online"
  <2>1. RosterEntry(k) = "online"
    BY <1>1, <1>4, CalmFacts DEF RosterEntry
  <2> QED
    BY <2>1, NoteTyped, RoomAnswerTyped DEF Turns, Event
<1>6. /\ seated'[j] /\ seated'[k] = seated[k]
      /\ down'[j] = Append(down[j], room) /\ down'[k] = Append(down[k], e)
      /\ down[j] \in Seq(DownEvent) /\ down[k] \in Seq(DownEvent)
  <2>1. /\ seated' = [seated EXCEPT ![j] = TRUE]
        /\ down' = [Delivered(k, e) EXCEPT ![j] = Append(@, room)]
    BY <1>1, <1>2, <1>4 DEF HandleJoin
  <2>2. /\ Delivered(k, e) \in [Client -> Seq(DownEvent)]
        /\ Delivered(k, e)[k] = IF link[k] THEN Append(down[k], e) ELSE down[k]
        /\ Delivered(k, e)[j] = down[j]
    BY <1>1, <1>5, DeliveredFacts DEF Calm, CallInv
  <2>3. link[k] /\ seated \in [Client -> BOOLEAN]
    BY <1>1, CalmFacts
  <2> QED
    BY <1>1, <2>1, <2>2, <2>3, CalmFacts
<1> HIDE DEF e, room, j, k
<1>7. k' = k
  BY <1>1 DEF k, Creator, Peer
<1>8. /\ ~Has(up'[j], {"presence", "leave", "join"}) /\ ~Has(up'[k], Asks)
  BY <1>1, <1>2, <1>3, Nothing DEF Calm, Meeting, j, k
<1>9. ~Has(down'[j], Turns \cup Moods) /\ down'[j] \in Seq(Welcome)
  <2>1. ~Has(down[j], Turns \cup Moods) /\ down[j] \in Seq(Welcome)
    BY DEF Calm, Meeting, j
  <2>2. room.type \notin Turns \cup Moods /\ room \in Welcome
    BY <1>5 DEF Turns, Moods, Welcome
  <2>3. ~Has(down'[j], Turns \cup Moods)
    BY <1>6, <2>1, <2>2, HasAppended
  <2> QED
    BY <1>6, <2>1, <2>2, <2>3
<1>10. ~Has(down'[k], {"room", "peer-left"} \cup Moods) /\ Once(down'[k], {"peer-joined"})
  <2>1. ~Has(down[k], {"room", "peer-left"} \cup Moods) /\ Once(down[k], {"peer-joined"})
    BY DEF Calm, Meeting, k
  <2>2. e.type \notin {"room", "peer-left"} \cup Moods
    BY <1>5 DEF Moods
  <2> QED
    BY <1>4, <1>6, <2>1, <2>2, HasAppended, OnceAppended
<1>11. Meeting'
  <2>1. /\ ~Has(up[j], {"presence", "leave"})' /\ ~Has(up[j], {"join"})' /\ ~Has(up[k], Asks)'
        /\ ~Has(down[j], Turns \cup Moods)' /\ ~Has(down[k], {"room", "peer-left"} \cup Moods)'
        /\ (down[j] \in Seq(Welcome))' /\ Once(down[k], {"peer-joined"})'
    BY <1>1, <1>7, <1>8, <1>9, <1>10 DEF Has, Once, Asks, Turns, Moods, Welcome, j
  <2> QED
    BY <1>1, <1>2, <1>4, <1>6, <1>7, <2>1 DEF Calm, Meeting, j, k
<1>12. \A d \in Client : SameSignals(up[d], up'[d]) /\ SameSignals(down[d], down'[d])
  <2>1. SameSignals(up[j], up'[j]) /\ SameSignals(up[k], up'[k])
    BY <1>1, <1>2, SignalsSame, SignalsTaken DEF Signals
  <2>2. SameSignals(down[j], down'[j]) /\ SameSignals(down[k], down'[k])
    BY <1>5, <1>6, SignalsAppended DEF Signals
  <2> QED
    BY <1>1, <2>1, <2>2
<1>13. Courtship'
  <2>1. joiner # 1 \/ ~seated[1]
    BY <1>4 DEF j
  <2> QED
    BY <1>1, <1>12, <2>1, CourtshipFrame DEF Calm
<1> QED
  BY <1>11, <1>13

LEMMA CalmServe ==
    ASSUME Calm, NEW c \in Client, Serve(c)
    PROVE  Meeting' /\ Courtship'
<1>1. Serving(c)
  BY DEF Serve, Serving, hookVars, counts
<1>2. \/ RelayMediaState(c, Head(up[c])) \/ RelaySignal(c, Head(up[c]))
      \/ HandleJoin(c, Head(up[c]))
      \/ HandlePresence(c, Head(up[c])) \/ HandleLeave(c, Head(up[c]))
  BY DEF Serve
<1>3. ~HandlePresence(c, Head(up[c])) /\ ~HandleLeave(c, Head(up[c]))
  <2> SUFFICES ASSUME Head(up[c]).type \in {"presence", "leave"} PROVE FALSE
    BY DEF HandlePresence, HandleLeave
  <2>1. up[c] \in Seq(UpEvent) /\ up[c] # <<>>
    BY <1>1, CalmFacts DEF Serving
  <2>2. Has(up[c], {"presence", "leave"}) /\ Has(up[c], Asks)
    BY <2>1, HasTaken DEF Asks
  <2> QED
    BY <2>2, Meet DEF Calm, Meeting
<1> QED
  BY <1>1, <1>2, <1>3, CalmServeMedia, CalmServeSignal, CalmServeJoin

-----------------------------------------------------------------------------
(* As long as nothing breaks: what the clients hear.                       *)
LEMMA CalmHeard ==
    ASSUME Calm, NEW c \in Client, Receiving(c), Head(down[c]).type # "room",
           \A d \in Client : /\ view'[d].room = view[d].room /\ view'[d].self = view[d].self
                             /\ call'[d].target # "self" /\ call'[d].conn \in {"new", "connected"},
           view'[joiner].peer = view[joiner].peer,
           hook[Creator] # "away" \/ view'[Creator].peer = view[Creator].peer
    PROVE  Meeting'
<1>1. /\ down[c] \in Seq(DownEvent) /\ down[c] # <<>> /\ down'[c] = Tail(down[c])
      /\ \A d \in Client : d # c => down'[d] = down[d]
      /\ UNCHANGED <<joiner, seated, link, up, hook, found>>
  BY ReceivingFacts, Peers DEF Calm, Receiving
<1>2. \A d \in Client : Tame(up[d], up'[d]) /\ Tame(down[d], down'[d])
  BY <1>1, TameSame, TameTaken
<1>3. hook[Creator] = "away" => up'[joiner] = <<>>
  BY <1>1 DEF Calm, Meeting
<1> QED
  BY <1>1, <1>2, <1>3, MeetingFrame DEF Calm

(* An event that is not a signal, and starts no call.                      *)
LEMMA CalmUnsigned ==
    ASSUME Calm, NEW c \in Client, Receiving(c), Head(down[c]).type \notin Signals,
           call' = call, pending' = pending
    PROVE  Courtship'
<1>1. /\ down[c] \in Seq(DownEvent) /\ down[c] # <<>> /\ down'[c] = Tail(down[c])
      /\ \A d \in Client : d # c => down'[d] = down[d]
      /\ UNCHANGED <<joiner, seated, up, made>>
  BY ReceivingFacts, Peers, ZenonT(60) DEF Calm, Receiving
<1>2. \A d \in Client : SameSignals(up[d], up'[d]) /\ SameSignals(down[d], down'[d])
  BY <1>1, SignalsSame, SignalsTaken
<1>3. Has(down'[2], {"peer-joined"}) => Has(down[2], {"peer-joined"})
  BY <1>1, HasTaken, TheTwo
<1> QED
  BY <1>1, <1>2, <1>3, CourtshipFrame, TheTwo, CalmFacts DEF Calm

LEMMA CalmOnAnswerOfRoom ==
    ASSUME Calm, NEW c \in Client, Receiving(c), Head(down[c]).type = "room",
           OnAnswerOfRoom(c, Head(down[c]))
    PROVE  Meeting' /\ Courtship'
<1> DEFINE j == joiner
           k == Creator
           e == Head(down[c])
<1>1. /\ j \in Client /\ k \in Client /\ k # j /\ (\A d \in Client : d = j \/ d = k)
      /\ down[c] \in Seq(DownEvent) /\ down[c] # <<>> /\ down'[c] = Tail(down[c])
      /\ \A d \in Client : d # c => down'[d] = down[d]
      /\ view' = [view EXCEPT ![c] = [room |-> TRUE, peer |-> e.peer, self |-> TRUE]]
      /\ UNCHANGED <<joiner, seated, link, up, hook, found, pending, call, made>>
  BY ReceivingFacts, Peers, Meet, ZenonT(60) DEF Calm, Receiving, OnAnswerOfRoom
<1>2. Has(down[c], {"room"})
  BY <1>1, HasTaken
<1>3. c = j
  <2>1. Has(down[c], {"room", "peer-left"} \cup Moods)
    BY <1>2, HasMore
  <2> QED
    BY <1>1, <2>1 DEF Calm, Meeting
<1>4. seated[j]
  BY <1>2, <1>3, CalmFacts DEF ClientInv, AsksLast
<1>5. e.peer = "online"
  <2>1. down[j] \in Seq(Welcome)
    BY DEF Calm, Meeting
  <2>2. e \in Welcome
    BY <1>1, <1>3, <2>1
  <2> QED
    BY <2>2 DEF Welcome
<1>6. view'[j].room /\ view'[j].peer = "online" /\ view'[k] = view[k]
  BY <1>1, <1>3, <1>5, CalmFacts
<1>7. k' = k
  BY <1>1 DEF Creator, Peer
<1> HIDE DEF e, j, k
<1>8. Tame(down[j], down'[j]) /\ down'[k] = down[k]
  BY <1>1, <1>3, TameTaken
<1>9. /\ ~Has(down'[j], Turns \cup Moods) /\ down'[j] \in Seq(Welcome)
  <2>1. Turns \cup Moods \in SUBSET Joining
    BY DEF Joining
  <2> QED
    BY <1>8, <2>1 DEF Calm, Meeting, Tame, j
<1>10. Meeting'
  <2>1. /\ ~Has(down[j], Turns \cup Moods)' /\ (down[j] \in Seq(Welcome))'
    BY <1>1, <1>9 DEF Has, Turns, Moods, Welcome, j
  <2>2. /\ ~Has(up[j], {"presence", "leave"})' /\ ~Has(up[k], Asks)'
        /\ ~Has(down[k], {"room", "peer-left"} \cup Moods)'
        /\ (Has(up[j], {"join"}) => ~seated[j])' /\ (Has(down[k], {"peer-joined"}) => seated[j])'
        /\ Once(down[k], {"peer-joined"})'
    BY <1>1, <1>7, <1>8 DEF Calm, Meeting, Has, Once, Asks, Moods, j, k
  <2> QED
    BY <1>1, <1>4, <1>6, <1>7, <2>1, <2>2 DEF Calm, Meeting, j, k
<1>11. Courtship'
  BY <1>1, CalmUnsigned DEF Signals, e
<1> QED
  BY <1>10, <1>11

LEMMA CalmOnMediaState ==
    ASSUME Calm, NEW c \in Client, Receiving(c), OnMediaState(c, Head(down[c]))
    PROVE  Meeting' /\ Courtship'
<1>1. Head(down[c]).type = "media" /\ UNCHANGED <<view, pending, call>>
  BY DEF OnMediaState
<1>2. Meeting'
  BY <1>1, CalmHeard, CalmFacts
<1> QED
  BY <1>1, <1>2, CalmUnsigned DEF Signals

(* The joiner calls its peer, which it has never called, or which has lost *)
(* nothing that the old call had.                                          *)
LEMMA CalmCallsPeer ==
    ASSUME Calm, NEW c \in Client, CallPeer(c), hook[c] = "ready" \/ call[c] = NoCall,
           made' = made, pending' = pending, joiner' = joiner,
           \A d \in Client : SameSignals(up[d], up'[d]) /\ SameSignals(down[d], down'[d]),
           c = 2 => ~Open(2),
           c = 2 /\ joiner = 1 => seated'[1] /\ ~Has(down'[2], {"peer-joined"}),
           c = 1 => call[1].ops = <<>> /\ ~Answered,
           c = 1 => \/ joiner # 1 \/ ~seated[1]
                    \/ seated'[1] /\ (Has(down'[2], {"peer-joined"}) => Has(down[2], {"peer-joined"}))
    PROVE  Courtship'
<1>1. /\ "offer" \in Signals /\ "answer" \in Signals /\ call \in [Client -> CallState]
      /\ 1 \in Client /\ 2 \in Client
  BY CalmFacts, TheTwo DEF Signals
<1>2. CASE c = 2
  <2>1. Silence
    BY <1>2 DEF Calm, Courtship, Stage, OfferSent, AnswerSent, AnswerRelayed, AnswerArrived,
       Agreed, Answered
  <2>2. /\ \/ call'[2] = NewCall("peer", <<Offer>>) \/ call'[2] = call[2]
        /\ call'[1] = call[1]
    BY <1>1, <1>2, TheTwo DEF CallPeer, CreatePeer
  <2>3. call'[2].ops \in {<<>>, <<Offer>>, <<ToAccept>>}
    BY <2>2 DEF NewCall, Calm, Courtship, OneOffers
  <2>4. OneOffers'
    BY <1>1, <2>2, <2>3 DEF Calm, Courtship, OneOffers, SameSignals
  <2>5. CalledOnce'
    BY <1>2 DEF CalledOnce
  <2>6. Silence'
    BY <2>1 DEF Silence
  <2> QED
    BY <2>4, <2>5, <2>6 DEF Courtship, Stage
<1>3. CASE c = 1
  <2>1. /\ \/ call'[1] = NewCall("peer", <<>>) \/ call'[1] = call[1]
        /\ call'[2] = call[2]
    BY <1>1, <1>3, TheTwo DEF CallPeer, CreatePeer
  <2>2. call'[1].ops = <<>> /\ call'[1].offered = NoSdp
    BY <1>3, <2>1 DEF NewCall, Calm, Courtship, OneOffers
  <2>3. OneOffers'
    BY <1>1, <2>1, <2>2 DEF Calm, Courtship, OneOffers, SameSignals
  <2>4. CalledOnce'
    BY <1>3, <2>1 DEF Calm, Courtship, CalledOnce, Open
  <2>5. \A k \in Signals, d \in {1, 2} :
          /\ Has(up'[d], {k}) <=> Has(up[d], {k})
          /\ Has(down'[d], {k}) <=> Has(down[d], {k})
          /\ Once(up[d], {k}) => Once(up'[d], {k})
          /\ Once(down[d], {k}) => Once(down'[d], {k})
    BY <1>1 DEF SameSignals
  <2>6. OfferSent => OfferSent'
    BY <1>1, <1>3, <2>1, <2>2, <2>5 DEF OfferSent, Open
  <2>7. Silence => Silence'
    BY DEF Silence
  <2>8. Silence \/ OfferSent
    BY <1>3 DEF Calm, Courtship, Stage, AnswerSent, AnswerRelayed, AnswerArrived, Agreed
  <2> QED
    BY <2>3, <2>4, <2>6, <2>7, <2>8 DEF Courtship, Stage
<1> QED
  BY <1>2, <1>3, TheTwo

LEMMA PeerFacts ==
    ASSUME Calm, NEW c \in Client, CallPeer(c)
    PROVE  \A d \in Client : call'[d].target # "self" /\ call'[d].conn \in {"new", "connected"}
<1>1. PICK r : r = NewCall("peer", IF Offers(c) THEN <<Offer>> ELSE <<>>)
  OBVIOUS
<1>2. r.target # "self" /\ r.conn = "new"
  BY <1>1, NewCallFacts
<1>3. call' = [call EXCEPT ![c] = r] \/ call' = call
  BY <1>1 DEF CallPeer, CreatePeer
<1> QED
  BY <1>2, <1>3, CalmFacts

LEMMA CalmOnPeerJoined ==
    ASSUME Calm, NEW c \in Client, Receiving(c), OnPeerJoined(c, Head(down[c]))
    PROVE  Meeting' /\ Courtship'
<1> DEFINE x == IF view[c].peer = "absent" THEN "online" ELSE view[c].peer
<1>1. /\ Head(down[c]).type = "peer-joined" /\ Entry(c, x) /\ pending' = pending
      /\ (hook[c] = "ready" /\ CallPeer(c)) \/ call' = call
  BY DEF OnPeerJoined
<1>2. x \in Entered
  BY CalmFacts DEF Entered
<1> HIDE DEF x
<1>3. /\ down[c] \in Seq(DownEvent) /\ down[c] # <<>> /\ down'[c] = Tail(down[c])
      /\ \A d \in Client : d # c => down'[d] = down[d]
      /\ UNCHANGED <<joiner, seated, link, up, made>>
  BY ReceivingFacts, Peers, ZenonT(60) DEF Calm, Receiving
<1>4. Has(down[c], {"peer-joined"}) /\ Has(down[c], Turns) /\ Has(down[c], Turns \cup Moods)
  BY <1>1, <1>3, HasTaken DEF Turns
<1>5. c = Creator /\ c # joiner /\ seated[joiner] /\ hook[c] # "away"
      /\ Once(down[c], {"peer-joined"})
  BY <1>4, Meet DEF Calm, Meeting
<1>6. /\ view'[c].room = view[c].room /\ view'[c].self = view[c].self
      /\ \A d \in Client : d # c => view'[d] = view[d]
  BY <1>1, <1>2, EntryFacts, Peers DEF Calm, CallInv
<1>7. Meeting'
  <2>1. \A d \in Client : call'[d].target # "self" /\ call'[d].conn \in {"new", "connected"}
    BY <1>1, PeerFacts, CalmFacts
  <2>2. \A d \in Client : view'[d].room = view[d].room /\ view'[d].self = view[d].self
    BY <1>6
  <2>3. view'[joiner].peer = view[joiner].peer
    BY <1>5, <1>6, Meet DEF Calm
  <2> QED
    BY <1>1, <1>5, <2>1, <2>2, <2>3, CalmHeard
<1>8. CASE call' = call
  BY <1>1, <1>7, <1>8, CalmUnsigned DEF Signals
<1>9. CASE hook[c] = "ready" /\ CallPeer(c)
  <2>1. \A d \in Client : SameSignals(up[d], up'[d]) /\ SameSignals(down[d], down'[d])
    BY <1>1, <1>3, SignalsSame, SignalsTaken DEF Signals
  <2>2. ASSUME c = 2
        PROVE  ~Open(2) /\ (joiner = 1 => seated'[1] /\ ~Has(down'[2], {"peer-joined"}))
    <3>1. joiner = 1
      BY <1>5, <2>2, TheTwo DEF Calm, CallInv, TypesOK
    <3>2. ~Open(2)
      BY <1>4, <2>2, <3>1 DEF Calm, Courtship, CalledOnce
    <3>3. ~Has(down'[2], {"peer-joined"})
      BY <1>1, <1>3, <1>5, <2>2, HasTaken
    <3> QED
      BY <1>3, <1>5, <3>1, <3>2, <3>3
  <2>3. ASSUME c = 1
        PROVE  call[1].ops = <<>> /\ ~Answered /\ joiner # 1
    <3>1. joiner = 2 /\ seated[2] /\ joiner # 1
      BY <1>5, <2>3, TheTwo DEF Calm, CallInv, TypesOK
    <3>2. HeldBy(2) \cap Known(1) = {}
      BY <1>4, <2>3, <3>1, TheTwo, CalmFacts DEF ClientInv, FreshAfterTurn
    <3>3. TheOffer # NoSdp
      BY NoSdpIsNone DEF TheOffer
    <3>4. ~Answered
      <4> SUFFICES ASSUME Answered PROVE FALSE
        OBVIOUS
      <4>1. TheOffer \in Known(1)
        BY DEF Answered, Known
      <4>2. call[2].offered = TheOffer \/ call[2].local = TheOffer
        <5>1. Awaited \/ call[2].local = TheOffer
          BY DEF Calm, Courtship, Stage, Silence, OfferSent, Answered, AnswerSent, AnswerRelayed,
                 AnswerArrived, Agreed
        <5> QED
          BY <5>1 DEF Awaited
      <4> QED
        BY <3>2, <3>3, <4>1, <4>2 DEF HeldBy
    <3>5. Silence \/ OfferSent
      BY <3>4 DEF Calm, Courtship, Stage, AnswerSent, AnswerRelayed, AnswerArrived, Agreed
    <3>6. call[1].ops # <<ToAnswer>>
      <4> SUFFICES ASSUME call[1].ops = <<ToAnswer>> PROVE FALSE
        OBVIOUS
      <4>1. call[1].ops[1] = ToAnswer /\ Len(call[1].ops) = 1
        OBVIOUS
      <4>2. ToAnswer.op = "answer" /\ ToAnswer.sdp = TheOffer
        BY DEF ToAnswer, Op
      <4>3. ~Silence
        <5> SUFFICES ASSUME Silence PROVE FALSE
          OBVIOUS
        <5>1. \A i \in 1..Len(call[1].ops) : call[1].ops[i].op = "offer"
          BY NoneMade, TheTwo DEF Calm, Silence
        <5> QED
          BY <4>1, <4>2, <5>1
      <4>4. call[2].offered = TheOffer
        BY <3>5, <4>3 DEF OfferSent
      <4>5. TheOffer \in Known(1)
        BY <4>1, <4>2 DEF Known
      <4> QED
        BY <3>2, <3>3, <4>4, <4>5 DEF HeldBy
    <3> QED
      BY <3>1, <3>4, <3>6 DEF Calm, Courtship, OneOffers
  <2>4. Courtship'
    BY <1>1, <1>3, <1>9, <2>1, <2>2, <2>3, CalmCallsPeer
  <2> QED
    BY <1>7, <2>4
<1> QED
  BY <1>1, <1>8, <1>9

(* Client 1 hears the offer.                                               *)
LEMMA CalmOnOffer ==
    ASSUME Calm, NEW c \in Client, Receiving(c), OnOffer(c, Head(down[c]))
    PROVE  Meeting' /\ Courtship'
<1> DEFINE h == Head(down[c])
           answer == Op("answer", h.sdp, NoSdp)
<1>1. /\ h.type = "offer" /\ view' = view
      /\ pending' = [pending EXCEPT ![c] = IF hook[c] \in {"acquiring", "denied"} THEN h.sdp ELSE @]
      /\ \/ hook[c] # "ready" /\ call' = call
         \/ /\ hook[c] = "ready" /\ call[c].target = "peer"
            /\ call' = [call EXCEPT ![c].ops = Append(@, answer)]
         \/ hook[c] = "ready" /\ CreatePeer(c, "peer", <<answer>>)
  BY DEF OnOffer
<1>2. /\ down[c] \in Seq(DownEvent) /\ down[c] # <<>> /\ down'[c] = Tail(down[c])
      /\ \A d \in Client : d # c => down'[d] = down[d]
      /\ UNCHANGED <<joiner, seated, up, made, hook>> /\ h \in Heard(c)
  BY ReceivingFacts, Peers, ZenonT(60) DEF Calm, Receiving
<1>3. Has(down[c], {"offer"}) /\ Has(down[c], Signals)
  BY <1>1, <1>2, HasTaken DEF Signals
<1>4. c = 1
  BY <1>3, TheTwo DEF Calm, Courtship, OneOffers
<1>5. /\ OfferSent /\ Once(down[1], {"offer"}) /\ ~Has(up[2], {"offer"})
      /\ pending[1] = NoSdp /\ call[1].ops = <<>>
  <2>1. ~Silence
    BY <1>3, <1>4, NoneMade, TheTwo DEF Silence, Calm
  <2>2. ~Answered
    BY <1>3, <1>4 DEF Answered
  <2> QED
    BY <1>3, <1>4, <2>1, <2>2
       DEF Calm, Courtship, Stage, OfferSent, AnswerSent, AnswerRelayed, AnswerArrived, Agreed
<1>6. h.sdp = TheOffer /\ answer = ToAnswer
  <2>1. h.sdp \in Ours(2)
    BY <1>1, <1>2, <1>4, TheTwo DEF Heard, Signals
  <2> QED
    BY <1>5, <2>1, OneMade, TheTwo DEF OfferSent, TheOffer, ToAnswer
<1> HIDE DEF h, answer
<1>7. /\ ~Has(down'[1], {"offer"}) /\ (Has(down'[1], {"answer"}) => Has(down[1], {"answer"}))
  BY <1>1, <1>2, <1>4, <1>5, HasTaken DEF h
<1>8. /\ pending'[2] = pending[2]
      /\ pending'[1] = NoSdp \/ (pending'[1] = TheOffer /\ hook[1] # "ready")
  BY <1>1, <1>4, <1>5, <1>6, TheTwo, CalmFacts
<1>9. PICK r : /\ r \in {call[1], [call[1] EXCEPT !.ops = <<ToAnswer>>], NewCall("peer", <<ToAnswer>>)}
               /\ call' = [call EXCEPT ![1] = r]
               /\ hook[1] # "ready" => r = call[1]
  <2>1. call = [call EXCEPT ![1] = call[1]]
    BY TheTwo, CalmFacts
  <2>2. CASE hook[c] # "ready" /\ call' = call
    BY <1>4, <2>1, <2>2
  <2>3. CASE /\ hook[c] = "ready" /\ call[c].target = "peer"
             /\ call' = [call EXCEPT ![c].ops = Append(@, answer)]
    <3>1. Append(call[1].ops, answer) = <<ToAnswer>>
      BY <1>5, <1>6
    <3> QED
      BY <1>4, <2>3, <3>1
  <2>4. CASE hook[c] = "ready" /\ CreatePeer(c, "peer", <<answer>>)
    BY <1>4, <1>6, <2>1, <2>4 DEF CreatePeer
  <2> QED
    BY <1>1, <2>2, <2>3, <2>4
<1>10. /\ r.target # "self" /\ r.conn \in {"new", "connected"} /\ r.offered = NoSdp
       /\ r.ops = <<>> \/ (r.ops = <<ToAnswer>> /\ hook[1] = "ready")
  <2>1. call[1] \in CallState /\ call[1].target # "self" /\ call[1].conn \in {"new", "connected"}
        /\ call[1].offered = NoSdp
    BY TheTwo, CalmFacts DEF Calm, Courtship, OneOffers
  <2>2. CASE r = call[1]
    BY <1>5, <2>1, <2>2
  <2>3. CASE r = [call[1] EXCEPT !.ops = <<ToAnswer>>]
    BY <1>5, <1>9, <2>1, <2>3 DEF CallState
  <2>4. CASE r = NewCall("peer", <<ToAnswer>>)
    <3>1. /\ r.target = "peer" /\ r.conn = "new" /\ r.offered = NoSdp /\ r.ops = <<ToAnswer>>
      BY <2>4, NewCallFacts
    <3> QED
      BY <1>5, <1>9, <2>4, <3>1
  <2> QED
    BY <1>9, <2>2, <2>3, <2>4
<1>11. call'[1] = r /\ call'[2] = call[2]
  BY <1>9, TheTwo, CalmFacts
<1>12. Meeting'
  <2>1. \A d \in Client : call'[d].target # "self" /\ call'[d].conn \in {"new", "connected"}
    BY <1>10, <1>11, TheTwo, CalmFacts
  <2> QED
    BY <1>1, <2>1, CalmHeard DEF h
<1>13. OneOffers'
  BY <1>2, <1>4, <1>7, <1>8, <1>10, <1>11, TheTwo DEF Calm, Courtship, OneOffers
<1>14. CalledOnce'
  BY <1>2, <1>4, <1>11, TheTwo DEF Calm, Courtship, CalledOnce, Open
<1>15. OfferSent'
  BY <1>2, <1>5, <1>7, <1>8, <1>10, <1>11 DEF OfferSent, Open
<1> QED
  BY <1>12, <1>13, <1>14, <1>15 DEF Courtship, Stage

(* Client 2 hears the answer.                                              *)
LEMMA CalmOnAnswer ==
    ASSUME Calm, NEW c \in Client, Receiving(c), OnAnswer(c, Head(down[c]))
    PROVE  Meeting' /\ Courtship'
<1> DEFINE h == Head(down[c])
           accept == Op("accept", h.sdp, h.re)
<1>1. /\ h.type = "answer" /\ view' = view /\ pending' = pending
      /\ call' = IF hook[c] # "away" /\ Open(c)
                 THEN [call EXCEPT ![c].ops = Append(@, accept)] ELSE call
  BY DEF OnAnswer
<1>2. /\ down[c] \in Seq(DownEvent) /\ down[c] # <<>> /\ down'[c] = Tail(down[c])
      /\ \A d \in Client : d # c => down'[d] = down[d]
      /\ UNCHANGED <<joiner, seated, up, made, hook>> /\ h \in Heard(c)
  BY ReceivingFacts, Peers DEF Calm, Receiving
<1>3. Has(down[c], {"answer"}) /\ Has(down[c], Signals)
  BY <1>1, <1>2, HasTaken DEF Signals
<1>4. c = 2
  BY <1>3, TheTwo DEF Calm, Courtship, OneOffers
<1>5. AnswerRelayed
  <2>1. made[1] # 0
    BY <1>3, <1>4, NoneMade, TheTwo DEF Calm
  <2> QED
    BY <1>3, <1>4, <2>1
       DEF Calm, Courtship, Stage, Silence, OfferSent, AnswerSent, AnswerArrived, Agreed
<1>6. accept = ToAccept
  <2>1. h.sdp \in Ours(1)
    BY <1>1, <1>2, <1>4, TheTwo DEF Heard, Signals
  <2>2. h.sdp = TheAnswer
    BY <1>5, <2>1, OneMade, TheTwo DEF AnswerRelayed, Answered, TheAnswer
  <2>3. down[2] \in Seq(Replies)
    BY DEF Calm, Courtship, OneOffers
  <2>4. h \in Replies
    BY <1>2, <1>4, <2>3
  <2>5. h.re = TheOffer
    BY <1>1, <2>4 DEF Replies
  <2> QED
    BY <2>2, <2>5 DEF ToAccept
<1> HIDE DEF h, accept
<1>7. /\ ~Has(down'[2], {"answer"}) /\ (Has(down'[2], {"offer"}) => Has(down[2], {"offer"}))
      /\ Has(down'[2], {"peer-joined"}) => Has(down[2], {"peer-joined"})
      /\ down'[2] \in Seq(Replies)
  <2>1. /\ ~Has(down'[2], {"answer"}) /\ (Has(down'[2], {"offer"}) => Has(down[2], {"offer"}))
        /\ Has(down'[2], {"peer-joined"}) => Has(down[2], {"peer-joined"})
    BY <1>1, <1>2, <1>4, <1>5, HasTaken DEF AnswerRelayed, h
  <2>2. down[2] \in Seq(Replies)
    BY DEF Calm, Courtship, OneOffers
  <2>3. Tail(down[2]) \in Seq(Replies)
    BY <1>2, <1>4, <2>2
  <2> QED
    BY <1>2, <1>4, <2>1, <2>3
<1>8. /\ call'[1] = call[1] /\ call'[2].ops = <<ToAccept>>
      /\ call'[2].target = call[2].target /\ call'[2].conn = call[2].conn
      /\ call'[2].offered = call[2].offered /\ call'[2].remote = call[2].remote
  <2>1. Open(2) /\ hook[2] # "away" /\ call[2].ops = <<>>
    BY <1>5, Mounted, TheTwo DEF AnswerRelayed, Answered
  <2>2. call' = [call EXCEPT ![2].ops = <<ToAccept>>]
    <3>1. Append(call[2].ops, accept) = <<ToAccept>>
      BY <1>6, <2>1
    <3> QED
      BY <1>1, <1>4, <2>1, <3>1
  <2> QED
    BY <2>2, TheTwo, CalmFacts, SMTT(30) DEF CallState
<1>9. Meeting'
  <2>1. \A d \in Client : call'[d].target # "self" /\ call'[d].conn \in {"new", "connected"}
    BY <1>8, TheTwo, CalmFacts, ZenonT(60)
  <2> QED
    BY <1>1, <2>1, CalmHeard DEF h
<1>10. OneOffers'
  BY <1>1, <1>2, <1>4, <1>7, <1>8, TheTwo DEF Calm, Courtship, OneOffers
<1>11. CalledOnce'
  BY <1>2, <1>4, <1>7, <1>8, TheTwo DEF Calm, Courtship, CalledOnce, Open
<1>12. AnswerArrived'
  BY <1>1, <1>2, <1>4, <1>5, <1>7, <1>8, TheTwo
     DEF AnswerRelayed, AnswerArrived, Answered, Awaited, Open
<1> QED
  BY <1>9, <1>10, <1>11, <1>12 DEF Courtship, Stage

LEMMA CalmReceive ==
    ASSUME Calm, NEW c \in Client, Receive(c)
    PROVE  Meeting' /\ Courtship'
<1>1. Receiving(c)
  BY DEF Receive, Receiving, serverVars, counts
<1>2. \/ OnMediaState(c, Head(down[c])) \/ OnPeerLeft(c, Head(down[c]))
      \/ Head(down[c]).type = "room" /\ OnAnswerOfRoom(c, Head(down[c]))
      \/ OnPeerJoined(c, Head(down[c])) \/ OnPeerDisconnected(c, Head(down[c]))
      \/ OnPeerReconnected(c, Head(down[c]))
      \/ OnOffer(c, Head(down[c])) \/ OnAnswer(c, Head(down[c]))
  BY DEF Receive
<1>3. Head(down[c]).type \notin {"peer-left"} \cup Moods
  <2> SUFFICES ASSUME Head(down[c]).type \in {"peer-left"} \cup Moods PROVE FALSE
    OBVIOUS
  <2>1. down[c] \in Seq(DownEvent) /\ down[c] # <<>>
    BY <1>1, CalmFacts DEF Receiving
  <2>2. Has(down[c], Turns \cup Moods) /\ Has(down[c], {"room", "peer-left"} \cup Moods)
    BY <2>1, HasTaken DEF Turns
  <2> QED
    BY <2>2, Meet DEF Calm, Meeting
<1>4. /\ ~OnPeerLeft(c, Head(down[c])) /\ ~OnPeerDisconnected(c, Head(down[c]))
      /\ ~OnPeerReconnected(c, Head(down[c]))
  BY <1>3 DEF OnPeerLeft, OnPeerDisconnected, OnPeerReconnected, Moods
<1> QED
  BY <1>1, <1>2, <1>4, CalmOnMediaState, CalmOnAnswerOfRoom, CalmOnPeerJoined, CalmOnOffer,
     CalmOnAnswer

-----------------------------------------------------------------------------
(* As long as nothing breaks: media comes, and operations are done.        *)
LEMMA CalmMediaReady ==
    ASSUME Calm, NEW c \in Client, MediaReady(c)
    PROVE  Meeting' /\ Courtship'
<1> DEFINE answer == Op("answer", pending[c], NoSdp)
<1>1. /\ hook[c] = "acquiring" /\ hook' = [hook EXCEPT ![c] = "ready"]
      /\ pending' = [pending EXCEPT ![c] = NoSdp]
      /\ \/ pending[c] # NoSdp /\ CreatePeer(c, "peer", <<answer>>)
         \/ pending[c] = NoSdp /\ found[c] = "peer" /\ CallPeer(c)
         \/ found[c] = "self"
         \/ pending[c] = NoSdp /\ call' = call
      /\ UNCHANGED <<joiner, seated, link, up, down, view, found, made>>
  BY DEF MediaReady, serverVars, wireVars
<1>2. /\ call[c] = NoCall /\ ~Open(c) /\ view[c].room /\ seated[c] /\ found[c] # "self"
      /\ c = Creator => found[c] = "nobody"
      /\ c = joiner => hook[Creator] # "away"
  <2>1. call[c] = NoCall /\ ~Open(c)
    BY <1>1, NoRoomNoCall DEF Calm
  <2>2. found[c] # "self" /\ (c = Creator => found[c] = "nobody")
    BY <1>1, Meet DEF Calm, Meeting
  <2> QED
    BY <1>1, <2>1, <2>2, Mounted
<1>3. /\ \A d \in Client : /\ Tame(up[d], up'[d]) /\ Tame(down[d], down'[d])
                           /\ SameSignals(up[d], up'[d]) /\ SameSignals(down[d], down'[d])
                           /\ hook'[d] = "away" <=> hook[d] = "away"
      /\ hook[Creator] = "away" => up'[joiner] = <<>>
  <2>1. hook[Creator] = "away" => up[joiner] = <<>>
    BY DEF Calm, Meeting
  <2> QED
    BY <1>1, <2>1, TameSame, SignalsSame, CalmFacts
<1>4. (\A d \in Client : call'[d].target # "self" /\ call'[d].conn \in {"new", "connected"})
        => Meeting'
  BY <1>1, <1>3, MeetingFrame DEF Calm
<1>5. pending[c] = NoSdp => pending' = pending
  BY <1>1, CalmFacts
<1>6. CASE pending[c] # NoSdp /\ CreatePeer(c, "peer", <<answer>>)
  <2>1. c = 1
    BY <1>6, TheTwo DEF Calm, Courtship, OneOffers
  <2>2. OfferSent
    <3>1. ~Silence
      BY <1>6, <2>1, NoneMade, TheTwo DEF Calm, Silence
    <3>2. ~Answered
      BY <1>6, <2>1 DEF Answered
    <3> QED
      BY <3>1, <3>2 DEF Calm, Courtship, Stage, AnswerSent, AnswerRelayed, AnswerArrived, Agreed
  <2>3. pending[1] = TheOffer
    <3>1. pending[1] \in Ours(2)
      BY <1>6, <2>1, TheTwo, CalmFacts DEF ClientInv, Owned
    <3> QED
      BY <2>2, <3>1, OneMade, TheTwo DEF OfferSent, TheOffer
  <2>4. answer = ToAnswer
    BY <2>1, <2>3 DEF ToAnswer
  <2> HIDE DEF answer
  <2>5. PICK r : r = NewCall("peer", <<ToAnswer>>)
    OBVIOUS
  <2>6. r.target = "peer" /\ r.conn = "new" /\ r.offered = NoSdp /\ r.ops = <<ToAnswer>>
    BY <2>5, NewCallFacts
  <2>7. call'[1] = r /\ call'[2] = call[2] /\ pending'[1] = NoSdp /\ pending'[2] = pending[2]
    BY <1>1, <1>2, <1>6, <2>1, <2>4, <2>5, TheTwo, CalmFacts DEF CreatePeer
  <2>8. Meeting'
    BY <1>4, <2>6, <2>7, TheTwo, CalmFacts, ZenonT(60)
  <2>9. OneOffers'
    BY <1>1, <2>6, <2>7, TheTwo DEF Calm, Courtship, OneOffers
  <2>10. CalledOnce'
    BY <1>1, <2>7, TheTwo DEF Calm, Courtship, CalledOnce, Open
  <2>11. ~Has(up[2], {"offer"}) /\ ~Has(down[1], {"offer"})
    BY <1>6, <2>1, <2>2 DEF OfferSent
  <2>12. OfferSent'
    BY <1>1, <2>2, <2>6, <2>7, <2>11 DEF OfferSent, Open
  <2> QED
    BY <2>8, <2>9, <2>10, <2>12 DEF Courtship, Stage
<1>7. CASE pending[c] = NoSdp /\ found[c] = "peer" /\ CallPeer(c)
  <2>1. c = joiner /\ c # Creator
    BY <1>2, <1>7, Meet DEF Calm
  <2>2. Meeting'
    BY <1>4, <1>7, PeerFacts
  <2>3. c = 1 => call[1].ops = <<>> /\ ~Answered
    BY <1>2, NoCallFacts DEF Answered
  <2>4. c = 1 => seated'[1] /\ (Has(down'[2], {"peer-joined"}) => Has(down[2], {"peer-joined"}))
    BY <1>1, <1>2
  <2>5. ~(c = 2 /\ joiner = 1)
    BY <2>1
  <2>6. Courtship'
    BY <1>1, <1>2, <1>3, <1>5, <1>7, <2>3, <2>4, <2>5, CalmCallsPeer
  <2> QED
    BY <2>2, <2>6
<1>8. CASE pending[c] = NoSdp /\ call' = call
  <2>1. Meeting'
    BY <1>4, <1>8, CalmFacts
  <2>2. Has(down'[2], {"peer-joined"}) => Has(down[2], {"peer-joined"})
    BY <1>1
  <2>3. Courtship'
    BY <1>1, <1>3, <1>5, <1>8, <2>2, CourtshipFrame, TheTwo, CalmFacts DEF Calm
  <2> QED
    BY <2>1, <2>3
<1> QED
  BY <1>1, <1>2, <1>6, <1>7, <1>8

LEMMA CalmOperated ==
    ASSUME Calm, NEW c \in Client, Operate(c),
           NEW e \in DownEvent, e.type \in Signals,
           up' = up \/ up' = [up EXCEPT ![c] = Append(@, e)],
           \A d \in Client : call'[d].target # "self" /\ call'[d].conn \in {"new", "connected"}
    PROVE  Meeting'
<1>1. /\ call[c].ops # <<>>
      /\ UNCHANGED <<joiner, seated, link, down, view, hook, found, pending>>
  BY DEF Operate, serverVars, hookVars
<1>2. Open(c)
  BY <1>1, NoCallFacts, CalmFacts DEF ClientInv, CallFits
<1>3. /\ up'[c] = up[c] \/ up'[c] = Append(up[c], e)
      /\ \A d \in Client : d # c => up'[d] = up[d]
      /\ up[c] \in Seq(UpEvent)
  BY CalmFacts
<1>4. \A d \in Client : Tame(up[d], up'[d]) /\ Tame(down[d], down'[d])
  <2>1. e.type \notin Joining
    BY DEF Signals, Joining, Asks, Turns, Moods
  <2>2. Tame(up[c], Append(up[c], e))
    BY <1>3, <2>1, TameAppended
  <2> QED
    BY <1>1, <1>3, <2>2, TameSame
<1>5. hook[Creator] = "away" => up'[joiner] = <<>>
  <2> SUFFICES ASSUME hook[Creator] = "away" PROVE up'[joiner] = <<>>
    OBVIOUS
  <2>1. c # joiner
    BY <1>2, Mounted
  <2> QED
    BY <1>3, <2>1, Meet DEF Calm, Meeting
<1> QED
  BY <1>1, <1>4, <1>5, MeetingFrame, CalmFacts DEF Calm

LEMMA CalmMakeOffer ==
    ASSUME Calm, NEW c \in Client, Operate(c), MakeOffer(c)
    PROVE  Meeting' /\ Courtship'
<1> DEFINE e == Event("offer", <<c, made'[c]>>, NoSdp, "absent")
<1>1. /\ call[c].ops # <<>> /\ Head(call[c].ops).op = "offer"
      /\ made' = [made EXCEPT ![c] = @ + 1]
      /\ call' = [call EXCEPT ![c].ops = Tail(@), ![c].offered = <<c, made'[c]>>]
      /\ up' = [up EXCEPT ![c] = Append(@, e)]
      /\ UNCHANGED <<joiner, seated, link, down, view, hook, found, pending>>
  BY DEF Operate, MakeOffer, Emit, serverVars, hookVars
<1>2. c = 2 /\ call[2].ops = <<Offer>>
  <2>1. ToAnswer.op = "answer" /\ ToAccept.op = "accept"
    BY DEF ToAnswer, ToAccept, Op
  <2> QED
    BY <1>1, <2>1, TheTwo DEF Calm, Courtship, OneOffers
<1>3. Silence
  <2>1. <<Offer>> # <<>> /\ Offer # ToAccept
    BY DEF Offer, ToAccept, Op
  <2> QED
    BY <1>2, <2>1 DEF Calm, Courtship, Stage, OfferSent, AnswerSent, AnswerRelayed, AnswerArrived,
       Agreed
<1>4. /\ pending[1] = NoSdp /\ ~Has(up[2], Signals) /\ ~Has(down[1], Signals)
      /\ \A i \in 1..Len(call[1].ops) : call[1].ops[i].op = "offer"
  BY <1>3, NoneMade, TheTwo DEF Calm, Silence
<1>5. call[1].ops = <<>>
  <2> SUFFICES ASSUME call[1].ops = <<ToAnswer>> PROVE FALSE
    BY DEF Calm, Courtship, OneOffers
  <2>1. 1 \in 1..Len(call[1].ops) /\ call[1].ops[1] = ToAnswer
    OBVIOUS
  <2>2. ToAnswer.op # "offer"
    BY DEF ToAnswer, Op
  <2> QED
    BY <1>4, <2>1, <2>2
<1>6. ~Has(up[2], {"offer"}) /\ ~Has(up[2], {"answer"}) /\ ~Has(down[1], {"offer"})
  BY <1>4, HasMore DEF Signals
<1>7. /\ made'[1] = 0 /\ made'[2] = 1 /\ <<2, made'[2]>> = TheOffer
  BY <1>1, <1>2, <1>3, TheTwo, CalmFacts DEF Silence, TheOffer
<1>8. /\ e \in UpEvent /\ e \in DownEvent /\ e.type = "offer"
  BY <1>2, <1>7, TheTwo, NoSdpIsNone DEF Event, UpEvent, DownEvent, Signals, Entered, Sdp
<1> HIDE DEF e
<1>9. /\ up'[1] = up[1] /\ up'[2] = Append(up[2], e) /\ up[2] \in Seq(UpEvent)
  BY <1>1, <1>2, TheTwo, CalmFacts
<1>10. /\ call'[1] = call[1] /\ call'[2].ops = <<>> /\ call'[2].offered = TheOffer
       /\ call'[2].target = call[2].target /\ call'[2].conn = call[2].conn
  BY <1>1, <1>2, <1>7, TheTwo, CalmFacts DEF CallState
<1>11. Once(up'[2], {"offer"}) /\ ~Has(up'[2], {"answer"})
  BY <1>6, <1>8, <1>9, OnceNone, OnceAppended, HasAppended
<1>12. Open(2)
  BY <1>1, <1>2, TheTwo, NoCallFacts, CalmFacts DEF ClientInv, CallFits
<1>13. Meeting'
  <2>1. \A d \in Client : call'[d].target # "self" /\ call'[d].conn \in {"new", "connected"}
    BY <1>10, TheTwo, CalmFacts, ZenonT(60)
  <2> QED
    BY <1>1, <1>8, <2>1, CalmOperated DEF Signals
<1>14. OneOffers'
  BY <1>1, <1>9, <1>10, <1>11 DEF Calm, Courtship, OneOffers
<1>15. CalledOnce'
  BY <1>1, <1>10 DEF Calm, Courtship, CalledOnce, Open
<1>16. OfferSent'
  BY <1>1, <1>4, <1>5, <1>6, <1>7, <1>10, <1>11, <1>12 DEF OfferSent, Open
<1> QED
  BY <1>13, <1>14, <1>15, <1>16 DEF Courtship, Stage

LEMMA CalmMakeAnswer ==
    ASSUME Calm, NEW c \in Client, Operate(c), MakeAnswer(c)
    PROVE  Meeting' /\ Courtship'
<1> DEFINE e == Event("answer", <<c, made'[c]>>, Head(call[c].ops).sdp, "absent")
           x == [call[c] EXCEPT !.ops = Tail(call[c].ops), !.offered = NoSdp,
                                !.remote = Head(call[c].ops).sdp, !.local = <<c, made'[c]>>]
           r == Renewed(x)
<1>1. /\ call[c].ops # <<>> /\ Head(call[c].ops).op = "answer"
      /\ made' = [made EXCEPT ![c] = @ + 1]
      /\ call' = [call EXCEPT ![c] = r]
      /\ up' = [up EXCEPT ![c] = Append(@, e)]
      /\ UNCHANGED <<joiner, seated, link, down, view, hook, found, pending>>
  BY DEF Operate, MakeAnswer, Emit, serverVars, hookVars
<1>2. c = 1 /\ call[1].ops = <<ToAnswer>>
  <2>1. Offer.op = "offer" /\ ToAccept.op = "accept"
    BY DEF Offer, ToAccept, Op
  <2> QED
    BY <1>1, <2>1, TheTwo DEF Calm, Courtship, OneOffers
<1>3. Head(call[1].ops).sdp = TheOffer /\ Tail(call[1].ops) = <<>> /\ call[1].ops # <<>>
  <2>1. ToAnswer.sdp = TheOffer
    BY DEF ToAnswer, Op
  <2> QED
    BY <1>2, <2>1
<1>4. OfferSent /\ pending[1] = NoSdp /\ ~Has(up[2], {"offer"}) /\ ~Has(down[1], {"offer"})
  <2>1. ~Silence
    <3> SUFFICES ASSUME Silence PROVE FALSE
      OBVIOUS
    <3>1. \A i \in 1..Len(call[1].ops) : call[1].ops[i].op = "offer"
      BY NoneMade, TheTwo DEF Calm, Silence
    <3>2. 1 \in 1..Len(call[1].ops) /\ call[1].ops[1] = ToAnswer
      BY <1>2
    <3> QED
      BY <3>1, <3>2 DEF ToAnswer, Op
  <2>2. ~Answered
    BY <1>3 DEF Answered
  <2>3. OfferSent
    BY <2>1, <2>2 DEF Calm, Courtship, Stage, AnswerSent, AnswerRelayed, AnswerArrived, Agreed
  <2> QED
    BY <1>3, <2>3 DEF OfferSent
<1>5. /\ ~Has(up[1], {"answer"}) /\ ~Has(down[2], {"answer"}) /\ call[2].remote = NoSdp
  <2>1. ~Has(up[1], Signals) /\ ~Has(down[2], Signals) /\ call[2].remote = NoSdp
    BY <1>4, NoneMade, TheTwo DEF Calm, OfferSent
  <2> QED
    BY <2>1, HasMore DEF Signals
<1>6. made'[1] = 1 /\ made'[2] = 1 /\ <<1, made'[1]>> = TheAnswer
  BY <1>1, <1>2, <1>4, TheTwo, CalmFacts DEF OfferSent, TheAnswer
<1>7. /\ e \in UpEvent /\ e \in DownEvent /\ e.type = "answer" /\ e.re = TheOffer
  BY <1>2, <1>3, <1>6, TheTwo, NoSdpIsNone
     DEF Event, UpEvent, DownEvent, Signals, Entered, Sdp, TheOffer
<1>8. /\ x \in CallState /\ x.target = call[1].target /\ x.conn = call[1].conn
      /\ x.ops = <<>> /\ x.offered = NoSdp /\ x.remote = TheOffer /\ x.local = TheAnswer
  <2>1. TheOffer \in Sdp /\ TheAnswer \in Sdp /\ <<>> \in Seq(Operation)
    BY TheTwo DEF TheOffer, TheAnswer, Sdp
  <2>2. /\ call[c] \in CallState /\ call[c] = call[1] /\ Tail(call[c].ops) = <<>>
        /\ Head(call[c].ops).sdp = TheOffer /\ <<c, made'[c]>> = TheAnswer
    BY <1>2, <1>3, <1>6, CalmFacts
  <2> QED
    BY <2>1, <2>2, NoSdpIsNone DEF CallState
<1> HIDE DEF e, x
<1>9. /\ r.target = call[1].target /\ r.conn \in {call[1].conn, "new"}
      /\ r.ops = <<>> /\ r.offered = NoSdp /\ r.remote = TheOffer /\ r.local = TheAnswer
  BY <1>8, RenewedFacts
<1> HIDE DEF r
<1>10. call'[1] = r /\ call'[2] = call[2]
  BY <1>1, <1>2, TheTwo, CalmFacts
<1>11. /\ up'[2] = up[2] /\ up'[1] = Append(up[1], e) /\ up[1] \in Seq(UpEvent)
  BY <1>1, <1>2, TheTwo, CalmFacts
<1>12. /\ Has(up'[1], {"answer"}) /\ Once(up'[1], {"answer"})
       /\ Has(up'[1], {"offer"}) => Has(up[1], {"offer"})
       /\ up'[1] \in Seq(Replies)
  <2>1. /\ Has(up'[1], {"answer"}) /\ Once(up'[1], {"answer"})
        /\ Has(up'[1], {"offer"}) => Has(up[1], {"offer"})
    BY <1>5, <1>7, <1>11, OnceNone, OnceAppended, HasAppended
  <2>2. up[1] \in Seq(Replies) /\ e \in Replies
    BY <1>7 DEF Calm, Courtship, OneOffers, Replies
  <2> QED
    BY <1>11, <2>1, <2>2
<1>13. Open(1)
  BY <1>1, <1>2, TheTwo, NoCallFacts, CalmFacts DEF ClientInv, CallFits
<1>14. Meeting'
  <2>1. \A d \in Client : call'[d].target # "self" /\ call'[d].conn \in {"new", "connected"}
    <3>1. /\ call[1].target # "self" /\ call[1].conn \in {"new", "connected"}
          /\ call[2].target # "self" /\ call[2].conn \in {"new", "connected"}
      BY TheTwo, CalmFacts
    <3> QED
      BY <1>9, <1>10, <3>1, TheTwo
  <2> QED
    BY <1>1, <1>7, <2>1, CalmOperated DEF Signals
<1>15. OneOffers'
  BY <1>1, <1>9, <1>10, <1>11, <1>12 DEF Calm, Courtship, OneOffers
<1>16. CalledOnce'
  BY <1>1, <1>10 DEF Calm, Courtship, CalledOnce, Open
<1>17. AnswerSent'
  BY <1>1, <1>4, <1>5, <1>6, <1>9, <1>10, <1>11, <1>12, <1>13
     DEF OfferSent, AnswerSent, Answered, Awaited, Open
<1> QED
  BY <1>14, <1>15, <1>16, <1>17 DEF Courtship, Stage

LEMMA CalmAcceptAnswer ==
    ASSUME Calm, NEW c \in Client, Operate(c), AcceptAnswer(c)
    PROVE  Meeting' /\ Courtship'
<1> DEFINE x == [call[c] EXCEPT !.ops = Tail(call[c].ops), !.offered = NoSdp,
                                !.local = call[c].offered, !.remote = Head(call[c].ops).sdp]
           r == Renewed(x)
<1>1. /\ call[c].ops # <<>> /\ Head(call[c].ops).op = "accept"
      /\ call[c].offered # NoSdp => call' = [call EXCEPT ![c] = r]
      /\ UNCHANGED <<joiner, seated, link, up, down, view, hook, found, pending, made>>
  BY DEF Operate, AcceptAnswer, serverVars, hookVars
<1>2. c = 2 /\ call[2].ops = <<ToAccept>>
  <2>1. Offer.op = "offer" /\ ToAnswer.op = "answer"
    BY DEF Offer, ToAnswer, Op
  <2> QED
    BY <1>1, <2>1, TheTwo DEF Calm, Courtship, OneOffers
<1>3. Head(call[2].ops).sdp = TheAnswer /\ Tail(call[2].ops) = <<>> /\ call[2].ops # <<>>
  <2>1. ToAccept.sdp = TheAnswer
    BY DEF ToAccept, Op
  <2> QED
    BY <1>2, <2>1
<1>4. AnswerArrived
  <2>1. ~Silence
    <3> SUFFICES ASSUME Silence PROVE FALSE
      OBVIOUS
    <3>1. \A i \in 1..Len(call[2].ops) : call[2].ops[i].op = "offer"
      BY NoneMade, TheTwo DEF Calm, Silence
    <3>2. 1 \in 1..Len(call[2].ops) /\ call[2].ops[1] = ToAccept
      BY <1>2
    <3> QED
      BY <3>1, <3>2 DEF ToAccept, Op
  <2> QED
    BY <1>3, <2>1 DEF Calm, Courtship, Stage, OfferSent, AnswerSent, AnswerRelayed, Agreed
<1>5. call[2].offered = TheOffer /\ TheOffer # NoSdp
  BY <1>4, NoSdpIsNone DEF AnswerArrived, Awaited, TheOffer
<1>6. /\ x \in CallState /\ x.target = call[2].target /\ x.conn = call[2].conn
      /\ x.ops = <<>> /\ x.offered = NoSdp /\ x.remote = TheAnswer /\ x.local = TheOffer
  <2>1. TheOffer \in Sdp /\ TheAnswer \in Sdp /\ <<>> \in Seq(Operation)
    BY TheTwo DEF TheOffer, TheAnswer, Sdp
  <2>2. /\ call[c] \in CallState /\ call[c] = call[2] /\ Tail(call[c].ops) = <<>>
        /\ Head(call[c].ops).sdp = TheAnswer /\ call[c].offered = TheOffer
    BY <1>2, <1>3, <1>5, CalmFacts
  <2> QED
    BY <2>1, <2>2, NoSdpIsNone DEF CallState
<1> HIDE DEF x
<1>7. /\ r.target = call[2].target /\ r.conn \in {call[2].conn, "new"}
      /\ r.ops = <<>> /\ r.offered = NoSdp /\ r.remote = TheAnswer /\ r.local = TheOffer
  BY <1>6, RenewedFacts
<1> HIDE DEF r
<1>8. call'[2] = r /\ call'[1] = call[1]
  BY <1>1, <1>2, <1>5, TheTwo, CalmFacts
<1>9. Meeting'
  <2>1. \A d \in Client : call'[d].target # "self" /\ call'[d].conn \in {"new", "connected"}
    <3>1. /\ call[1].target # "self" /\ call[1].conn \in {"new", "connected"}
          /\ call[2].target # "self" /\ call[2].conn \in {"new", "connected"}
      BY TheTwo, CalmFacts
    <3> QED
      BY <1>7, <1>8, <3>1, TheTwo
  <2>2. PICK e \in DownEvent : e.type \in Signals
    <3>1. Event("offer", NoSdp, NoSdp, "absent") \in DownEvent
      BY NoSdpIsNone DEF Event, DownEvent, Signals, Entered
    <3> QED
      BY <3>1 DEF Event, Signals
  <2> QED
    BY <1>1, <2>1, <2>2, CalmOperated
<1>10. OneOffers'
  BY <1>1, <1>7, <1>8 DEF Calm, Courtship, OneOffers
<1>11. CalledOnce'
  BY <1>1, <1>7, <1>8 DEF Calm, Courtship, CalledOnce, Open
<1>12. Agreed'
  BY <1>1, <1>4, <1>7, <1>8 DEF AnswerArrived, Agreed, Answered, Open
<1> QED
  BY <1>9, <1>10, <1>11, <1>12 DEF Courtship, Stage

LEMMA CalmOperate ==
    ASSUME Calm, NEW c \in Client, Operate(c)
    PROVE  Meeting' /\ Courtship'
BY CalmMakeOffer, CalmMakeAnswer, CalmAcceptAnswer DEF Operate

-----------------------------------------------------------------------------
(* As long as nothing breaks: no path is given up.                         *)
LEMMA PathHolds ==
    ASSUME Calm, NEW c \in Client, call[c].remote # NoSdp, Settled
    PROVE  Linked(c)
<1>1. Answered
  <2>1. ~Silence
    BY NoneMade, TheTwo DEF Calm, Silence
  <2>2. ~OfferSent
    <3> SUFFICES ASSUME OfferSent PROVE FALSE
      OBVIOUS
    <3>1. call[2].remote = NoSdp /\ call[1].local = NoSdp
      BY NoneMade, TheTwo DEF Calm, OfferSent
    <3>2. call[1].remote = NoSdp
      BY <3>1, TheTwo, CalmFacts DEF ClientInv, CallFits
    <3> QED
      BY <3>1, <3>2, TheTwo
  <2> QED
    BY <2>1, <2>2 DEF Calm, Courtship, Stage, AnswerSent, AnswerRelayed, AnswerArrived, Agreed
<1>2. ~Has(up[1], {"answer"}) /\ ~Has(down[2], {"answer"}) /\ call[2].ops # <<ToAccept>>
  <2>1. \A d \in Client : DOMAIN up[d] = 1..Len(up[d]) /\ DOMAIN down[d] = 1..Len(down[d])
    BY CalmFacts
  <2>2. ~Has(up[1], {"answer"}) /\ ~Has(down[2], {"answer"})
    BY <2>1, TheTwo DEF Settled, Has
  <2>3. call[2].ops # <<ToAccept>>
    <3> SUFFICES ASSUME call[2].ops = <<ToAccept>> PROVE FALSE
      OBVIOUS
    <3>1. 1 \in DOMAIN call[2].ops /\ call[2].ops[1] = ToAccept
      OBVIOUS
    <3> QED
      BY <3>1, TheTwo DEF Settled, ToAccept, Op
  <2> QED
    BY <2>2, <2>3
<1>3. Agreed
  BY <1>1, <1>2 DEF Calm, Courtship, Stage, Silence, OfferSent, Answered, AnswerSent, AnswerRelayed,
     AnswerArrived
<1> QED
  BY <1>3, TheTwo, NoSdpIsNone DEF Agreed, Answered, Linked, TheOffer, TheAnswer

(* What ends the calm, ends it for good.                                   *)
LEMMA CalmBefore ==
    ASSUME CallInv, NEW c \in Client, Undisturbed',
           \/ AskToJoin(c) \/ Mount(c) \/ MediaReady(c) \/ MediaDenied(c)
           \/ Receive(c) \/ Operate(c) \/ Serve(c) \/ ToggleAudio(c)
           \/ Connect(c) \/ Disconnected(c) \/ Failed(c) \/ TimerFires(c)
           \/ Drop(c) \/ Reload(c) \/ Reconnect(c) \/ Expire(c) \/ Leave(c)
    PROVE  /\ Undisturbed /\ ~Drop(c) /\ ~Reload(c) /\ ~Leave(c)
           /\ Disconnected(c) \/ Failed(c) => ~Linked(c) /\ Settled
<1>1. outages \in Nat /\ losses \in Nat /\ outages' = 0 /\ losses' = 0
  BY DEF CallInv, TypesOK, Undisturbed
<1>2. ~Drop(c) /\ ~Reload(c) /\ ~Leave(c)
  BY <1>1 DEF Drop, Reload, Leave, Outage
<1>3. Disconnected(c) \/ Failed(c) => outages' = outages /\ losses' = losses /\ ~Linked(c) /\ Settled
  BY <1>1 DEF Disconnected, Failed, PathBreaks
<1>4. AskToJoin(c) \/ Mount(c) \/ MediaReady(c) \/ MediaDenied(c) \/ Receive(c) \/ Operate(c)
        => outages' = outages /\ losses' = losses
  BY DEF AskToJoin, Mount, MediaReady, MediaDenied, Receive, Operate, counts
<1>5. Serve(c) \/ ToggleAudio(c) \/ Connect(c) \/ TimerFires(c) \/ Reconnect(c) \/ Expire(c)
        => outages' = outages /\ losses' = losses
  BY DEF Serve, ToggleAudio, Connect, TimerFires, Reconnect, Expire, counts
<1> QED
  BY <1>1, <1>2, <1>3, <1>4, <1>5 DEF Undisturbed

LEMMA InitCalm == Init => CalmInv
<1> SUFFICES ASSUME Init PROVE Meeting /\ Courtship
  BY DEF CalmInv
<1>1. /\ CallInv /\ joiner \in Client /\ Creator \in Client /\ Creator # joiner
  BY InitHolds, Meet
<1>2. \A c \in Client : /\ up[c] = <<>> /\ down[c] = <<>> /\ call[c] = NoCall /\ link[c]
                        /\ pending[c] = NoSdp /\ made[c] = 0 /\ hook[c] = "away"
                        /\ (seated[c] <=> c # joiner) /\ (view[c].room <=> c # joiner)
                        /\ view[c].peer = "absent" /\ ~view[c].self
  BY DEF Init, NoView
<1>3. \A K : ~Has(<<>>, K) /\ Once(<<>>, K)
  BY Nothing
<1>4. Meeting
  <2>1. <<>> \in Seq(Welcome)
    OBVIOUS
  <2>2. \A c \in Client :
          link[c] /\ call[c].target # "self" /\ call[c].conn \in {"new", "connected"}
    BY <1>2, NoCallFacts
  <2>3. /\ down[joiner] = <<>> /\ down[Creator] = <<>> /\ up[joiner] = <<>> /\ up[Creator] = <<>>
        /\ hook[joiner] = "away" /\ hook[Creator] = "away" /\ ~seated[joiner] /\ seated[Creator]
        /\ ~view[joiner].room /\ view[Creator].room /\ ~view[Creator].self
        /\ view[Creator].peer = "absent"
    BY <1>1, <1>2
  <2> QED
    BY <1>3, <2>1, <2>2, <2>3 DEF Meeting
<1>5. OneOffers
  <2>1. <<>> \in Seq(Replies)
    OBVIOUS
  <2>2. \A c \in {1, 2} : /\ up[c] = <<>> /\ down[c] = <<>> /\ pending[c] = NoSdp
                          /\ call[c].offered = NoSdp /\ call[c].ops = <<>>
    BY <1>2, NoCallFacts, TheTwo
  <2> QED
    BY <1>3, <2>1, <2>2 DEF OneOffers
<1>6. CalledOnce
  BY <1>2, NoCallFacts, TheTwo DEF CalledOnce, Open
<1>7. Silence
  BY <1>2, TheTwo DEF Silence
<1> QED
  BY <1>4, <1>5, <1>6, <1>7 DEF Courtship, Stage

LEMMA CalmStays == CallInv /\ CalmInv /\ [Next]_vars => CalmInv'
<1> SUFFICES ASSUME CallInv, CalmInv, [Next]_vars, Undisturbed'
             PROVE  Meeting' /\ Courtship'
  BY DEF CalmInv
<1>1. CASE Next
  <2>1. PICK c \in Client :
          \/ AskToJoin(c) \/ Mount(c) \/ MediaReady(c) \/ MediaDenied(c)
          \/ Receive(c) \/ Operate(c) \/ Serve(c) \/ ToggleAudio(c)
          \/ Connect(c) \/ Disconnected(c) \/ Failed(c) \/ TimerFires(c)
          \/ Drop(c) \/ Reload(c) \/ Reconnect(c) \/ Expire(c) \/ Leave(c)
    BY <1>1 DEF Next
  <2>2. /\ Calm /\ ~Drop(c) /\ ~Reload(c) /\ ~Leave(c)
        /\ Disconnected(c) \/ Failed(c) => ~Linked(c) /\ Settled
    BY <2>1, CalmBefore DEF Calm, CalmInv
  <2>3. ~Disconnected(c) /\ ~Failed(c)
    <3>1. Disconnected(c) \/ Failed(c) => call[c].remote # NoSdp
      BY <2>2, CalmFacts DEF Disconnected, Failed, ClientInv, CallFits
    <3> QED
      BY <2>2, <3>1, PathHolds
  <2>4. ~TimerFires(c)
    BY <2>2, CalmFacts DEF TimerFires, ClientInv, CallFits
  <2>5. ~Reconnect(c) /\ ~Expire(c)
    BY <2>2, CalmFacts DEF Reconnect, Expire
  <2> QED
    BY <2>1, <2>2, <2>3, <2>4, <2>5, CalmAskToJoin, CalmMount, CalmMediaReady, CalmMediaDenied,
       CalmReceive, CalmOperate, CalmServe, CalmToggleAudio, CalmConnect
<1>2. CASE UNCHANGED vars
  <2>1. UNCHANGED <<joiner, seated, link, up, down, view, hook, found, pending, call, made,
                    outages, losses>>
    BY <1>2 DEF vars, serverVars, wireVars, hookVars, counts
  <2>2. Calm
    BY <2>1 DEF Calm, CalmInv, Undisturbed
  <2>3. \A d \in Client : /\ Tame(up[d], up'[d]) /\ Tame(down[d], down'[d])
                          /\ SameSignals(up[d], up'[d]) /\ SameSignals(down[d], down'[d])
    BY <2>1, TameSame, SignalsSame
  <2>4. hook[Creator] = "away" => up'[joiner] = <<>>
    BY <2>1, <2>2 DEF Calm, Meeting
  <2>5. Meeting'
    <3>1. \A d \in Client : call'[d].target # "self" /\ call'[d].conn \in {"new", "connected"}
      BY <2>1, <2>2, CalmFacts
    <3> QED
      BY <2>1, <2>2, <2>3, <2>4, <3>1, MeetingFrame DEF Calm
  <2>6. Courtship'
    <3>1. Has(down'[2], {"peer-joined"}) => Has(down[2], {"peer-joined"})
      BY <2>1
    <3> QED
      BY <2>1, <2>2, <2>3, <3>1, CourtshipFrame, TheTwo, CalmFacts DEF Calm
  <2> QED
    BY <2>5, <2>6
<1> QED
  BY <1>1, <1>2

(* As long as nothing breaks, the call goes from silence through one offer *)
(* and one answer to agreement, whatever the order in which the two join,  *)
(* mount, get their media and hear of each other.                          *)
THEOREM CalmInvariant == Spec => []CalmInv
BY InitCalm, CalmStays, CallInvariant, PTL DEF Spec

(* As long as nothing breaks, the two never both have an offer             *)
(* outstanding: client 1, with the lower id, makes none (init,             *)
(* onPeerJoined and onPeerReconnected compare the ids).                    *)
THEOREM OneOffererEver == Spec => []OneOfferer
<1>1. CalmInv => OneOfferer
  BY TheTwo DEF CalmInv, OneOfferer, Courtship, OneOffers
<1> QED
  BY <1>1, CalmInvariant, PTL

(* As long as nothing breaks, the answer that is about to be applied       *)
(* answers the offer of that very connection (handleAnswer of webrtc.ts).  *)
THEOREM AnswersFit == Spec => []AnswerFits
<1>1. ASSUME CallInv, CalmInv PROVE AnswerFits
  <2> SUFFICES ASSUME Undisturbed, NEW c \in Client, call[c].ops # <<>>,
                      Head(call[c].ops).op = "accept"
               PROVE  Head(call[c].ops).re = call[c].offered
    BY DEF AnswerFits
  <2>1. Calm
    BY <1>1 DEF Calm, CalmInv
  <2>2. Offer.op = "offer" /\ ToAnswer.op = "answer" /\ ToAccept.op = "accept" /\ ToAccept.re = TheOffer
    BY DEF Offer, ToAnswer, ToAccept, Op
  <2>3. c = 2 /\ call[2].ops = <<ToAccept>>
    BY <2>1, <2>2, TheTwo DEF Calm, Courtship, OneOffers
  <2>4. ~Silence
    <3> SUFFICES ASSUME Silence PROVE FALSE
      OBVIOUS
    <3>1. \A i \in 1..Len(call[2].ops) : call[2].ops[i].op = "offer"
      BY <2>1, NoneMade, TheTwo DEF Calm, Silence
    <3>2. 1 \in 1..Len(call[2].ops) /\ call[2].ops[1] = ToAccept
      BY <2>3
    <3> QED
      BY <2>2, <3>1, <3>2
  <2>5. AnswerArrived
    BY <2>1, <2>3, <2>4 DEF Calm, Courtship, Stage, OfferSent, AnswerSent, AnswerRelayed, Agreed
  <2> QED
    BY <2>2, <2>3, <2>5 DEF AnswerArrived, Awaited
<1> QED
  BY <1>1, CallInvariant, CalmInvariant, PTL

=============================================================================
