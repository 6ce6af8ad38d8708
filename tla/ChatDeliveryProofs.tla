-------------------------- MODULE ChatDeliveryProofs --------------------------
(***************************************************************************)
(* Two chat pages tell the same story, for every number of pages, length   *)
(* of the list and number of turns.  The inductive invariant has three     *)
(* layers: each page's list and queues are in the order of sending, and a  *)
(* message that is not acked waits behind what was sent before it; a page  *)
(* that has no seat has heard nothing; and the pages that count have been  *)
(* told alike, each the latest of what any of them was told.  What a page  *)
(* will list follows by induction over what is on its way: the cut at      *)
(* MAX_MESSAGES only takes the oldest, so the list keeps the latest of     *)
(* what the page was told.                                                 *)
(***************************************************************************)
EXTENDS ChatDelivery, WellFoundedInduction, TLAPS

Requests == [type : {"chat:message", "typing:start", "typing:stop", "room:leave"}, n : Nat]
Events == [type : {"chat:message", "ack", "error", "typing:start", "typing:stop",
                   "room:peer-joined", "room:peer-left"},
           from : Person, n : Nat]
Entries == [from : Person, n : Nat, state : {"pending", "done", "system"}]

ChatTypeOK ==
    /\ seats \in SUBSET Person
    /\ link \in [Person -> {"up", "down"}]
    /\ up \in [Person -> Seq(Requests)] /\ down \in [Person -> Seq(Events)]
    /\ page \in [Person -> {"home", "arriving", "loading", "chat"}]
    /\ list \in [Person -> Seq(Entries)]
    /\ turns \in Nat
    /\ missed \in [Person -> BOOLEAN] /\ renewed \in [Person -> BOOLEAN]

Answer == {"ack", "error"}
News == {"chat:message", "ack"}

(* The messages of s that a page with the list l and the events d on their *)
(* way has been or is being told of.                                       *)
Told(s, l, d) ==
    {n \in Nat : \/ \E i \in 1..Len(l) : IsFrom(s, l[i]) /\ l[i].n = n
                 \/ \E i \in 1..Len(d) : d[i].type \in News /\ d[i].from = s /\ d[i].n = n}

(* Of the messages told here, those that are kept are the latest.          *)
Latest(kept, told) ==
    kept \subseteq told /\ \A m \in kept, n \in told : m < n => n \in kept

(* Nobody but p is answered, and nobody hears of its own doings; what      *)
(* comes from one sender comes in the order of sending.                    *)
EventsInOrder(p, d) ==
    /\ \A i \in 1..Len(d) : d[i].type \in Answer <=> d[i].from = p
    /\ \A i, j \in 1..Len(d) :
          i < j /\ {d[i].type, d[j].type} \subseteq News \cup Answer /\ d[i].from = d[j].from
            => d[i].n < d[j].n

(* So it is listed, and what is still to come is newer.                    *)
ListInOrder(p, l) ==
    /\ \A i \in 1..Len(l) : l[i].state = "pending" => l[i].from = p
    /\ \A i, j \in 1..Len(l) :
          i < j /\ "system" \notin {l[i].state, l[j].state} /\ l[i].from = l[j].from
            => l[i].n < l[j].n

ComesLater(l, d) ==
    \A i \in 1..Len(l), j \in 1..Len(d) :
        IsFrom(d[j].from, l[i]) /\ d[j].type \in News => l[i].n < d[j].n

(* A message that is not acked yet waits in the list, behind what was sent *)
(* before it, unless both have been cut off.                               *)
Waits(p, l, n) ==
    \A i \in 1..Len(l) : l[i].from = p /\ l[i].state # "system" /\ l[i].n < n
        => \E k \in 1..Len(l) : l[k] = Entry(p, n, "pending")

AcksFit(p, l, d) == \A j \in 1..Len(d) : d[j].type = "ack" => Waits(p, l, d[j].n)

PageInOrder(p, l, d) ==
    EventsInOrder(p, d) /\ ListInOrder(p, l) /\ ComesLater(l, d) /\ AcksFit(p, l, d)

SentInOrder(u) ==
    \A i, j \in 1..Len(u) :
        i < j /\ u[i].type = "chat:message" /\ u[j].type = "chat:message" => u[i].n < u[j].n

Sent(u) == {n \in Nat : \E i \in 1..Len(u) : u[i].type = "chat:message" /\ u[i].n = n}

Answered(d) == {n \in Nat : \E i \in 1..Len(d) : d[i].type \in Answer /\ d[i].n = n}

Listed(p, l) == {n \in Nat : \E i \in 1..Len(l) : l[i].from = p /\ l[i].n = n}

(* The messages of p that it has an answer to or somebody has been told of.*)
Known(p) ==
    Answered(down[p]) \cup {n \in Nat : \E q \in Person : n \in Told(p, list[q], down[q])}

(* What p has sent and the server has not handled waits in its list, and is*)
(* newer than all that is known.                                           *)
RequestsInOrder(p) ==
    /\ SentInOrder(up[p])
    /\ \A n \in Sent(up[p]) :
          n <= turns /\ Waits(p, list[p], n) /\ \A k \in Known(p) : k < n
    /\ \A n \in Listed(p, list[p]) \cup Known(p) : n <= turns

PagesInOrder == \A p \in Person : PageInOrder(p, list[p], down[p]) /\ RequestsInOrder(p)

(* Nothing is on its way without a connection; a page without the hook     *)
(* lists nothing; only the home page has left.                             *)
Quiet(p) ==
    /\ link[p] = "down" => down[p] = <<>>
    /\ ~Listening(p) => list[p] = <<>>
    /\ \A i \in 1..Len(up[p]) : up[p][i].type = "room:leave" => page[p] = "home"

QuietWhenAway == \A p \in Person : Quiet(p)

(* A page that does not know that it has no seat has heard nothing.        *)
Unaware(p) == p \notin seats /\ page[p] # "home" /\ ~(Listening(p) /\ renewed[p])

HeardNothing(p) == \A s \in Person : Told(s, list[p], down[p]) = {}

SeatlessHearNothing == \A p \in Person : Unaware(p) => HeardNothing(p)

(* The pages that tell the story, or will when the hook is mounted.        *)
Counts(p) ==
    page[p] = "arriving" \/ (Listening(p) /\ ~missed[p] /\ ~renewed[p])

ToldAlike ==
    \A p, q \in Person : Counts(p) /\ Counts(q) =>
        \A s \in Person : \A m \in Told(s, list[p], down[p]), n \in Told(s, list[q], down[q]) :
            m < n => n \in Told(s, list[p], down[p])

ChatInv ==
    /\ ChatTypeOK
    /\ PagesInOrder
    /\ QuietWhenAway
    /\ SeatlessHearNothing
    /\ ToldAlike

-----------------------------------------------------------------------------
(* Lists and queues.                                                       *)
LEMMA EventsTyped ==
    ASSUME NEW d \in Seq(Events), NEW i \in 1..Len(d)
    PROVE  d[i] \in Events /\ d[i].from \in Person /\ d[i].n \in Nat
<1>1. d[i] \in Events
  OBVIOUS
<1> QED
  BY <1>1 DEF Events

LEMMA EntriesTyped ==
    ASSUME NEW l \in Seq(Entries), NEW i \in 1..Len(l)
    PROVE  l[i] \in Entries /\ l[i].from \in Person /\ l[i].n \in Nat
<1>1. l[i] \in Entries
  OBVIOUS
<1> QED
  BY <1>1 DEF Entries

LEMMA EntryTyped ==
    ASSUME NEW s \in Person, NEW n \in Nat, NEW state \in {"pending", "done", "system"}
    PROVE  /\ Entry(s, n, state) \in Entries
           /\ Entry(s, n, state).from = s /\ Entry(s, n, state).n = n
           /\ Entry(s, n, state).state = state
BY DEF Entry, Entries

LEMMA AppendTyped ==
    ASSUME NEW S, NEW q \in Seq(S), NEW x \in S
    PROVE  /\ Append(q, x) \in Seq(S) /\ q \o <<x>> = Append(q, x)
           /\ Len(Append(q, x)) = Len(q) + 1 /\ Append(q, x)[Len(q) + 1] = x
           /\ \A i \in 1..Len(q) : Append(q, x)[i] = q[i]
           /\ \A i \in 1..(Len(q) + 1) : i \in 1..Len(q) \/ i = Len(q) + 1
OBVIOUS

LEMMA TailTyped ==
    ASSUME NEW S, NEW q \in Seq(S), q # <<>>
    PROVE  /\ Head(q) \in S /\ Head(q) = q[1] /\ 1 \in 1..Len(q)
           /\ Tail(q) \in Seq(S) /\ Len(Tail(q)) = Len(q) - 1
           /\ \A i \in 1..Len(Tail(q)) : Tail(q)[i] = q[i + 1] /\ i + 1 \in 1..Len(q)
           /\ \A i \in 1..Len(q) : i = 1 \/ (i - 1 \in 1..Len(Tail(q)) /\ Tail(q)[i - 1] = q[i])
<1>1. Len(Tail(q)) = Len(q) - 1 /\ Tail(q) \in Seq(S) /\ Len(q) \in Nat \ {0}
  OBVIOUS
<1>2. \A i \in 1..Len(Tail(q)) : Tail(q)[i] = q[i + 1]
  OBVIOUS
<1>3. \A i \in 1..Len(q) : i = 1 \/ (i - 1 \in 1..Len(Tail(q)) /\ (i - 1) + 1 = i)
  BY <1>1
<1> QED
  BY <1>1, <1>2, <1>3

(* c is what is left of l when its first k entries are cut off.            *)
IsCut(c, l, k) ==
    /\ k \in Nat /\ Len(l) = Len(c) + k
    /\ \A i \in 1..Len(c) : c[i] = l[i + k]

(* The list shown is the list and the new entry, cut to its latest.        *)
LEMMA ShownCuts ==
    ASSUME NEW l \in Seq(Entries), NEW e \in Entries
    PROVE  /\ Shown(l, e) \in Seq(Entries)
           /\ \E k \in 0..Len(l) : IsCut(Shown(l, e), Append(l, e), k)
           /\ Len(Shown(l, e)) > 0 /\ Shown(l, e)[Len(Shown(l, e))] = e
<1> DEFINE next == Append(l, e)
           k == IF Len(next) > MAX_MESSAGES THEN Len(next) - MAX_MESSAGES ELSE 0
<1>1. /\ next \in Seq(Entries) /\ Len(next) = Len(l) + 1 /\ next[Len(l) + 1] = e
      /\ Len(l) \in Nat
  BY AppendTyped
<1>2. k \in 0..Len(l)
  BY <1>1, ChatAssumption
<1>3. Shown(l, e) = SubSeq(next, k + 1, Len(next))
  BY <1>1, <1>2, ChatAssumption DEF Shown
<1> HIDE DEF next, k
<1>4. PICK c \in Seq(Entries) : /\ c = SubSeq(next, k + 1, Len(next)) /\ Len(c) = Len(next) - k
                                /\ \A i \in 1..Len(c) : c[i] = next[i + k]
  <2>1. /\ SubSeq(next, k + 1, Len(next)) \in Seq(Entries)
        /\ Len(SubSeq(next, k + 1, Len(next))) = Len(next) - k
        /\ \A i \in 1..(Len(next) - k) : SubSeq(next, k + 1, Len(next))[i] = next[i + k]
    BY <1>1, <1>2
  <2> QED
    BY <2>1
<1>5. IsCut(c, next, k) /\ Len(c) > 0 /\ c[Len(c)] = e
  <2>1. Len(c) \in 1..Len(c) /\ Len(c) + k = Len(l) + 1
    BY <1>1, <1>2, <1>4
  <2> QED
    BY <1>1, <1>2, <1>4, <2>1 DEF IsCut
<1> QED
  BY <1>2, <1>3, <1>4, <1>5 DEF next

(* What is cut off is older than what is left.                             *)
LEMMA CutKeeps ==
    ASSUME NEW p \in Person, NEW l \in Seq(Entries), NEW c \in Seq(Entries), NEW k,
           IsCut(c, l, k), NEW d \in Seq(Events), ListInOrder(p, l), ComesLater(l, d)
    PROVE  /\ ListInOrder(p, c) /\ ComesLater(c, d)
           /\ \A s \in Person : Latest(Told(s, c, d), Told(s, l, d))
           /\ \A n \in Nat : Waits(p, l, n) => Waits(p, c, n)
<1>1. k \in Nat /\ Len(l) = Len(c) + k /\ Len(c) \in Nat /\ Len(l) \in Nat
  BY DEF IsCut
<1>2. \A i \in 1..Len(c) : i + k \in 1..Len(l) /\ c[i] = l[i + k]
  BY <1>1 DEF IsCut
<1>3. \A i \in 1..Len(l) : i > k => i - k \in 1..Len(c) /\ c[i - k] = l[i]
  <2>1. \A i \in 1..Len(l) : i > k => i - k \in 1..Len(c) /\ (i - k) + k = i
    BY <1>1
  <2> QED
    BY <1>2, <2>1
<1>4. ListInOrder(p, c)
  <2>1. \A i, j \in 1..Len(c) : i < j => i + k < j + k
    BY <1>1
  <2> QED
    BY <1>2, <2>1 DEF ListInOrder
<1>5. ComesLater(c, d)
  BY <1>2 DEF ComesLater
<1>6. ASSUME NEW s \in Person PROVE Latest(Told(s, c, d), Told(s, l, d))
  <2>1. Told(s, c, d) \subseteq Told(s, l, d)
    BY <1>2 DEF Told
  <2>2. ASSUME NEW m \in Told(s, c, d), NEW n \in Told(s, l, d), m < n PROVE n \in Told(s, c, d)
    <3>1. m \in Nat /\ n \in Nat
      BY DEF Told
    <3>2. CASE \E i \in 1..Len(d) : d[i].type \in News /\ d[i].from = s /\ d[i].n = n
      BY <3>1, <3>2 DEF Told
    <3>3. ASSUME NEW i \in 1..Len(l), IsFrom(s, l[i]), l[i].n = n PROVE n \in Told(s, c, d)
      <4>1. CASE i > k
        BY <1>3, <3>1, <3>3, <4>1 DEF Told
      <4>2. CASE i <= k
        <5>1. ASSUME NEW j \in 1..Len(c), IsFrom(s, c[j]), c[j].n = m PROVE FALSE
          <6>1. i < j + k /\ j + k \in 1..Len(l) /\ l[j + k] = c[j]
            BY <1>1, <1>2, <4>2
          <6>2. l[i].n < l[j + k].n
            BY <3>3, <5>1, <6>1 DEF ListInOrder, IsFrom
          <6> QED
            BY <2>2, <3>1, <3>3, <5>1, <6>1, <6>2
        <5>2. ASSUME NEW j \in 1..Len(d), d[j].type \in News, d[j].from = s, d[j].n = m PROVE FALSE
          <6>1. l[i].n < d[j].n
            BY <3>3, <5>2 DEF ComesLater
          <6> QED
            BY <2>2, <3>1, <3>3, <5>2, <6>1
        <5> QED
          BY <5>1, <5>2 DEF Told
      <4> QED
        BY <1>1, <4>1, <4>2
    <3> QED
      BY <3>2, <3>3 DEF Told
  <2> QED
    BY <2>1, <2>2 DEF Latest
<1>7. ASSUME NEW n \in Nat, Waits(p, l, n) PROVE Waits(p, c, n)
  <2> SUFFICES ASSUME NEW i \in 1..Len(c), c[i].from = p, c[i].state # "system", c[i].n < n
               PROVE  \E j \in 1..Len(c) : c[j] = Entry(p, n, "pending")
    BY DEF Waits
  <2>1. i + k \in 1..Len(l) /\ l[i + k] = c[i]
    BY <1>2
  <2>2. PICK j \in 1..Len(l) : l[j] = Entry(p, n, "pending")
    BY <1>7, <2>1 DEF Waits
  <2>3. l[j].from = p /\ l[j].n = n /\ l[j].state = "pending"
    BY <2>2 DEF Entry
  <2>4. ~(j < i + k) /\ j # i + k
    <3>1. c[i].n \in Nat
      BY EntriesTyped
    <3>2. j < i + k => l[j].n < l[i + k].n
      BY <2>1, <2>3 DEF ListInOrder
    <3> QED
      BY <2>1, <2>3, <3>1, <3>2
  <2>5. j > k
    BY <1>1, <2>4
  <2> QED
    BY <1>3, <2>2, <2>5
<1> QED
  BY <1>4, <1>5, <1>6, <1>7

-----------------------------------------------------------------------------
(* What an event does to a page that is in order.                          *)

(* e can be appended to p's list l, while the events d are on their way.   *)
FitsBehind(p, l, d, e) ==
    /\ e.state = "pending" => e.from = p
    /\ e.state = "done" => e.from # p
    /\ e.state # "system" => \A i \in 1..Len(l) :
          l[i].state # "system" /\ l[i].from = e.from => l[i].n < e.n
    /\ e.state = "done" => \A j \in 1..Len(d) :
          d[j].type \in News /\ d[j].from = e.from => e.n < d[j].n

(* An entry newer than its sender's others keeps the list in order.        *)
LEMMA AppendKeeps ==
    ASSUME NEW p \in Person, NEW l \in Seq(Entries), NEW d \in Seq(Events), NEW e \in Entries,
           FitsBehind(p, l, d, e), ListInOrder(p, l), ComesLater(l, d)
    PROVE  /\ ListInOrder(p, Append(l, e)) /\ ComesLater(Append(l, e), d)
           /\ \A n \in Nat : /\ Waits(p, l, n)
                             /\ e.from = p /\ e.state = "pending" => n <= e.n
                             => Waits(p, Append(l, e), n)
<1> DEFINE next == Append(l, e)
<1>1. /\ next \in Seq(Entries) /\ Len(next) = Len(l) + 1 /\ next[Len(l) + 1] = e
      /\ Len(l) \in Nat
      /\ \A i \in 1..Len(l) : next[i] = l[i] /\ i \in 1..Len(next)
      /\ \A i \in 1..Len(next) : i \in 1..Len(l) \/ i = Len(l) + 1
      /\ Len(l) + 1 \in 1..Len(next)
  BY AppendTyped
<1>2. e.from \in Person /\ e.n \in Nat /\ e.state \in {"pending", "done", "system"}
  BY DEF Entries
<1> HIDE DEF next
<1>3. ListInOrder(p, next)
  <2>1. ASSUME NEW i \in 1..Len(next), next[i].state = "pending" PROVE next[i].from = p
    BY <1>1, <2>1 DEF ListInOrder, FitsBehind
  <2>2. ASSUME NEW i \in 1..Len(next), NEW j \in 1..Len(next), i < j,
               "system" \notin {next[i].state, next[j].state}, next[i].from = next[j].from
        PROVE  next[i].n < next[j].n
    <3>1. i \in 1..Len(l) /\ next[i] = l[i]
      BY <1>1, <2>2
    <3>2. CASE j \in 1..Len(l)
      BY <1>1, <2>2, <3>1, <3>2 DEF ListInOrder
    <3>3. CASE j = Len(l) + 1
      BY <1>1, <2>2, <3>1, <3>3 DEF FitsBehind
    <3> QED
      BY <1>1, <3>2, <3>3
  <2> QED
    BY <2>1, <2>2 DEF ListInOrder
<1>4. ComesLater(next, d)
  <2> SUFFICES ASSUME NEW i \in 1..Len(next), NEW j \in 1..Len(d),
                      IsFrom(d[j].from, next[i]), d[j].type \in News
               PROVE  next[i].n < d[j].n
    BY DEF ComesLater
  <2>1. CASE i \in 1..Len(l)
    BY <1>1, <2>1 DEF ComesLater
  <2>2. CASE i = Len(l) + 1
    BY <1>1, <2>2 DEF FitsBehind, IsFrom
  <2> QED
    BY <1>1, <2>1, <2>2
<1>5. ASSUME NEW n \in Nat, Waits(p, l, n), e.from = p /\ e.state = "pending" => n <= e.n
      PROVE  Waits(p, next, n)
  <2> SUFFICES ASSUME NEW i \in 1..Len(next), next[i].from = p, next[i].state # "system",
                      next[i].n < n
               PROVE  \E k \in 1..Len(next) : next[k] = Entry(p, n, "pending")
    BY DEF Waits
  <2>1. i \in 1..Len(l)
    <3> SUFFICES ASSUME next[i] = e PROVE FALSE
      BY <1>1
    <3> QED
      BY <1>2, <1>5 DEF FitsBehind
  <2> QED
    BY <1>1, <1>5, <2>1 DEF Waits
<1> QED
  BY <1>3, <1>4, <1>5 DEF next

(* A listed message is one more that the page has been told of.            *)
LEMMA ToldAppend ==
    ASSUME NEW l \in Seq(Entries), NEW d, NEW e \in Entries, NEW s
    PROVE  Told(s, Append(l, e), d) = Told(s, l, d) \cup (IF IsFrom(s, e) THEN {e.n} ELSE {})
<1>1. /\ Append(l, e)[Len(l) + 1] = e
      /\ Len(l) + 1 \in 1..Len(Append(l, e))
      /\ \A i \in 1..Len(l) : Append(l, e)[i] = l[i] /\ i \in 1..Len(Append(l, e))
      /\ \A i \in 1..Len(Append(l, e)) : i \in 1..Len(l) \/ i = Len(l) + 1
  BY AppendTyped
<1>2. e.n \in Nat
  BY DEF Entries
<1> DEFINE next == Append(l, e)
<1> HIDE DEF next
<1>3. Told(s, next, d) \subseteq Told(s, l, d) \cup (IF IsFrom(s, e) THEN {e.n} ELSE {})
  BY <1>1 DEF Told, next
<1>4. Told(s, l, d) \subseteq Told(s, next, d)
  BY <1>1 DEF Told, next
<1>5. IsFrom(s, e) => e.n \in Told(s, next, d)
  BY <1>1, <1>2 DEF Told, next
<1> QED
  BY <1>3, <1>4, <1>5 DEF next

(* What c, the list l with e shown behind it, is to p.                     *)
ShowsMore(p, l, d, e, c) ==
    /\ c \in Seq(Entries) /\ ListInOrder(p, c) /\ ComesLater(c, d)
    /\ \A s \in Person :
          Latest(Told(s, c, d), Told(s, l, d) \cup (IF IsFrom(s, e) THEN {e.n} ELSE {}))
    /\ \A n \in Nat : /\ Waits(p, l, n)
                      /\ e.from = p /\ e.state = "pending" => n <= e.n
                      => Waits(p, c, n)
    /\ e.from = p /\ e.state = "pending" => Waits(p, c, e.n)
    /\ \A i \in 1..Len(c) : c[i] = e \/ \E j \in 1..Len(l) : c[i] = l[j]

(* The list is in order still when the oldest are cut off.                 *)
LEMMA ShownKeeps ==
    ASSUME NEW p \in Person, NEW l \in Seq(Entries), NEW d \in Seq(Events), NEW e \in Entries,
           FitsBehind(p, l, d, e), ListInOrder(p, l), ComesLater(l, d)
    PROVE  ShowsMore(p, l, d, e, Shown(l, e))
<1>1. PICK c \in Seq(Entries) : c = Shown(l, e)
  BY ShownCuts
<1>2. PICK k \in 0..Len(l) : IsCut(c, Append(l, e), k)
  BY <1>1, ShownCuts
<1>3. Len(c) \in 1..Len(c) /\ c[Len(c)] = e /\ Len(l) \in Nat
  <2>1. Len(c) > 0 /\ c[Len(c)] = e
    BY <1>1, ShownCuts
  <2>2. Len(c) \in Nat /\ Len(l) \in Nat
    OBVIOUS
  <2> QED
    BY <2>1, <2>2
<1>4. /\ Append(l, e) \in Seq(Entries) /\ ListInOrder(p, Append(l, e)) /\ ComesLater(Append(l, e), d)
      /\ \A n \in Nat : /\ Waits(p, l, n)
                        /\ e.from = p /\ e.state = "pending" => n <= e.n
                        => Waits(p, Append(l, e), n)
  BY AppendKeeps, AppendTyped
<1>5. /\ ListInOrder(p, c) /\ ComesLater(c, d)
      /\ \A s \in Person : Latest(Told(s, c, d), Told(s, Append(l, e), d))
      /\ \A n \in Nat : Waits(p, Append(l, e), n) => Waits(p, c, n)
  BY <1>2, <1>4, CutKeeps
<1>6. \A s \in Person : Latest(Told(s, c, d),
                               Told(s, l, d) \cup (IF IsFrom(s, e) THEN {e.n} ELSE {}))
  <2> SUFFICES ASSUME NEW s \in Person
               PROVE  Latest(Told(s, c, d),
                             Told(s, l, d) \cup (IF IsFrom(s, e) THEN {e.n} ELSE {}))
    OBVIOUS
  <2>1. Latest(Told(s, c, d), Told(s, Append(l, e), d))
    BY <1>5
  <2>2. Told(s, Append(l, e), d) = Told(s, l, d) \cup (IF IsFrom(s, e) THEN {e.n} ELSE {})
    BY ToldAppend
  <2> QED
    BY <2>1, <2>2
<1>7. e.from = p /\ e.state = "pending" => Waits(p, c, e.n)
  <2> SUFFICES ASSUME e.from = p, e.state = "pending" PROVE e = Entry(p, e.n, "pending")
    BY <1>3 DEF Waits
  <2> QED
    BY DEF Entries, Entry
<1>8. \A i \in 1..Len(c) : c[i] = e \/ \E j \in 1..Len(l) : c[i] = l[j]
  <2> SUFFICES ASSUME NEW i \in 1..Len(c) PROVE c[i] = e \/ \E j \in 1..Len(l) : c[i] = l[j]
    OBVIOUS
  <2>1. c[i] = Append(l, e)[i + k] /\ i + k \in 1..(Len(l) + 1)
    BY <1>2, AppendTyped DEF IsCut
  <2> QED
    BY <2>1, AppendTyped
<1>9. \A n \in Nat : /\ Waits(p, l, n)
                     /\ e.from = p /\ e.state = "pending" => n <= e.n
                     => Waits(p, c, n)
  BY <1>4, <1>5
<1>10. ShowsMore(p, l, d, e, c)
  BY <1>5, <1>6, <1>7, <1>8, <1>9 DEF ShowsMore
<1> QED
  BY <1>1, <1>10

-----------------------------------------------------------------------------
(* Numbers: the least of some, and induction from the least counterexample.*)
LEMMA LeastNumber ==
    ASSUME NEW I \in SUBSET Nat, I # {}
    PROVE  \E x \in I : \A y \in I : x <= y
<1>1. OpToRel(<, Nat) = {ss \in Nat \X Nat : ss[1] < ss[2]}
  BY Zenon DEF OpToRel
<1>2. IsWellFoundedOn({ss \in Nat \X Nat : ss[1] < ss[2]}, Nat)
  BY <1>1, NatLessThanWellFounded, Zenon
<1>3. PICK x \in I :
         \A y \in I : <<y, x>> \notin {ss \in Nat \X Nat : ss[1] < ss[2]}
  BY <1>2, WFMin, Zenon
<1>4. \A y \in I : ~(y < x)
  BY <1>3
<1> QED
  BY <1>4

LEMMA Induction ==
    ASSUME NEW T \in SUBSET Nat, 0 \in T, \A n \in T : n + 1 \in T
    PROVE  T = Nat
<1> SUFFICES ASSUME Nat \ T # {} PROVE FALSE
  OBVIOUS
<1>1. PICK x \in Nat \ T : \A y \in Nat \ T : x <= y
  BY LeastNumber
<1>2. x # 0 /\ x - 1 \in Nat
  BY <1>1
<1>3. x - 1 \in T
  BY <1>1, <1>2
<1> QED
  BY <1>2, <1>3

(* The failed message is taken out, if it is there.                        *)
IsWithout(c, l, k) ==
    /\ Len(l) = Len(c) + 1
    /\ \A i \in 1..Len(c) : c[i] = l[IF i < k THEN i ELSE i + 1]

LEMMA RemovedIs ==
    ASSUME NEW p \in Person, NEW l \in Seq(Entries), NEW n \in Nat
    PROVE  /\ Removed(l, p, n) \in Seq(Entries)
           /\ \/ Removed(l, p, n) = l
              \/ \E k \in 1..Len(l) : l[k] = Entry(p, n, "pending") /\ IsWithout(Removed(l, p, n), l, k)
<1> DEFINE e == Entry(p, n, "pending")
           I == {i \in 1..Len(l) : l[i] = e}
<1>1. CASE I = {}
  <2>1. Removed(l, p, n) = l
    BY <1>1, SMT DEF Removed, RemoveFirst
  <2> QED
    BY <2>1
<1>2. CASE I # {}
  <2>1. PICK k \in I : \A y \in I : k <= y
    <3>1. I \in SUBSET Nat
      OBVIOUS
    <3> QED
      BY <1>2, <3>1, LeastNumber, Zenon
  <2>2. SelectInSeq(l, LAMBDA v : v = e) \in I
    <3>1. SelectInSeq(l, LAMBDA v : v = e) = Min(I)
      BY <1>2 DEF SelectInSeq
    <3>2. Min(I) \in I
      BY <2>1 DEF Min
    <3> QED
      BY <3>1, <3>2
  <2>3. PICK m \in 1..Len(l) : l[m] = e /\ m = SelectInSeq(l, LAMBDA v : v = e)
    BY <2>2
  <2>4. Removed(l, p, n) = SubSeq(l, 1, m - 1) \o SubSeq(l, m + 1, Len(l))
    BY <1>2, <2>3 DEF Removed, RemoveFirst, RemoveAt
  <2>5. /\ SubSeq(l, 1, m - 1) \in Seq(Entries) /\ Len(SubSeq(l, 1, m - 1)) = m - 1
        /\ \A i \in 1..(m - 1) : SubSeq(l, 1, m - 1)[i] = l[i]
    OBVIOUS
  <2>6. /\ SubSeq(l, m + 1, Len(l)) \in Seq(Entries)
        /\ Len(SubSeq(l, m + 1, Len(l))) = Len(l) - m
        /\ \A i \in 1..(Len(l) - m) : SubSeq(l, m + 1, Len(l))[i] = l[i + m]
    OBVIOUS
  <2>7. PICK a \in Seq(Entries) : a = SubSeq(l, 1, m - 1) /\ Len(a) = m - 1
                                  /\ \A i \in 1..(m - 1) : a[i] = l[i]
    BY <2>5
  <2>8. PICK b \in Seq(Entries) : b = SubSeq(l, m + 1, Len(l)) /\ Len(b) = Len(l) - m
                                  /\ \A i \in 1..(Len(l) - m) : b[i] = l[i + m]
    BY <2>6
  <2>9. PICK c \in Seq(Entries) :
           /\ c = a \o b /\ Len(c) = Len(l) - 1
           /\ \A i \in 1..Len(c) : c[i] = IF i <= m - 1 THEN a[i] ELSE b[i - (m - 1)]
    <3>1. /\ a \o b \in Seq(Entries) /\ Len(a \o b) = Len(a) + Len(b)
          /\ \A i \in 1..(Len(a) + Len(b)) :
                (a \o b)[i] = IF i <= Len(a) THEN a[i] ELSE b[i - Len(a)]
      OBVIOUS
    <3>2. Len(l) \in Nat /\ m \in Nat
      OBVIOUS
    <3>3. Len(a) = m - 1
      BY <2>7
    <3>4. Len(b) = Len(l) - m
      BY <2>8
    <3>5. Len(a) + Len(b) = Len(l) - 1
      BY <3>2, <3>3, <3>4
    <3> QED
      BY <3>1, <3>3, <3>5
  <2>10. IsWithout(c, l, m)
    <3>1. ASSUME NEW i \in 1..Len(c) PROVE c[i] = l[IF i < m THEN i ELSE i + 1]
      <4>1. CASE i < m
        BY <2>7, <2>9, <4>1
      <4>2. CASE ~(i < m)
        <5>1. i - (m - 1) \in 1..(Len(l) - m) /\ (i - (m - 1)) + m = i + 1
          BY <2>9, <4>2
        <5>2. c[i] = b[i - (m - 1)]
          <6>1. ~(i <= m - 1)
            BY <2>9, <4>2
          <6> QED
            BY <2>9, <6>1
        <5> QED
          BY <2>8, <4>2, <5>1, <5>2
      <4> QED
        BY <4>1, <4>2
    <3> QED
      BY <2>9, <3>1 DEF IsWithout
  <2> QED
    BY <2>3, <2>4, <2>7, <2>8, <2>9, <2>10
<1> QED
  BY <1>1, <1>2

-----------------------------------------------------------------------------
(* The next event arrives.                                                 *)
HeardWell(p, l, d, c) ==
    /\ c \in Seq(Entries) /\ PageInOrder(p, c, Tail(d))
    /\ \A s \in Person : Latest(Told(s, c, Tail(d)), Told(s, l, d))
    /\ \A n \in Nat : Waits(p, l, n) /\ (Head(d).type \in Answer => Head(d).n < n) => Waits(p, c, n)
    /\ \A i \in 1..Len(c) : c[i].from = p => \E j \in 1..Len(l) : l[j].from = p /\ c[i].n = l[j].n

LEMMA TailInOrder ==
    ASSUME NEW p \in Person, NEW l \in Seq(Entries), NEW d \in Seq(Events), d # <<>>,
           PageInOrder(p, l, d)
    PROVE  /\ EventsInOrder(p, Tail(d)) /\ ComesLater(l, Tail(d)) /\ AcksFit(p, l, Tail(d))
           /\ \A s : Told(s, l, d) = Told(s, l, Tail(d))
                 \cup (IF Head(d).type \in News /\ Head(d).from = s THEN {Head(d).n} ELSE {})
           /\ Head(d).type \notin News => \A s : Told(s, l, d) = Told(s, l, Tail(d))
<1>1. PICK t \in Seq(Events) : t = Tail(d) /\ \A i \in 1..Len(t) : t[i] = d[i + 1] /\ i + 1 \in 1..Len(d)
  BY TailTyped
<1>2. /\ Head(d) = d[1] /\ 1 \in 1..Len(d) /\ d[1].n \in Nat
      /\ \A i \in 1..Len(d) : i = 1 \/ (i - 1 \in 1..Len(t) /\ t[i - 1] = d[i])
  BY <1>1, TailTyped, EventsTyped
<1>3. EventsInOrder(p, t)
  <2>1. \A i \in 1..Len(t) : t[i].type \in Answer <=> t[i].from = p
    BY <1>1 DEF PageInOrder, EventsInOrder
  <2>2. ASSUME NEW i \in 1..Len(t), NEW j \in 1..Len(t), i < j,
               {t[i].type, t[j].type} \subseteq News \cup Answer, t[i].from = t[j].from
        PROVE  t[i].n < t[j].n
    <3>1. i + 1 < j + 1
      BY <2>2
    <3> QED
      BY <1>1, <2>2, <3>1 DEF PageInOrder, EventsInOrder
  <2> QED
    BY <2>1, <2>2 DEF EventsInOrder
<1>4. ComesLater(l, t) /\ AcksFit(p, l, t)
  BY <1>1 DEF PageInOrder, ComesLater, AcksFit
<1>5. ASSUME NEW s
      PROVE Told(s, l, d) = Told(s, l, t)
                 \cup (IF d[1].type \in News /\ d[1].from = s THEN {d[1].n} ELSE {})
  <2>1. Told(s, l, t) \subseteq Told(s, l, d)
    BY <1>1 DEF Told
  <2>2. d[1].type \in News /\ d[1].from = s => d[1].n \in Told(s, l, d)
    BY <1>2 DEF Told
  <2>3. ASSUME NEW n \in Told(s, l, d)
        PROVE  n \in Told(s, l, t) \/ (d[1].type \in News /\ d[1].from = s /\ d[1].n = n)
    BY <1>2 DEF Told
  <2> QED
    BY <2>1, <2>2, <2>3
<1>6. ASSUME d[1].type \notin News, NEW s PROVE Told(s, l, d) = Told(s, l, t)
  <2>1. Told(s, l, d) = Told(s, l, t) \cup {}
    BY <1>5, <1>6
  <2> QED
    BY <2>1
<1> QED
  BY <1>1, <1>2, <1>3, <1>4, <1>5, <1>6

(* What the page shows of others' doings.                                  *)
LEMMA HeardShown ==
    ASSUME NEW p \in Person, NEW l \in Seq(Entries), NEW d \in Seq(Events), d # <<>>,
           PageInOrder(p, l, d), Head(d).type \notin Answer,
           NEW e \in Entries, e.from = Head(d).from,
           \/ e.state = "done" /\ Head(d).type = "chat:message" /\ e.n = Head(d).n
           \/ e.state = "system" /\ Head(d).type \notin News
    PROVE  HeardWell(p, l, d, Shown(l, e))
<1>1. PICK t \in Seq(Events) : t = Tail(d) /\ \A i \in 1..Len(t) : t[i] = d[i + 1] /\ i + 1 \in 1..Len(d)
  BY TailTyped
<1>2. PICK m \in Events : m = Head(d) /\ m = d[1] /\ 1 \in 1..Len(d)
  BY TailTyped
<1>3. /\ EventsInOrder(p, t) /\ ComesLater(l, t) /\ AcksFit(p, l, t)
      /\ \A s : Told(s, l, d) = Told(s, l, t)
                 \cup (IF m.type \in News /\ m.from = s THEN {m.n} ELSE {})
  BY <1>1, <1>2, TailInOrder
<1>4. /\ e.from # p /\ e.state # "pending"
      /\ \/ e.state = "done" /\ m.type = "chat:message" /\ e.n = m.n
         \/ e.state = "system" /\ m.type \notin News
  BY <1>2 DEF PageInOrder, EventsInOrder
<1>5. FitsBehind(p, l, t, e)
  <2>1. CASE e.state = "system"
    BY <2>1 DEF FitsBehind
  <2>2. CASE e.state = "done"
    <3>1. m.type = "chat:message" /\ e.n = m.n /\ m.type \in News /\ m.from = e.from
      BY <1>2, <1>4, <2>2 DEF News
    <3>2. ASSUME NEW i \in 1..Len(l), l[i].state # "system", l[i].from = e.from PROVE l[i].n < e.n
      <4>1. l[i].state # "pending"
        BY <1>4, <3>2 DEF PageInOrder, ListInOrder
      <4>2. IsFrom(m.from, l[i])
        <5>1. l[i].state \in {"pending", "done", "system"}
          <6>1. l[i] \in Entries
            BY EntriesTyped
          <6> QED
            BY <6>1 DEF Entries
        <5> QED
          BY <3>1, <3>2, <4>1, <5>1 DEF IsFrom
      <4> QED
        BY <1>2, <3>1, <4>2 DEF PageInOrder, ComesLater
    <3>3. ASSUME NEW j \in 1..Len(t), t[j].type \in News, t[j].from = e.from PROVE e.n < t[j].n
      <4>1. 1 < j + 1 /\ j + 1 \in 1..Len(d) /\ t[j] = d[j + 1]
        BY <1>1
      <4> QED
        BY <1>2, <3>1, <3>3, <4>1 DEF PageInOrder, EventsInOrder
    <3> QED
      BY <1>4, <3>2, <3>3 DEF FitsBehind
  <2> QED
    BY <1>4, <2>1, <2>2
<1>6. ListInOrder(p, l)
  BY DEF PageInOrder
<1>7. PICK c \in Seq(Entries) :
         /\ c = Shown(l, e) /\ ListInOrder(p, c) /\ ComesLater(c, t)
         /\ \A s \in Person : Latest(Told(s, c, t),
                                     Told(s, l, t) \cup (IF IsFrom(s, e) THEN {e.n} ELSE {}))
         /\ \A n \in Nat : Waits(p, l, n) => Waits(p, c, n)
         /\ \A i \in 1..Len(c) : c[i] = e \/ \E j \in 1..Len(l) : c[i] = l[j]
  <2>1. ShowsMore(p, l, t, e, Shown(l, e))
    BY <1>3, <1>4, <1>5, <1>6, ShownKeeps
  <2> QED
    BY <1>4, <2>1 DEF ShowsMore
<1>8. \A s \in Person : Latest(Told(s, c, t), Told(s, l, d))
  <2> SUFFICES ASSUME NEW s \in Person
               PROVE  (IF m.type \in News /\ m.from = s THEN {m.n} ELSE {})
                      = (IF IsFrom(s, e) THEN {e.n} ELSE {})
    BY <1>3, <1>7
  <2> QED
    BY <1>2, <1>4 DEF IsFrom, News
<1>9. AcksFit(p, c, t)
  <2>1. \A j \in 1..Len(t) : t[j].n \in Nat
    BY EventsTyped
  <2> QED
    BY <1>3, <1>7, <2>1 DEF AcksFit
<1>10. PageInOrder(p, c, t)
  BY <1>3, <1>7, <1>9 DEF PageInOrder
<1> QED
  BY <1>1, <1>4, <1>7, <1>8, <1>10 DEF HeardWell

LEMMA ConfirmedIs ==
    ASSUME NEW p \in Person, NEW l \in Seq(Entries), NEW n \in Nat
    PROVE  /\ Confirmed(l, p, n) \in Seq(Entries) /\ Len(Confirmed(l, p, n)) = Len(l)
           /\ \A i \in 1..Len(l) :
                 /\ Confirmed(l, p, n)[i].from = l[i].from /\ Confirmed(l, p, n)[i].n = l[i].n
                 /\ ~IsOwn(l[i], p, n) => Confirmed(l, p, n)[i] = l[i]
                 /\ IsOwn(l[i], p, n) => Confirmed(l, p, n)[i].state = "done"
<1> DEFINE c(i) == IF IsOwn(l[i], p, n) THEN [l[i] EXCEPT !.state = "done"] ELSE l[i]
<1>1. Len(l) \in Nat /\ DOMAIN l = 1..Len(l)
  OBVIOUS
<1>2. ASSUME NEW i \in 1..Len(l)
      PROVE  /\ c(i) \in Entries /\ c(i).from = l[i].from /\ c(i).n = l[i].n
             /\ ~IsOwn(l[i], p, n) => c(i) = l[i]
             /\ IsOwn(l[i], p, n) => c(i).state = "done"
  <2>1. l[i] \in Entries
    BY EntriesTyped
  <2> QED
    BY <2>1 DEF Entries
<1>3. Confirmed(l, p, n) = [i \in 1..Len(l) |-> c(i)]
  BY <1>1 DEF Confirmed
<1> HIDE DEF c
<1> QED
  BY <1>1, <1>2, <1>3

(* p's ack: the message it is for has been cut off with all that was sent  *)
(* before it, or becomes the latest confirmed one.                         *)
LEMMA HeardAck ==
    ASSUME NEW p \in Person, NEW l \in Seq(Entries), NEW d \in Seq(Events), d # <<>>,
           PageInOrder(p, l, d), Head(d).type = "ack"
    PROVE  HeardWell(p, l, d, Confirmed(l, p, Head(d).n))
<1>1. PICK t \in Seq(Events) : t = Tail(d) /\ \A i \in 1..Len(t) : t[i] = d[i + 1] /\ i + 1 \in 1..Len(d)
  BY TailTyped
<1>2. PICK m \in Events : m = Head(d) /\ m = d[1] /\ 1 \in 1..Len(d) /\ m.n \in Nat
  BY TailTyped, EventsTyped
<1>3. /\ EventsInOrder(p, t) /\ ComesLater(l, t) /\ AcksFit(p, l, t)
      /\ \A s : Told(s, l, d) = Told(s, l, t)
                 \cup (IF m.type \in News /\ m.from = s THEN {m.n} ELSE {})
  BY <1>1, <1>2, TailInOrder
<1>4. m.from = p /\ m.type = "ack" /\ m.type \in News /\ m.type \in Answer
  BY <1>2 DEF PageInOrder, EventsInOrder, News, Answer
<1>5. \A j \in 1..Len(t) : t[j].type \in News /\ t[j].from = p => m.n < t[j].n
  <2> SUFFICES ASSUME NEW j \in 1..Len(t), t[j].type \in News, t[j].from = p PROVE m.n < t[j].n
    OBVIOUS
  <2>1. 1 < j + 1 /\ j + 1 \in 1..Len(d) /\ t[j] = d[j + 1]
    BY <1>1
  <2> QED
    BY <1>2, <1>4, <2>1 DEF PageInOrder, EventsInOrder
<1>6. PICK c \in Seq(Entries) :
         /\ c = Confirmed(l, p, m.n) /\ Len(c) = Len(l)
         /\ \A i \in 1..Len(l) :
               /\ c[i].from = l[i].from /\ c[i].n = l[i].n
               /\ ~IsOwn(l[i], p, m.n) => c[i] = l[i]
               /\ IsOwn(l[i], p, m.n) => c[i].state = "done"
  BY <1>2, ConfirmedIs
<1>7. /\ \A i \in 1..Len(l) : l[i].state = "pending" => l[i].from = p
      /\ \A i, j \in 1..Len(l) :
          i < j /\ "system" \notin {l[i].state, l[j].state} /\ l[i].from = l[j].from
            => l[i].n < l[j].n
  BY DEF PageInOrder, ListInOrder
<1>8. \A i \in 1..Len(l) : c[i].state = "system" <=> l[i].state = "system"
  BY <1>6 DEF IsOwn
<1>9. ListInOrder(p, c)
  <2>1. \A i \in 1..Len(c) : c[i].state = "pending" => c[i].from = p
    BY <1>6, <1>7
  <2>2. ASSUME NEW i \in 1..Len(c), NEW j \in 1..Len(c), i < j,
               "system" \notin {c[i].state, c[j].state}, c[i].from = c[j].from
        PROVE  c[i].n < c[j].n
    <3>1. i \in 1..Len(l) /\ j \in 1..Len(l)
      BY <1>6
    <3> QED
      BY <1>6, <1>7, <1>8, <2>2, <3>1
  <2> QED
    BY <2>1, <2>2 DEF ListInOrder
<1>10. ComesLater(c, t)
  <2> SUFFICES ASSUME NEW i \in 1..Len(c), NEW j \in 1..Len(t),
                      IsFrom(t[j].from, c[i]), t[j].type \in News
               PROVE  c[i].n < t[j].n
    BY DEF ComesLater
  <2>1. i \in 1..Len(l)
    BY <1>6
  <2>2. CASE IsOwn(l[i], p, m.n)
    BY <1>5, <1>6, <2>1, <2>2 DEF IsOwn, IsFrom
  <2>3. CASE ~IsOwn(l[i], p, m.n)
    BY <1>3, <1>6, <2>1, <2>3 DEF ComesLater
  <2> QED
    BY <2>2, <2>3
<1>11. ASSUME NEW n \in Nat, Waits(p, l, n), m.n # n PROVE Waits(p, c, n)
  <2> SUFFICES ASSUME NEW i \in 1..Len(c), c[i].from = p, c[i].state # "system", c[i].n < n
               PROVE  \E k \in 1..Len(c) : c[k] = Entry(p, n, "pending")
    BY DEF Waits
  <2>1. PICK k \in 1..Len(l) : l[k] = Entry(p, n, "pending")
    BY <1>6, <1>8, <1>11 DEF Waits
  <2>2. l[k].n = n
    BY <2>1 DEF Entry
  <2>3. ~IsOwn(l[k], p, m.n)
    BY <1>11, <2>2 DEF IsOwn
  <2> QED
    BY <1>6, <2>1, <2>3
<1>12. AcksFit(p, c, t)
  <2> SUFFICES ASSUME NEW j \in 1..Len(t), t[j].type = "ack" PROVE Waits(p, c, t[j].n)
    BY DEF AcksFit
  <2>1. t[j].from = p /\ t[j].type \in News /\ t[j].n \in Nat
    BY <1>3, EventsTyped DEF EventsInOrder, Answer, News
  <2>2. Waits(p, l, t[j].n) /\ m.n < t[j].n
    BY <1>3, <1>5, <2>1 DEF AcksFit
  <2> QED
    BY <1>2, <1>11, <2>1, <2>2
<1>13. ASSUME NEW s \in Person PROVE Latest(Told(s, c, t), Told(s, l, d))
  <2>1. ASSUME NEW n \in Told(s, c, t) PROVE n \in Told(s, l, d)
    <3>1. CASE \E j \in 1..Len(t) : t[j].type \in News /\ t[j].from = s /\ t[j].n = n
      BY <1>3, <3>1 DEF Told
    <3>2. ASSUME NEW i \in 1..Len(c), IsFrom(s, c[i]), c[i].n = n PROVE n \in Told(s, l, d)
      <4>1. i \in 1..Len(l) /\ n \in Nat
        BY <1>6 DEF Told
      <4>2. CASE IsOwn(l[i], p, m.n)
        <5>1. s = p /\ n = m.n
          BY <1>6, <3>2, <4>1, <4>2 DEF IsOwn, IsFrom
        <5> QED
          BY <1>3, <1>4, <5>1
      <4>3. CASE ~IsOwn(l[i], p, m.n)
        <5>1. n \in Told(s, l, t)
          BY <1>6, <3>2, <4>1, <4>3 DEF Told
        <5> QED
          BY <1>3, <5>1
      <4> QED
        BY <4>2, <4>3
    <3> QED
      BY <3>1, <3>2 DEF Told
  <2>2. ASSUME NEW n \in Told(s, l, t) PROVE n \in Told(s, c, t)
    <3>1. ASSUME NEW i \in 1..Len(l), IsFrom(s, l[i]) PROVE c[i] = l[i] /\ i \in 1..Len(c)
      BY <1>6, <3>1 DEF IsFrom, IsOwn
    <3> QED
      BY <3>1 DEF Told
  <2>3. ASSUME NEW k \in Told(s, c, t), m.from = s, k < m.n PROVE m.n \in Told(s, c, t)
    <3>1. k \in Nat /\ s = p
      BY <1>4, <2>3 DEF Told
    <3>2. ~\E j \in 1..Len(t) : t[j].type \in News /\ t[j].from = s /\ t[j].n = k
      BY <1>2, <1>5, <2>3, <3>1
    <3>3. PICK i \in 1..Len(c) : IsFrom(s, c[i]) /\ c[i].n = k
      BY <3>2 DEF Told
    <3>4. i \in 1..Len(l) /\ l[i].from = p /\ l[i].state # "system" /\ l[i].n < m.n
      BY <1>6, <1>8, <2>3, <3>1, <3>3 DEF IsFrom
    <3>5. PICK j \in 1..Len(l) : l[j] = Entry(p, m.n, "pending")
      BY <1>2, <1>4, <3>4 DEF PageInOrder, AcksFit, Waits
    <3>6. IsOwn(l[j], p, m.n)
      BY <1>2, <3>5, EntryTyped DEF IsOwn
    <3>7. IsFrom(s, c[j]) /\ c[j].n = m.n /\ j \in 1..Len(c)
      BY <1>6, <3>1, <3>6 DEF IsFrom, IsOwn
    <3> QED
      BY <1>2, <3>7 DEF Told
  <2>4. ASSUME NEW k \in Told(s, c, t), NEW n \in Told(s, l, d), k < n PROVE n \in Told(s, c, t)
    <3>1. n \in Told(s, l, t) \/ (m.from = s /\ n = m.n)
      BY <1>3
    <3> QED
      BY <2>2, <2>3, <2>4, <3>1
  <2> QED
    BY <2>1, <2>4 DEF Latest
<1>14. PageInOrder(p, c, t)
  BY <1>3, <1>9, <1>10, <1>12 DEF PageInOrder
<1>15. \A n \in Nat : Waits(p, l, n) /\ (m.type \in Answer => m.n < n) => Waits(p, c, n)
  BY <1>2, <1>4, <1>11
<1>16. \A i \in 1..Len(c) : c[i].from = p => \E j \in 1..Len(l) : l[j].from = p /\ c[i].n = l[j].n
  BY <1>6
<1>17. HeardWell(p, l, d, c)
  BY <1>1, <1>2, <1>13, <1>14, <1>15, <1>16 DEF HeardWell
<1> QED
  BY <1>2, <1>6, <1>17

(* An error: nobody has been told of the message it takes back.            *)
LEMMA HeardError ==
    ASSUME NEW p \in Person, NEW l \in Seq(Entries), NEW d \in Seq(Events), d # <<>>,
           PageInOrder(p, l, d), Head(d).type = "error"
    PROVE  HeardWell(p, l, d, Removed(l, p, Head(d).n))
<1>1. PICK t \in Seq(Events) : t = Tail(d) /\ \A i \in 1..Len(t) : t[i] = d[i + 1] /\ i + 1 \in 1..Len(d)
  BY TailTyped
<1>2. PICK m \in Events : m = Head(d) /\ m = d[1] /\ 1 \in 1..Len(d) /\ m.n \in Nat
  BY TailTyped, EventsTyped
<1>3. /\ EventsInOrder(p, t) /\ ComesLater(l, t) /\ AcksFit(p, l, t)
      /\ \A s : Told(s, l, d) = Told(s, l, t)
  <2>1. m.type \notin News
    BY <1>2 DEF News
  <2> QED
    BY <1>1, <1>2, <2>1, TailInOrder
<1>4. m.from = p /\ m.type = "error" /\ m.type \in Answer
  BY <1>2 DEF PageInOrder, EventsInOrder, Answer
<1>5. \A j \in 1..Len(t) : t[j].type = "ack" => m.n < t[j].n
  <2> SUFFICES ASSUME NEW j \in 1..Len(t), t[j].type = "ack" PROVE m.n < t[j].n
    OBVIOUS
  <2>1. 1 < j + 1 /\ j + 1 \in 1..Len(d) /\ t[j] = d[j + 1] /\ t[j].from = p
    BY <1>1, <1>3 DEF EventsInOrder, Answer
  <2> QED
    BY <1>2, <1>4, <2>1 DEF PageInOrder, EventsInOrder, Answer
<1>6. /\ ListInOrder(p, l)
      /\ \A j \in 1..Len(t) : t[j].n \in Nat
  BY EventsTyped DEF PageInOrder
<1>7. PICK c \in Seq(Entries) :
         /\ c = Removed(l, p, m.n)
         /\ c = l \/ \E k \in 1..Len(l) : l[k] = Entry(p, m.n, "pending") /\ IsWithout(c, l, k)
  BY <1>2, RemovedIs
<1>8. HeardWell(p, l, d, c)
  <2>1. CASE c = l
    <3>1. \A s \in Person : Latest(Told(s, l, t), Told(s, l, t))
      BY DEF Latest
    <3> QED
      BY <1>1, <1>3, <1>6, <2>1, <3>1 DEF HeardWell, PageInOrder
  <2>2. ASSUME NEW k \in 1..Len(l), l[k] = Entry(p, m.n, "pending"), IsWithout(c, l, k)
        PROVE  HeardWell(p, l, d, c)
    <3> DEFINE f(i) == IF i < k THEN i ELSE i + 1
    <3>1. /\ Len(l) = Len(c) + 1 /\ \A i \in 1..Len(c) : c[i] = l[f(i)]
          /\ l[k].state = "pending" /\ l[k].from = p /\ l[k].n = m.n
      BY <1>2, <2>2, EntryTyped DEF IsWithout
    <3>2. Len(c) \in Nat /\ Len(l) \in Nat
      OBVIOUS
    <3>3. /\ \A i \in 1..Len(c) : f(i) \in 1..Len(l) /\ f(i) # k
          /\ \A i, j \in 1..Len(c) : i < j => f(i) < f(j)
      BY <3>1, <3>2
    <3>4. \A j \in 1..Len(l) : j # k => \E i \in 1..Len(c) : f(i) = j
      <4> SUFFICES ASSUME NEW j \in 1..Len(l), j # k PROVE \E i \in 1..Len(c) : f(i) = j
        OBVIOUS
      <4>1. CASE j < k
        <5>1. j \in 1..Len(c) /\ f(j) = j
          BY <3>1, <3>2, <4>1
        <5> QED
          BY <5>1
      <4>2. CASE j > k
        <5>1. j - 1 \in 1..Len(c) /\ f(j - 1) = j
          BY <3>1, <3>2, <4>2
        <5> QED
          BY <5>1
      <4> QED
        BY <3>2, <4>1, <4>2
    <3> HIDE DEF f
    <3>5. ListInOrder(p, c)
      BY <1>6, <3>1, <3>3 DEF ListInOrder
    <3>6. ComesLater(c, t)
      BY <1>3, <3>1, <3>3 DEF ComesLater
    <3>7. ASSUME NEW n \in Nat, Waits(p, l, n), m.n # n PROVE Waits(p, c, n)
      <4> SUFFICES ASSUME NEW i \in 1..Len(c), c[i].from = p, c[i].state # "system", c[i].n < n
                   PROVE  \E j \in 1..Len(c) : c[j] = Entry(p, n, "pending")
        BY DEF Waits
      <4>1. PICK j \in 1..Len(l) : l[j] = Entry(p, n, "pending")
        BY <3>1, <3>3, <3>7 DEF Waits
      <4>2. j # k
        BY <3>1, <3>7, <4>1, EntryTyped
      <4> QED
        BY <3>1, <3>4, <4>1, <4>2
    <3>8. AcksFit(p, c, t)
      BY <1>2, <1>3, <1>5, <1>6, <3>7 DEF AcksFit
    <3>9. ASSUME NEW s \in Person PROVE Told(s, c, t) = Told(s, l, t)
      <4>1. ASSUME NEW j \in 1..Len(l), IsFrom(s, l[j]) PROVE \E i \in 1..Len(c) : c[i] = l[j]
        BY <3>1, <3>4, <4>1 DEF IsFrom
      <4>2. \A i \in 1..Len(c) : \E j \in 1..Len(l) : c[i] = l[j]
        BY <3>1, <3>3
      <4>3. Told(s, l, t) \subseteq Told(s, c, t)
        BY <4>1 DEF Told
      <4>4. Told(s, c, t) \subseteq Told(s, l, t)
        BY <4>2 DEF Told
      <4> QED
        BY <4>3, <4>4
    <3>10. \A s \in Person : Latest(Told(s, c, t), Told(s, l, d))
      BY <1>3, <3>9 DEF Latest
    <3>11. PageInOrder(p, c, t)
      BY <1>3, <3>5, <3>6, <3>8 DEF PageInOrder
    <3>12. \A n \in Nat : Waits(p, l, n) /\ (m.type \in Answer => m.n < n) => Waits(p, c, n)
      BY <1>2, <1>4, <3>7
    <3>13. \A i \in 1..Len(c) : c[i].from = p => \E j \in 1..Len(l) : l[j].from = p /\ c[i].n = l[j].n
      BY <3>1, <3>3
    <3> QED
      BY <1>1, <1>2, <3>10, <3>11, <3>12, <3>13 DEF HeardWell
  <2> QED
    BY <1>7, <2>1, <2>2
<1> QED
  BY <1>2, <1>7, <1>8

(* Whatever arrives, the page stays in order, and keeps the latest of      *)
(* what it was told.                                                       *)
LEMMA HearKeeps ==
    ASSUME NEW p \in Person, NEW l \in Seq(Entries), NEW d \in Seq(Events), d # <<>>,
           PageInOrder(p, l, d)
    PROVE  HeardWell(p, l, d, After(p, l, Head(d)))
<1>1. PICK m \in Events : m = Head(d) /\ m.from \in Person /\ m.n \in Nat
  <2>1. Head(d) \in Events
    BY TailTyped
  <2> QED
    BY <2>1 DEF Events
<1>2. CASE m.type = "ack"
  BY <1>1, <1>2, HeardAck DEF After
<1>3. CASE m.type = "error"
  BY <1>1, <1>3, HeardError DEF After
<1>4. CASE m.type = "chat:message"
  <2> DEFINE e == Entry(m.from, m.n, "done")
  <2>1. e \in Entries /\ e.from = m.from /\ e.n = m.n /\ e.state = "done"
    BY <1>1, EntryTyped
  <2>2. m.type \notin Answer /\ After(p, l, m) = Shown(l, e)
    BY <1>4 DEF Answer, After
  <2> HIDE DEF e
  <2> QED
    BY <1>1, <1>4, <2>1, <2>2, HeardShown
<1>5. CASE m.type \in {"room:peer-joined", "room:peer-left"}
  <2> DEFINE e == Entry(m.from, 0, "system")
  <2>1. e \in Entries /\ e.from = m.from /\ e.state = "system"
    BY <1>1, EntryTyped
  <2>2. m.type \notin Answer /\ m.type \notin News /\ After(p, l, m) = Shown(l, e)
    BY <1>5 DEF Answer, News, After
  <2> HIDE DEF e
  <2> QED
    BY <1>1, <2>1, <2>2, HeardShown
<1>6. CASE m.type \notin {"ack", "error", "chat:message", "room:peer-joined", "room:peer-left"}
  <2>1. After(p, l, m) = l /\ m.type \notin Answer \cup News
    BY <1>6 DEF After, Answer, News
  <2>2. /\ PageInOrder(p, l, Tail(d))
        /\ \A s : Told(s, l, d) = Told(s, l, Tail(d))
    BY <1>1, <2>1, TailInOrder DEF PageInOrder
  <2>3. \A s \in Person : Latest(Told(s, l, Tail(d)), Told(s, l, d))
    BY <2>2 DEF Latest
  <2> QED
    BY <1>1, <2>1, <2>2, <2>3 DEF HeardWell
<1> QED
  BY <1>2, <1>3, <1>4, <1>5, <1>6

-----------------------------------------------------------------------------
(* What a page will list, by the recursion of the fold.                    *)
Settling(p, l, d) == FoldLeft(LAMBDA a, m : After(p, a, m), l, d)

(* FoldLeft runs over 1..n from its largest element down.                  *)
LEMMA MaxOf ==
    ASSUME NEW n \in Nat, NEW s \in SUBSET (1..n), n \in s
    PROVE  Max(s) = n
<1>1. n \in s /\ \A y \in s : n >= y
  OBVIOUS
<1>2. Max(s) \in s /\ Max(s) >= n
  BY <1>1 DEF Max
<1>3. PICK m \in 1..n : m = Max(s) /\ m >= n
  BY <1>2
<1> QED
  BY <1>3

Folds(iter, p, l, d, n) ==
    iter = [s \in SUBSET (1..n) |->
              IF s = {} THEN l ELSE After(p, iter[s \ {Max(s)}], d[Max(s)])]

(* The lists between the events d, from l on.                              *)
IsTrace(f, p, l, d) == f[0] = l /\ \A i \in 1..Len(d) : f[i] = After(p, f[i - 1], d[i])

LEMMA FoldsExist ==
    ASSUME NEW p, NEW l, NEW d, NEW n \in Nat
    PROVE  \E iter : Folds(iter, p, l, d, n)
<1> DEFINE T == {k \in Nat : \E iter : Folds(iter, p, l, d, k)}
<1>1. 0 \in T
  <2>1. SUBSET (1..0) = {{}}
    OBVIOUS
  <2>2. Folds([s \in SUBSET (1..0) |-> l], p, l, d, 0)
    BY <2>1 DEF Folds
  <2> QED
    BY <2>2
<1>2. ASSUME NEW k \in T PROVE k + 1 \in T
  <2>1. PICK f : Folds(f, p, l, d, k)
    OBVIOUS
  <2> DEFINE g == [s \in SUBSET (1..(k + 1)) |->
                     IF k + 1 \in s THEN After(p, f[s \ {k + 1}], d[k + 1]) ELSE f[s]]
  <2>2. ASSUME NEW s \in SUBSET (1..(k + 1))
        PROVE  g[s] = IF s = {} THEN l ELSE After(p, g[s \ {Max(s)}], d[Max(s)])
    <3>1. CASE k + 1 \in s
      <4>1. Max(s) = k + 1
        BY <3>1, MaxOf
      <4>2. s \ {k + 1} \in SUBSET (1..(k + 1)) /\ k + 1 \notin s \ {k + 1}
        OBVIOUS
      <4>3. g[s \ {k + 1}] = f[s \ {k + 1}]
        BY <4>2
      <4>4. g[s] = After(p, f[s \ {k + 1}], d[k + 1])
        BY <3>1
      <4> HIDE DEF g
      <4> QED
        BY <3>1, <4>1, <4>3, <4>4
    <3>2. CASE k + 1 \notin s
      <4>1. \A x : s \ {x} \in SUBSET (1..(k + 1)) /\ k + 1 \notin s \ {x}
        BY <3>2
      <4>2. s \in SUBSET (1..k)
        BY <3>2
      <4>3. g[s] = f[s] /\ g[s \ {Max(s)}] = f[s \ {Max(s)}]
        BY <3>2, <4>1, <4>2
      <4>4. f[s] = IF s = {} THEN l ELSE After(p, f[s \ {Max(s)}], d[Max(s)])
        BY <2>1, <4>2 DEF Folds
      <4> HIDE DEF g
      <4> QED
        BY <4>3, <4>4
    <3> QED
      BY <3>1, <3>2
  <2>3. g = [s \in SUBSET (1..(k + 1)) |-> g[s]]
    OBVIOUS
  <2> HIDE DEF g
  <2>4. Folds(g, p, l, d, k + 1)
    BY <2>2, <2>3 DEF Folds
  <2> QED
    BY <2>4
<1> HIDE DEF T
<1>3. T = Nat
  BY <1>1, <1>2, Induction DEF T
<1> QED
  BY <1>3 DEF T

LEMMA FoldOf ==
    ASSUME NEW p, NEW l, NEW d, NEW n \in Nat, DOMAIN d = 1..n
    PROVE  \E iter : Folds(iter, p, l, d, n) /\ Settling(p, l, d) = iter[1..n]
<1> DEFINE iter == CHOOSE f : Folds(f, p, l, d, n)
<1>1. Folds(iter, p, l, d, n)
  BY FoldsExist, Zenon
<1>2. Settling(p, l, d) = iter[1..n]
  BY DEF Settling, FoldLeft, MapThenFoldSet, Folds
<1> QED
  BY <1>1, <1>2

(* The fold is where any such sequence of lists ends, and there is one.    *)
LEMMA FoldTrace ==
    ASSUME NEW p, NEW l, NEW d \in Seq(Events)
    PROVE  /\ \E f : IsTrace(f, p, l, d)
           /\ \A f : IsTrace(f, p, l, d) => Settling(p, l, d) = f[Len(d)]
<1>1. PICK n \in Nat : n = Len(d) /\ DOMAIN d = 1..n
  OBVIOUS
<1>2. PICK iter : Folds(iter, p, l, d, n) /\ Settling(p, l, d) = iter[1..n]
  <2>1. DOMAIN d = 1..n
    BY <1>1
  <2> QED
    BY <2>1, FoldOf, Zenon
<1>3. iter[{}] = l
  BY <1>2 DEF Folds
<1>4. ASSUME NEW k \in 1..n PROVE iter[1..k] = After(p, iter[1..(k - 1)], d[k])
  <2>1. 1..k \in SUBSET (1..n) /\ k \in 1..k /\ (1..k) \ {k} = 1..(k - 1)
    OBVIOUS
  <2>2. Max(1..k) = k
    BY <2>1, MaxOf
  <2> QED
    BY <1>2, <2>1, <2>2 DEF Folds
<1>5. 1..0 = {}
  OBVIOUS
<1>6. IsTrace([i \in 0..n |-> iter[1..i]], p, l, d)
  BY <1>1, <1>3, <1>4, <1>5 DEF IsTrace
<1>7. ASSUME NEW f, IsTrace(f, p, l, d) PROVE iter[1..n] = f[n]
  <2> DEFINE T == {k \in Nat : k <= n => iter[1..k] = f[k]}
  <2>1. 0 \in T
    BY <1>3, <1>5, <1>7 DEF IsTrace
  <2>2. ASSUME NEW k \in T PROVE k + 1 \in T
    <3>1. CASE k + 1 <= n
      <4>1. k + 1 \in 1..n /\ (k + 1) - 1 = k /\ k <= n
        BY <3>1
      <4>2. f[k + 1] = After(p, f[k], d[k + 1])
        BY <1>1, <1>7, <4>1 DEF IsTrace
      <4>3. iter[1..(k + 1)] = After(p, iter[1..k], d[k + 1])
        BY <1>4, <4>1
      <4>4. iter[1..k] = f[k]
        BY <4>1
      <4> QED
        BY <4>2, <4>3, <4>4
    <3> QED
      BY <3>1
  <2> HIDE DEF T
  <2>3. T = Nat
    BY <2>1, <2>2, Induction DEF T
  <2> QED
    BY <2>3 DEF T
<1> QED
  BY <1>1, <1>2, <1>6, <1>7

LEMMA SettlingDone ==
    ASSUME NEW p, NEW l
    PROVE  Settling(p, l, <<>>) = l
<1>1. <<>> \in Seq(Events) /\ Len(<<>>) = 0
  OBVIOUS
<1>2. IsTrace([i \in 0..0 |-> l], p, l, <<>>)
  BY DEF IsTrace
<1> QED
  BY <1>1, <1>2, FoldTrace

LEMMA SettlingNext ==
    ASSUME NEW p, NEW l, NEW d \in Seq(Events), d # <<>>
    PROVE  Settling(p, l, d) = Settling(p, After(p, l, Head(d)), Tail(d))
<1>1. PICK f : IsTrace(f, p, l, d) /\ Settling(p, l, d) = f[Len(d)]
  BY FoldTrace
<1>2. PICK t \in Seq(Events) : /\ t = Tail(d) /\ Len(t) = Len(d) - 1
                               /\ \A i \in 1..Len(t) : t[i] = d[i + 1]
  <2>1. /\ Tail(d) \in Seq(Events) /\ Len(Tail(d)) = Len(d) - 1
        /\ \A i \in 1..Len(Tail(d)) : Tail(d)[i] = d[i + 1]
    BY TailTyped
  <2> QED
    BY <2>1, Zenon
<1>3. Head(d) = d[1] /\ 1 \in 1..Len(d)
  BY TailTyped
<1> DEFINE g == [i \in 0..Len(t) |-> f[i + 1]]
<1>4. Len(d) \in Nat /\ Len(t) \in Nat /\ Len(t) + 1 = Len(d)
  BY <1>2
<1>5. \A i \in 1..Len(t) : g[i] = f[i + 1] /\ g[i - 1] = f[i] /\ i + 1 \in 1..Len(d)
                           /\ (i + 1) - 1 = i
  BY <1>4
<1>6. g[0] = f[1] /\ g[Len(t)] = f[Len(d)] /\ 1 - 1 = 0
  BY <1>4
<1> HIDE DEF g
<1>7. f[1] = After(p, l, d[1])
  BY <1>1, <1>3, <1>6 DEF IsTrace
<1>8. ASSUME NEW i \in 1..Len(t) PROVE g[i] = After(p, g[i - 1], t[i])
  <2>1. f[i + 1] = After(p, f[i], d[i + 1])
    BY <1>1, <1>5 DEF IsTrace
  <2> QED
    BY <1>2, <1>5, <2>1
<1>9. IsTrace(g, p, After(p, l, Head(d)), t)
  BY <1>3, <1>6, <1>7, <1>8 DEF IsTrace
<1>10. Settling(p, After(p, l, Head(d)), t) = g[Len(t)]
  BY <1>9, FoldTrace, Zenon
<1> QED
  BY <1>1, <1>2, <1>6, <1>10

(* The settled list is in order, and keeps the latest of what the page had *)
(* been told: by induction over what is on its way.                        *)
Settles(p, l, d) ==
    /\ ListInOrder(p, Settling(p, l, d)) /\ Settling(p, l, d) \in Seq(Entries)
    /\ \A s \in Person : Latest(Told(s, Settling(p, l, d), <<>>), Told(s, l, d))

LEMMA LatestOfLatest ==
    ASSUME NEW a, NEW b, NEW c \in SUBSET Nat, Latest(a, b), Latest(b, c)
    PROVE  Latest(a, c)
BY DEF Latest

LEMMA PageSettles ==
    ASSUME NEW p \in Person, NEW l \in Seq(Entries), NEW d \in Seq(Events),
           PageInOrder(p, l, d)
    PROVE  Settles(p, l, d)
<1> DEFINE T == {k \in Nat : \A a \in Seq(Entries), q \in Seq(Events) :
                    Len(q) = k /\ PageInOrder(p, a, q) => Settles(p, a, q)}
<1>1. 0 \in T
  <2> SUFFICES ASSUME NEW a \in Seq(Entries), NEW q \in Seq(Events), Len(q) = 0,
                      PageInOrder(p, a, q)
               PROVE  Settles(p, a, q)
    OBVIOUS
  <2>1. q = <<>>
    OBVIOUS
  <2>2. Settling(p, a, q) = a
    BY <2>1, SettlingDone
  <2> QED
    BY <2>1, <2>2 DEF Settles, PageInOrder, Latest
<1>2. ASSUME NEW k \in T PROVE k + 1 \in T
  <2> SUFFICES ASSUME NEW a \in Seq(Entries), NEW q \in Seq(Events), Len(q) = k + 1,
                      PageInOrder(p, a, q)
               PROVE  Settles(p, a, q)
    OBVIOUS
  <2>1. q # <<>>
    OBVIOUS
  <2>2. PICK t \in Seq(Events) : t = Tail(q) /\ Len(t) = k
    <3>1. Tail(q) \in Seq(Events) /\ Len(Tail(q)) = Len(q) - 1
      BY <2>1, TailTyped
    <3>2. k \in Nat
      OBVIOUS
    <3>3. Len(Tail(q)) = k
      BY <3>1, <3>2
    <3> QED
      BY <3>1, <3>3
  <2>3. PICK c : c = After(p, a, Head(q))
    OBVIOUS
  <2>4. HeardWell(p, a, q, c)
    BY <2>1, <2>3, HearKeeps
  <2>5. c \in Seq(Entries) /\ PageInOrder(p, c, t)
        /\ \A s \in Person : Latest(Told(s, c, t), Told(s, a, q))
    BY <2>2, <2>4 DEF HeardWell
  <2>6. Settles(p, c, t)
    BY <2>2, <2>5
  <2>7. Settling(p, a, q) = Settling(p, c, t)
    BY <2>1, <2>2, <2>3, SettlingNext
  <2>8. ASSUME NEW s \in Person PROVE Latest(Told(s, Settling(p, c, t), <<>>), Told(s, a, q))
    <3>1. Latest(Told(s, Settling(p, c, t), <<>>), Told(s, c, t))
      BY <2>6 DEF Settles
    <3>2. Told(s, a, q) \in SUBSET Nat
      BY DEF Told
    <3> QED
      BY <2>5, <3>1, <3>2, LatestOfLatest
  <2> QED
    BY <2>6, <2>7, <2>8 DEF Settles
<1> HIDE DEF T
<1>3. T = Nat
  BY <1>1, <1>2, Induction DEF T
<1>4. Len(d) \in T
  BY <1>3
<1> QED
  BY <1>4 DEF T

(* A page that tells the story lists the latest of what it is told.        *)
LEMMA SettledTold ==
    ASSUME ChatInv, NEW p \in Person, ~missed[p], ~renewed[p], NEW s \in Person
    PROVE  /\ InOrder(s, Settled(p))
           /\ Said(s, Settled(p)) # {} => Counts(p)
           /\ Latest(Said(s, Settled(p)), Told(s, list[p], down[p])) \/ ~Listening(p)
<1>1. list[p] \in Seq(Entries) /\ down[p] \in Seq(Events) /\ PageInOrder(p, list[p], down[p])
  BY DEF ChatInv, ChatTypeOK, PagesInOrder
<1>2. CASE ~Listening(p)
  <2>1. Settled(p) = <<>>
    BY <1>2 DEF Settled
  <2>2. Said(s, <<>>) = {} /\ InOrder(s, <<>>)
    BY DEF Said, InOrder, ToSet
  <2> QED
    BY <1>2, <2>1, <2>2
<1>3. CASE Listening(p)
  <2>1. Settled(p) = Settling(p, list[p], down[p])
    BY <1>3 DEF Settled, Settling
  <2>2. Settles(p, list[p], down[p])
    BY <1>1, PageSettles
  <2>3. PICK c \in Seq(Entries) :
           /\ c = Settled(p) /\ ListInOrder(p, c)
           /\ Latest(Told(s, c, <<>>), Told(s, list[p], down[p]))
    BY <2>1, <2>2 DEF Settles
  <2>4. InOrder(s, c)
    BY <2>3 DEF ListInOrder, InOrder, IsFrom
  <2>5. Said(s, c) = Told(s, c, <<>>)
    <3>1. Said(s, c) \subseteq Told(s, c, <<>>)
      BY EntriesTyped DEF Said, Told, ToSet
    <3>2. Told(s, c, <<>>) \subseteq Said(s, c)
      BY DEF Said, Told, ToSet
    <3> QED
      BY <3>1, <3>2
  <2>6. Counts(p)
    BY <1>3 DEF Counts
  <2> QED
    BY <2>3, <2>4, <2>5, <2>6
<1> QED
  BY <1>2, <1>3

(* What the pages will list agrees because they have been told alike.      *)
LEMMA HistoryFollows == ChatInv => HistoryAgrees
<1> SUFFICES ASSUME ChatInv, NEW p \in Person, NEW q \in Person,
                    ~(missed[p] \/ missed[q] \/ renewed[p] \/ renewed[q]), NEW s \in Person
             PROVE  /\ InOrder(s, Settled(p))
                    /\ \A m \in Said(s, Settled(p)), n \in Said(s, Settled(q)) :
                          m < n => n \in Said(s, Settled(p))
  BY DEF HistoryAgrees
<1>1. InOrder(s, Settled(p))
  BY SettledTold
<1>2. ASSUME NEW m \in Said(s, Settled(p)), NEW n \in Said(s, Settled(q)), m < n
      PROVE  n \in Said(s, Settled(p))
  <2>1. Counts(p) /\ Counts(q)
    BY SettledTold
  <2>2. Listening(p) /\ Listening(q)
    <3>1. Said(s, <<>>) = {}
      BY DEF Said, ToSet
    <3>2. \A x \in Person : ~Listening(x) => Settled(x) = <<>>
      BY Zenon DEF Settled
    <3> QED
      BY <3>1, <3>2
  <2>3. /\ Latest(Said(s, Settled(p)), Told(s, list[p], down[p]))
        /\ Latest(Said(s, Settled(q)), Told(s, list[q], down[q]))
    BY <2>2, SettledTold
  <2>4. m \in Told(s, list[p], down[p]) /\ n \in Told(s, list[q], down[q])
    BY <2>3 DEF Latest
  <2>5. n \in Told(s, list[p], down[p])
    BY <1>2, <2>1, <2>4 DEF ChatInv, ToldAlike
  <2> QED
    BY <1>2, <2>3, <2>5 DEF Latest
<1> QED
  BY <1>1, <1>2

-----------------------------------------------------------------------------
(* Queues of requests, and an event that goes out.                         *)
LEMMA RequestTyped ==
    ASSUME NEW type \in {"chat:message", "typing:start", "typing:stop", "room:leave"}, NEW n \in Nat
    PROVE  Request(type, n) \in Requests /\ Request(type, n).type = type /\ Request(type, n).n = n
BY DEF Request, Requests

LEMMA EventTyped ==
    ASSUME NEW type \in {"chat:message", "ack", "error", "typing:start", "typing:stop",
                         "room:peer-joined", "room:peer-left"},
           NEW p \in Person, NEW n \in Nat
    PROVE  /\ Event(type, p, n) \in Events
           /\ Event(type, p, n).type = type /\ Event(type, p, n).from = p /\ Event(type, p, n).n = n
BY DEF Event, Events

LEMMA SentEmpty == SentInOrder(<<>>) /\ Sent(<<>>) = {}
BY DEF SentInOrder, Sent

LEMMA SentAppend ==
    ASSUME NEW u \in Seq(Requests), NEW r \in Requests, SentInOrder(u),
           r.type = "chat:message" => \A n \in Sent(u) : n < r.n
    PROVE  /\ SentInOrder(Append(u, r))
           /\ Sent(Append(u, r)) = Sent(u) \cup (IF r.type = "chat:message" THEN {r.n} ELSE {})
<1> DEFINE v == Append(u, r)
<1>1. /\ v[Len(u) + 1] = r /\ Len(u) + 1 \in 1..Len(v) /\ Len(u) \in Nat
      /\ \A i \in 1..Len(u) : v[i] = u[i] /\ i \in 1..Len(v)
      /\ \A i \in 1..Len(v) : i \in 1..Len(u) \/ i = Len(u) + 1
  BY AppendTyped
<1>2. r.n \in Nat /\ \A i \in 1..Len(u) : u[i].n \in Nat
  <2>1. \A i \in 1..Len(u) : u[i] \in Requests
    OBVIOUS
  <2> QED
    BY <2>1 DEF Requests
<1> HIDE DEF v
<1>3. SentInOrder(v)
  <2> SUFFICES ASSUME NEW i \in 1..Len(v), NEW j \in 1..Len(v), i < j,
                      v[i].type = "chat:message", v[j].type = "chat:message"
               PROVE  v[i].n < v[j].n
    BY DEF SentInOrder
  <2>1. i \in 1..Len(u) /\ v[i] = u[i]
    BY <1>1
  <2>2. CASE j \in 1..Len(u)
    BY <1>1, <2>1, <2>2 DEF SentInOrder
  <2>3. CASE j = Len(u) + 1
    <3>1. u[i].n \in Sent(u)
      BY <1>2, <2>1 DEF Sent
    <3> QED
      BY <1>1, <2>1, <2>3, <3>1
  <2> QED
    BY <1>1, <2>2, <2>3
<1>4. Sent(v) \subseteq Sent(u) \cup (IF r.type = "chat:message" THEN {r.n} ELSE {})
  BY <1>1 DEF Sent
<1>5. Sent(u) \subseteq Sent(v)
  BY <1>1 DEF Sent
<1>6. r.type = "chat:message" => r.n \in Sent(v)
  BY <1>1, <1>2 DEF Sent
<1>7. Sent(v) = Sent(u) \cup (IF r.type = "chat:message" THEN {r.n} ELSE {})
  BY <1>4, <1>5, <1>6
<1> QED
  BY <1>3, <1>7 DEF v

LEMMA SentTail ==
    ASSUME NEW u \in Seq(Requests), u # <<>>, SentInOrder(u)
    PROVE  /\ SentInOrder(Tail(u)) /\ Sent(Tail(u)) \subseteq Sent(u)
           /\ Head(u).type = "chat:message" =>
                 Head(u).n \in Sent(u) /\ \A n \in Sent(Tail(u)) : Head(u).n < n
<1>1. PICK v \in Seq(Requests) : v = Tail(u) /\ \A i \in 1..Len(v) : v[i] = u[i + 1] /\ i + 1 \in 1..Len(u)
  <2>1. Tail(u) \in Seq(Requests)
        /\ \A i \in 1..Len(Tail(u)) : Tail(u)[i] = u[i + 1] /\ i + 1 \in 1..Len(u)
    BY TailTyped
  <2> QED
    BY <2>1
<1>2. Head(u) = u[1] /\ 1 \in 1..Len(u) /\ u[1].n \in Nat
  <2>1. Head(u) = u[1] /\ 1 \in 1..Len(u) /\ u[1] \in Requests
    BY TailTyped
  <2> QED
    BY <2>1 DEF Requests
<1>3. SentInOrder(v)
  <2> SUFFICES ASSUME NEW i \in 1..Len(v), NEW j \in 1..Len(v), i < j,
                      v[i].type = "chat:message", v[j].type = "chat:message"
               PROVE  v[i].n < v[j].n
    BY DEF SentInOrder
  <2>1. i + 1 < j + 1
    OBVIOUS
  <2> QED
    BY <1>1, <2>1 DEF SentInOrder
<1>4. Sent(v) \subseteq Sent(u)
  BY <1>1 DEF Sent
<1>5. ASSUME u[1].type = "chat:message" PROVE u[1].n \in Sent(u) /\ \A n \in Sent(v) : u[1].n < n
  <2>1. u[1].n \in Sent(u)
    BY <1>2, <1>5 DEF Sent
  <2>2. ASSUME NEW i \in 1..Len(v), v[i].type = "chat:message" PROVE u[1].n < v[i].n
    <3>1. 1 < i + 1 /\ i + 1 \in 1..Len(u) /\ v[i] = u[i + 1]
      BY <1>1
    <3> QED
      BY <1>2, <1>5, <2>2, <3>1 DEF SentInOrder
  <2>3. \A n \in Sent(v) : u[1].n < n
    BY <2>2 DEF Sent
  <2> QED
    BY <2>1, <2>3
<1> QED
  BY <1>1, <1>2, <1>3, <1>4, <1>5

(* An event m is put on its way to q.                                      *)
Fits(q, l, d, m) ==
    /\ m.type \in Answer <=> m.from = q
    /\ m.type \in News => \A k \in Told(m.from, l, d) : k < m.n
    /\ m.type \in Answer => \A k \in Answered(d) \cup Told(q, l, d) : k < m.n
    /\ m.type = "ack" => Waits(q, l, m.n)

LEMMA EventAppends ==
    ASSUME NEW q \in Person, NEW l \in Seq(Entries), NEW d \in Seq(Events), NEW m \in Events,
           PageInOrder(q, l, d), Fits(q, l, d, m)
    PROVE  /\ PageInOrder(q, l, Append(d, m))
           /\ \A s \in Person : Told(s, l, Append(d, m)) =
                 Told(s, l, d) \cup (IF m.type \in News /\ m.from = s THEN {m.n} ELSE {})
           /\ Answered(Append(d, m)) = Answered(d) \cup (IF m.type \in Answer THEN {m.n} ELSE {})
<1> DEFINE c == Append(d, m)
<1>1. /\ c[Len(d) + 1] = m /\ Len(d) + 1 \in 1..Len(c) /\ Len(d) \in Nat
      /\ \A i \in 1..Len(d) : c[i] = d[i] /\ i \in 1..Len(c)
      /\ \A i \in 1..Len(c) : i \in 1..Len(d) \/ i = Len(d) + 1
  BY AppendTyped
<1>2. m.n \in Nat /\ \A i \in 1..Len(d) : d[i].n \in Nat
  BY EventsTyped DEF Events
<1>3. \A i \in 1..Len(l) : l[i].n \in Nat
  BY EntriesTyped
<1> HIDE DEF c
<1>4. EventsInOrder(q, c)
  <2>1. ASSUME NEW i \in 1..Len(c) PROVE c[i].type \in Answer <=> c[i].from = q
    BY <1>1 DEF Fits, PageInOrder, EventsInOrder
  <2>2. ASSUME NEW i \in 1..Len(c), NEW j \in 1..Len(c), i < j,
               {c[i].type, c[j].type} \subseteq News \cup Answer, c[i].from = c[j].from
        PROVE  c[i].n < c[j].n
    <3>1. i \in 1..Len(d) /\ c[i] = d[i]
      BY <1>1, <2>2
    <3>2. CASE j \in 1..Len(d)
      BY <1>1, <2>2, <3>1, <3>2 DEF PageInOrder, EventsInOrder
    <3>3. CASE j = Len(d) + 1
      <4>1. c[j] = m /\ d[i].from = m.from /\ d[i].type \in News \cup Answer /\ m.type \in News \cup Answer
        BY <1>1, <2>2, <3>1, <3>3
      <4>2. CASE m.type \in Answer
        <5>1. d[i].type \in Answer
          BY <3>1, <4>1, <4>2 DEF Fits, PageInOrder, EventsInOrder
        <5>2. d[i].n \in Answered(d)
          BY <1>2, <3>1, <5>1 DEF Answered
        <5> QED
          BY <3>1, <4>1, <4>2, <5>2 DEF Fits
      <4>3. CASE m.type \notin Answer
        <5>1. d[i].type \in News /\ m.type \in News
          BY <3>1, <4>1, <4>3 DEF Fits, PageInOrder, EventsInOrder
        <5>2. d[i].n \in Told(m.from, l, d)
          BY <1>2, <3>1, <4>1, <5>1 DEF Told
        <5> QED
          BY <3>1, <4>1, <5>1, <5>2 DEF Fits
      <4> QED
        BY <4>2, <4>3
    <3> QED
      BY <1>1, <3>2, <3>3
  <2> QED
    BY <2>1, <2>2 DEF EventsInOrder
<1>5. ComesLater(l, c)
  <2> SUFFICES ASSUME NEW i \in 1..Len(l), NEW j \in 1..Len(c),
                      IsFrom(c[j].from, l[i]), c[j].type \in News
               PROVE  l[i].n < c[j].n
    BY DEF ComesLater
  <2>1. CASE j \in 1..Len(d)
    BY <1>1, <2>1 DEF PageInOrder, ComesLater
  <2>2. CASE j = Len(d) + 1
    <3>1. l[i].n \in Told(m.from, l, d)
      BY <1>1, <1>3, <2>2 DEF Told
    <3> QED
      BY <1>1, <2>2, <3>1 DEF Fits
  <2> QED
    BY <1>1, <2>1, <2>2
<1>6. AcksFit(q, l, c)
  BY <1>1 DEF AcksFit, PageInOrder, Fits
<1>7. PageInOrder(q, l, c)
  BY <1>4, <1>5, <1>6 DEF PageInOrder
<1>8. ASSUME NEW s \in Person
      PROVE  Told(s, l, c) = Told(s, l, d) \cup (IF m.type \in News /\ m.from = s THEN {m.n} ELSE {})
  <2>1. Told(s, l, c) \subseteq Told(s, l, d) \cup (IF m.type \in News /\ m.from = s THEN {m.n} ELSE {})
    BY <1>1 DEF Told
  <2>2. Told(s, l, d) \subseteq Told(s, l, c)
    BY <1>1 DEF Told
  <2>3. m.type \in News /\ m.from = s => m.n \in Told(s, l, c)
    BY <1>1, <1>2 DEF Told
  <2> QED
    BY <2>1, <2>2, <2>3
<1>9. Answered(c) = Answered(d) \cup (IF m.type \in Answer THEN {m.n} ELSE {})
  <2>1. Answered(c) \subseteq Answered(d) \cup (IF m.type \in Answer THEN {m.n} ELSE {})
    BY <1>1 DEF Answered
  <2>2. Answered(d) \subseteq Answered(c)
    BY <1>1 DEF Answered
  <2>3. m.type \in Answer => m.n \in Answered(c)
    BY <1>1, <1>2 DEF Answered
  <2> QED
    BY <2>1, <2>2, <2>3
<1> QED
  BY <1>7, <1>8, <1>9 DEF c

-----------------------------------------------------------------------------
(* A step, page by page: nobody is told anything new.                      *)
ToldLess(q) == \A s \in Person : Told(s, list'[q], down'[q]) \subseteq Told(s, list[q], down[q])

PageKept(q) ==
    /\ PageInOrder(q, list'[q], down'[q])
    /\ ToldLess(q)
    /\ Answered(down'[q]) \subseteq Answered(down[q])
    /\ Listed(q, list'[q]) \subseteq Listed(q, list[q])
    /\ \A n \in Sent(up'[q]) : Waits(q, list[q], n) => Waits(q, list'[q], n)

UpKept(q) == SentInOrder(up'[q]) /\ Sent(up'[q]) \subseteq Sent(up[q])

(* The page goes on to tell the story as before, or begins with nothing.   *)
TellsOn(q) ==
    Counts(q)' => \/ HeardNothing(q)'
                  \/ /\ Counts(q)
                     /\ \A s \in Person : Latest(Told(s, list'[q], down'[q]), Told(s, list[q], down[q]))

(* A page that loses its seat, or comes to a room, has heard nothing.      *)
KeepsSeat(q) == Unaware(q)' => HeardNothing(q)' \/ Unaware(q)

PageStep(q) == PageKept(q) /\ UpKept(q) /\ TellsOn(q) /\ KeepsSeat(q) /\ Quiet(q)'

LEMMA AlikeKept ==
    ASSUME ToldAlike, \A q \in Person : TellsOn(q)
    PROVE  ToldAlike'
<1> SUFFICES ASSUME NEW p \in Person, NEW q \in Person, Counts(p)', Counts(q)', NEW s \in Person,
                    NEW m \in Told(s, list[p], down[p])', NEW n \in Told(s, list[q], down[q])', m < n
             PROVE  n \in Told(s, list[p], down[p])'
  BY DEF ToldAlike
<1>1. m \in Told(s, list'[p], down'[p]) /\ n \in Told(s, list'[q], down'[q])
  OBVIOUS
<1>2. ~HeardNothing(p)' /\ ~HeardNothing(q)'
  BY <1>1 DEF HeardNothing
<1>3. /\ Counts(p) /\ Counts(q)
      /\ Latest(Told(s, list'[p], down'[p]), Told(s, list[p], down[p]))
      /\ Latest(Told(s, list'[q], down'[q]), Told(s, list[q], down[q]))
  BY <1>2 DEF TellsOn
<1>4. m \in Told(s, list[p], down[p]) /\ n \in Told(s, list[q], down[q])
  BY <1>1, <1>3 DEF Latest
<1>5. n \in Told(s, list[p], down[p])
  BY <1>3, <1>4 DEF ToldAlike
<1> QED
  BY <1>1, <1>3, <1>5 DEF Latest

(* A page's requests stay newer than all that is known of it.              *)
LEMMA RequestsKept ==
    ASSUME NEW p \in Person, RequestsInOrder(p), turns \in Nat, turns' \in Nat, turns <= turns',
           UpKept(p), NEW N \in SUBSET Nat, Known(p)' \subseteq Known(p) \cup N,
           \A k \in N : k <= turns /\ \A n \in Sent(up'[p]) : k < n,
           Listed(p, list'[p]) \subseteq Listed(p, list[p]),
           \A n \in Sent(up'[p]) : Waits(p, list[p], n) => Waits(p, list'[p], n)
    PROVE  RequestsInOrder(p)'
<1>1. Sent(up[p]) \subseteq Nat /\ Known(p) \subseteq Nat /\ Listed(p, list[p]) \subseteq Nat
  BY DEF Sent, Known, Listed, Answered
<1>2. ASSUME NEW n \in Sent(up'[p])
      PROVE  n <= turns' /\ Waits(p, list'[p], n) /\ \A k \in Known(p)' : k < n
  <2>1. n \in Sent(up[p])
    BY DEF UpKept
  <2>2. n <= turns /\ Waits(p, list[p], n) /\ \A k \in Known(p) : k < n
    BY <2>1 DEF RequestsInOrder
  <2>3. n <= turns'
    BY <1>1, <2>1, <2>2
  <2> QED
    BY <2>2, <2>3
<1>3. ASSUME NEW n \in Listed(p, list'[p]) \cup Known(p)' PROVE n <= turns'
  <2>1. n \in Nat /\ n <= turns
    BY <1>1 DEF RequestsInOrder
  <2> QED
    BY <2>1
<1>4. SentInOrder(up'[p])
  BY DEF UpKept
<1> QED
  BY <1>2, <1>3, <1>4 DEF RequestsInOrder

LEMMA KnownKept ==
    ASSUME \A q \in Person : PageKept(q), NEW p \in Person
    PROVE  Known(p)' \subseteq Known(p)
<1>1. Answered(down'[p]) \subseteq Answered(down[p])
  BY DEF PageKept
<1>2. \A q \in Person : Told(p, list'[q], down'[q]) \subseteq Told(p, list[q], down[q])
  BY DEF PageKept, ToldLess
<1> QED
  BY <1>1, <1>2 DEF Known

LEMMA RestKept ==
    ASSUME ChatInv, \A q \in Person : ToldLess(q) /\ TellsOn(q) /\ KeepsSeat(q) /\ Quiet(q)'
    PROVE  QuietWhenAway' /\ SeatlessHearNothing' /\ ToldAlike'
<1>1. QuietWhenAway'
  BY DEF QuietWhenAway
<1>2. SeatlessHearNothing'
  <2> SUFFICES ASSUME NEW q \in Person, Unaware(q)' PROVE HeardNothing(q)'
    BY DEF SeatlessHearNothing
  <2>1. CASE Unaware(q)
    <3>1. HeardNothing(q)
      BY <2>1 DEF ChatInv, SeatlessHearNothing
    <3> QED
      BY <3>1 DEF HeardNothing, ToldLess
  <2> QED
    BY <2>1 DEF KeepsSeat
<1>3. ToldAlike'
  BY AlikeKept DEF ChatInv
<1> QED
  BY <1>1, <1>2, <1>3

(* A step that does this to each page keeps the invariant.                 *)
LEMMA StepKeeps ==
    ASSUME ChatInv, ChatTypeOK', turns <= turns', \A q \in Person : PageStep(q)
    PROVE  ChatInv'
<1>1. turns \in Nat /\ turns' \in Nat /\ PagesInOrder
  BY DEF ChatInv, ChatTypeOK
<1>2. ASSUME NEW q \in Person PROVE PageInOrder(q, list[q], down[q])' /\ RequestsInOrder(q)'
  <2>1. PageKept(q) /\ UpKept(q)
    BY DEF PageStep
  <2>2. Known(q)' \subseteq Known(q)
    BY KnownKept DEF PageStep
  <2>3. RequestsInOrder(q)
    BY <1>1 DEF PagesInOrder
  <2>4. RequestsInOrder(q)'
    <3>1. /\ Listed(q, list'[q]) \subseteq Listed(q, list[q])
          /\ \A n \in Sent(up'[q]) : Waits(q, list[q], n) => Waits(q, list'[q], n)
      BY <2>1 DEF PageKept
    <3>2. /\ {} \in SUBSET Nat /\ Known(q)' \subseteq Known(q) \cup {}
          /\ \A k \in {} : k <= turns /\ \A n \in Sent(up'[q]) : k < n
      BY <2>2
    <3> QED
      BY <1>1, <2>1, <2>3, <3>1, <3>2, RequestsKept
  <2> QED
    BY <2>1, <2>4 DEF PageKept
<1>3. PagesInOrder'
  BY <1>2 DEF PagesInOrder
<1>4. QuietWhenAway' /\ SeatlessHearNothing' /\ ToldAlike'
  BY RestKept DEF PageStep, PageKept
<1> QED
  BY <1>3, <1>4 DEF ChatInv

(* A page that only its queues change, by nothing that anybody is told.    *)
PageIdles(q) ==
    /\ list'[q] = list[q] /\ page'[q] = page[q]
    /\ missed'[q] = missed[q] /\ renewed'[q] = renewed[q]
    /\ link'[q] = link[q] \/ link'[q] = "up"
    /\ q \in seats => q \in seats'
    /\ \/ down'[q] = down[q]
       \/ link[q] = "up" /\ \E m \in Events : /\ down'[q] = Append(down[q], m)
                                              /\ m.type \notin News \cup Answer /\ m.from # q
    /\ UpKept(q)
    /\ \A i \in 1..Len(up'[q]) : up'[q][i].type = "room:leave" => page[q] = "home"

LEMMA LatestSame == ASSUME NEW a PROVE Latest(a, a)
BY DEF Latest

(* A page with no more than events of no consequence is no worse off.      *)
LEMMA IdlesSteps ==
    ASSUME ChatInv, NEW q \in Person, PageIdles(q)
    PROVE  PageStep(q)
<1>1. /\ list[q] \in Seq(Entries) /\ down[q] \in Seq(Events) /\ PageInOrder(q, list[q], down[q])
      /\ link[q] \in {"up", "down"}
  BY DEF ChatInv, ChatTypeOK, PagesInOrder
<1>2. /\ PageInOrder(q, list[q], down'[q])
      /\ \A s \in Person : Told(s, list[q], down'[q]) = Told(s, list[q], down[q])
      /\ Answered(down'[q]) = Answered(down[q])
  <2>1. CASE down'[q] = down[q]
    BY <1>1, <2>1
  <2>2. ASSUME NEW m \in Events, down'[q] = Append(down[q], m), m.type \notin News \cup Answer,
               m.from # q
        PROVE  /\ PageInOrder(q, list[q], down'[q])
               /\ \A s \in Person : Told(s, list[q], down'[q]) = Told(s, list[q], down[q])
               /\ Answered(down'[q]) = Answered(down[q])
    <3>1. Fits(q, list[q], down[q], m)
      BY <2>2 DEF Fits, Answer, News
    <3>2. /\ PageInOrder(q, list[q], down'[q])
          /\ \A s \in Person : Told(s, list[q], down'[q]) =
                Told(s, list[q], down[q]) \cup (IF m.type \in News /\ m.from = s THEN {m.n} ELSE {})
          /\ Answered(down'[q]) = Answered(down[q]) \cup (IF m.type \in Answer THEN {m.n} ELSE {})
      BY <1>1, <2>2, <3>1, EventAppends
    <3>3. ASSUME NEW s \in Person PROVE Told(s, list[q], down'[q]) = Told(s, list[q], down[q]) \cup {}
      BY <2>2, <3>2
    <3>4. Answered(down'[q]) = Answered(down[q]) \cup {}
      BY <2>2, <3>2
    <3>5. \A a : a \cup {} = a
      OBVIOUS
    <3> QED
      BY <3>2, <3>3, <3>4, <3>5
  <2> QED
    BY <2>1, <2>2 DEF PageIdles
<1>3. list'[q] = list[q] /\ page'[q] = page[q] /\ missed'[q] = missed[q] /\ renewed'[q] = renewed[q]
      /\ UpKept(q)
  BY DEF PageIdles
<1>4. Listening(q)' <=> Listening(q)
  BY <1>3 DEF Listening
<1>5. PageKept(q)
  BY <1>2, <1>3 DEF PageKept, ToldLess
<1>6. TellsOn(q)
  <2>1. Counts(q)' <=> Counts(q)
    BY <1>3, <1>4 DEF Counts
  <2> QED
    BY <1>2, <1>3, <2>1, LatestSame DEF TellsOn
<1>7. KeepsSeat(q)
  BY <1>3, <1>4 DEF KeepsSeat, Unaware, PageIdles
<1>8. Quiet(q)'
  <2>1. link'[q] = "down" => down'[q] = <<>>
    BY <1>1 DEF PageIdles, ChatInv, QuietWhenAway, Quiet
  <2>2. ~Listening(q)' => list'[q] = <<>>
    BY <1>3, <1>4 DEF ChatInv, QuietWhenAway, Quiet
  <2>3. \A i \in 1..Len(up'[q]) : up'[q][i].type = "room:leave" => page'[q] = "home"
    BY <1>3 DEF PageIdles
  <2> QED
    BY <2>1, <2>2, <2>3 DEF Quiet
<1> QED
  BY <1>3, <1>5, <1>6, <1>7, <1>8 DEF PageStep

LEMMA IdleQueues ==
    ASSUME ChatInv, NEW q \in Person, up'[q] = up[q]
    PROVE  /\ UpKept(q)
           /\ \A i \in 1..Len(up'[q]) : up'[q][i].type = "room:leave" => page[q] = "home"
BY DEF UpKept, ChatInv, PagesInOrder, RequestsInOrder, QuietWhenAway, Quiet

(* Nothing of the page q changes.                                          *)
SameAt(q) ==
    /\ list'[q] = list[q] /\ page'[q] = page[q] /\ link'[q] = link[q]
    /\ missed'[q] = missed[q] /\ renewed'[q] = renewed[q]
    /\ down'[q] = down[q] /\ up'[q] = up[q]
    /\ q \in seats => q \in seats'

LEMMA SameSteps ==
    ASSUME ChatInv, NEW q \in Person, SameAt(q)
    PROVE  PageStep(q)
<1>1. UpKept(q) /\ \A i \in 1..Len(up'[q]) : up'[q][i].type = "room:leave" => page[q] = "home"
  BY IdleQueues DEF SameAt
<1>2. PageIdles(q)
  BY <1>1 DEF SameAt, PageIdles
<1> QED
  BY <1>2, IdlesSteps

(* A page whose list is empty.                                             *)
LEMMA EmptyList ==
    ASSUME NEW p \in Person, NEW l \in Seq(Entries), NEW d \in Seq(Events), PageInOrder(p, l, d)
    PROVE  /\ PageInOrder(p, <<>>, d) /\ PageInOrder(p, <<>>, <<>>)
           /\ \A s : Told(s, <<>>, d) \subseteq Told(s, l, d) /\ Told(s, <<>>, <<>>) = {}
           /\ Answered(<<>>) = {} /\ Listed(p, <<>>) = {}
           /\ \A n : Waits(p, <<>>, n)
<1>1. 1..Len(<<>>) = {}
  OBVIOUS
<1>2. PageInOrder(p, <<>>, d) /\ PageInOrder(p, <<>>, <<>>)
  BY <1>1 DEF PageInOrder, EventsInOrder, ListInOrder, ComesLater, AcksFit, Waits
<1>3. \A s : Told(s, <<>>, d) \subseteq Told(s, l, d) /\ Told(s, <<>>, <<>>) = {}
  BY <1>1 DEF Told
<1>4. Answered(<<>>) = {} /\ Listed(p, <<>>) = {} /\ \A n : Waits(p, <<>>, n)
  BY <1>1 DEF Answered, Listed, Waits
<1> QED
  BY <1>2, <1>3, <1>4

-----------------------------------------------------------------------------
(* The steps of one page.                                                  *)
LEMMA OneSteps ==
    ASSUME ChatInv, ChatTypeOK', turns <= turns', NEW p \in Person, PageStep(p),
           \A q \in Person \ {p} : SameAt(q)
    PROVE  ChatInv'
<1>1. \A q \in Person : PageStep(q)
  BY SameSteps
<1> QED
  BY <1>1, StepKeeps

LEMMA TypesOf ==
    ASSUME ChatInv, NEW p \in Person
    PROVE  /\ list[p] \in Seq(Entries) /\ up[p] \in Seq(Requests) /\ down[p] \in Seq(Events)
           /\ link[p] \in {"up", "down"} /\ page[p] \in {"home", "arriving", "loading", "chat"}
           /\ turns \in Nat
           /\ PageInOrder(p, list[p], down[p]) /\ RequestsInOrder(p) /\ Quiet(p)
BY DEF ChatInv, ChatTypeOK, PagesInOrder, QuietWhenAway

(* p asks for something that is not a message.                             *)
LEMMA AskKeeps ==
    ASSUME ChatInv, NEW p \in Person, NEW r \in Requests, up'[p] = Append(up[p], r),
           r.type \notin {"chat:message", "room:leave"}
    PROVE  UpKept(p) /\ \A i \in 1..Len(up'[p]) : up'[p][i].type = "room:leave" => page[p] = "home"
<1>1. up[p] \in Seq(Requests) /\ SentInOrder(up[p]) /\ Quiet(p)
  BY TypesOf DEF RequestsInOrder
<1>2. SentInOrder(up'[p]) /\ Sent(up'[p]) = Sent(up[p]) \cup {}
  BY <1>1, SentAppend
<1>3. ASSUME NEW i \in 1..Len(up'[p]), up'[p][i].type = "room:leave" PROVE page[p] = "home"
  <2>1. i \in 1..Len(up[p]) /\ up'[p][i] = up[p][i]
    <3>1. Append(up[p], r)[Len(up[p]) + 1] = r
      BY <1>1, AppendTyped
    <3>2. i # Len(up[p]) + 1
      BY <1>3, <3>1
    <3> QED
      BY <1>1, <3>2, AppendTyped
  <2> QED
    BY <1>1, <1>3, <2>1 DEF Quiet
<1> QED
  BY <1>2, <1>3 DEF UpKept

LEMMA HandleTypingKeeps ==
    ASSUME ChatInv, NEW p \in Person, HandleTyping(p)
    PROVE  ChatInv'
<1>1. /\ up' = [up EXCEPT ![p] = Append(@, Request("typing:start", 0))]
      /\ turns' = turns + 1
      /\ UNCHANGED <<seats, link, down, page, list, missed, renewed>>
  BY DEF HandleTyping, Turn, serverVars, ghostVars
<1>2. ChatTypeOK /\ turns \in Nat
  BY DEF ChatInv, ChatTypeOK
<1>3. PICK r \in Requests : r = Request("typing:start", 0) /\ r.type = "typing:start"
  BY RequestTyped
<1>4. up' \in [Person -> Seq(Requests)] /\ up'[p] = Append(up[p], r)
      /\ \A q \in Person \ {p} : up'[q] = up[q]
  <2>1. Append(up[p], r) \in Seq(Requests)
    BY TypesOf
  <2> QED
    BY <1>1, <1>2, <1>3, <2>1 DEF ChatTypeOK
<1>5. ChatTypeOK'
  BY <1>1, <1>2, <1>4 DEF ChatTypeOK
<1>6. PageIdles(p)
  BY <1>1, <1>3, <1>4, AskKeeps DEF PageIdles
<1>7. \A q \in Person \ {p} : SameAt(q)
  BY <1>1, <1>4 DEF SameAt
<1>8. turns <= turns'
  BY <1>1, <1>2
<1> QED
  BY <1>5, <1>6, <1>7, <1>8, IdlesSteps, OneSteps

LEMMA DebounceFiresKeeps ==
    ASSUME ChatInv, NEW p \in Person, NEW instance, DebounceFires(p, instance)
    PROVE  ChatInv'
<1>1. /\ up' = [up EXCEPT ![p] = Append(@, Request("typing:stop", 0))]
      /\ UNCHANGED <<seats, link, down, page, list, missed, renewed, turns>>
  BY DEF DebounceFires, serverVars, ghostVars
<1>2. ChatTypeOK /\ turns \in Nat
  BY DEF ChatInv, ChatTypeOK
<1>3. PICK r \in Requests : r = Request("typing:stop", 0) /\ r.type = "typing:stop"
  BY RequestTyped
<1>4. up' \in [Person -> Seq(Requests)] /\ up'[p] = Append(up[p], r)
      /\ \A q \in Person \ {p} : up'[q] = up[q]
  <2>1. Append(up[p], r) \in Seq(Requests)
    BY TypesOf
  <2> QED
    BY <1>1, <1>2, <1>3, <2>1 DEF ChatTypeOK
<1>5. ChatTypeOK'
  BY <1>1, <1>2, <1>4 DEF ChatTypeOK
<1>6. PageIdles(p)
  BY <1>1, <1>3, <1>4, AskKeeps DEF PageIdles
<1>7. \A q \in Person \ {p} : SameAt(q)
  BY <1>1, <1>4 DEF SameAt
<1>8. turns <= turns'
  BY <1>1, <1>2
<1> QED
  BY <1>5, <1>6, <1>7, <1>8, IdlesSteps, OneSteps

LEMMA SafetyNetFiresKeeps ==
    ASSUME ChatInv, NEW p \in Person, SafetyNetFires(p)
    PROVE  ChatInv'
<1>1. UNCHANGED <<seats, link, up, down, page, list, missed, renewed, turns>>
  BY DEF SafetyNetFires, serverVars, wireVars, ghostVars
<1>2. ChatTypeOK' /\ turns <= turns'
  BY <1>1 DEF ChatInv, ChatTypeOK
<1>3. \A q \in Person : SameAt(q)
  BY <1>1 DEF SameAt
<1> QED
  BY <1>2, <1>3, SameSteps, StepKeeps

(* p's list is emptied, and its socket's queues only grow by what is not a *)
(* message, or are lost.                                                   *)
LEMMA ClearedSteps ==
    ASSUME ChatInv, NEW p \in Person, list'[p] = <<>>, page'[p] \in {"home", "loading", "chat"},
           down'[p] = down[p] \/ down'[p] = <<>>, UpKept(p),
           page'[p] \in {"loading", "chat"} => down'[p] = <<>>,
           link'[p] = "down" => down'[p] = <<>>,
           \A i \in 1..Len(up'[p]) : up'[p][i].type = "room:leave" => page'[p] = "home"
    PROVE  PageStep(p)
<1>1. list[p] \in Seq(Entries) /\ down[p] \in Seq(Events) /\ PageInOrder(p, list[p], down[p])
  BY TypesOf
<1>2. /\ PageInOrder(p, <<>>, down'[p])
      /\ \A s : Told(s, <<>>, down'[p]) \subseteq Told(s, list[p], down[p])
      /\ Answered(down'[p]) \subseteq Answered(down[p]) /\ Listed(p, <<>>) = {}
      /\ \A n : Waits(p, <<>>, n)
  BY <1>1, EmptyList
<1>3. PageKept(p)
  BY <1>2 DEF PageKept, ToldLess
<1>4. page'[p] \in {"loading", "chat"} => HeardNothing(p)'
  BY <1>1, EmptyList DEF HeardNothing
<1>5. TellsOn(p)
  BY <1>4 DEF TellsOn, Counts, Listening
<1>6. KeepsSeat(p)
  BY <1>4 DEF KeepsSeat, Unaware
<1>7. Quiet(p)'
  BY DEF Quiet
<1> QED
  BY <1>3, <1>5, <1>6, <1>7 DEF PageStep

LEMMA LeaveKeeps ==
    ASSUME ChatInv, NEW p \in Person, Leave(p)
    PROVE  ChatInv'
<1> DEFINE r == Request("room:leave", 0)
           t == Request("typing:stop", 0)
           v == Append(up[p], r)
           w == IF isTyping[p] THEN Append(v, t) ELSE v
<1>1. /\ up' = [up EXCEPT ![p] = @ \o <<r>> \o (IF isTyping[p] THEN <<t>> ELSE <<>>)]
      /\ page' = [page EXCEPT ![p] = "home"] /\ list' = [list EXCEPT ![p] = <<>>]
      /\ missed' = [missed EXCEPT ![p] = FALSE] /\ renewed' = [renewed EXCEPT ![p] = FALSE]
      /\ turns' = turns + 1
      /\ UNCHANGED <<seats, link, down>>
  BY DEF Leave, Turn, Remounted, serverVars
<1>2. ChatTypeOK /\ turns \in Nat
  BY DEF ChatInv, ChatTypeOK
<1>3. /\ r \in Requests /\ r.type # "chat:message" /\ t \in Requests /\ t.type # "chat:message"
  BY RequestTyped
<1>4. up[p] \in Seq(Requests) /\ SentInOrder(up[p]) /\ Quiet(p)
  BY TypesOf DEF RequestsInOrder
<1> HIDE DEF r, t
<1>5. v \in Seq(Requests) /\ up[p] \o <<r>> = v /\ SentInOrder(v) /\ Sent(v) = Sent(up[p])
  <2>1. Sent(v) = Sent(up[p]) \cup {} /\ SentInOrder(v)
    BY <1>3, <1>4, SentAppend
  <2>2. v \in Seq(Requests) /\ up[p] \o <<r>> = v
    BY <1>3, <1>4, AppendTyped
  <2> QED
    BY <2>1, <2>2
<1> HIDE DEF v
<1>6. /\ w \in Seq(Requests) /\ v \o (IF isTyping[p] THEN <<t>> ELSE <<>>) = w
      /\ SentInOrder(w) /\ Sent(w) = Sent(up[p])
  <2>1. CASE isTyping[p]
    <3>1. Sent(w) = Sent(v) \cup {} /\ SentInOrder(w)
      BY <1>3, <1>5, <2>1, SentAppend
    <3>2. w \in Seq(Requests) /\ v \o <<t>> = w
      BY <1>3, <1>5, <2>1, AppendTyped
    <3> QED
      BY <1>5, <2>1, <3>1, <3>2
  <2>2. CASE ~isTyping[p]
    <3>1. v \o <<>> = v
      BY <1>5
    <3> QED
      BY <1>5, <2>2, <3>1
  <2> QED
    BY <2>1, <2>2
<1> HIDE DEF w
<1>7. up' = [up EXCEPT ![p] = w]
  BY <1>1, <1>5, <1>6
<1>8. /\ up' \in [Person -> Seq(Requests)] /\ up'[p] = w /\ \A q \in Person \ {p} : up'[q] = up[q]
      /\ list' \in [Person -> Seq(Entries)] /\ list'[p] = <<>>
      /\ \A q \in Person \ {p} : list'[q] = list[q]
  <2>1. <<>> \in Seq(Entries)
    OBVIOUS
  <2>2. up' \in [Person -> Seq(Requests)] /\ up'[p] = w /\ \A q \in Person \ {p} : up'[q] = up[q]
    BY <1>2, <1>6, <1>7 DEF ChatTypeOK
  <2>3. /\ list' \in [Person -> Seq(Entries)] /\ list'[p] = <<>>
        /\ \A q \in Person \ {p} : list'[q] = list[q]
    BY <1>1, <1>2, <2>1 DEF ChatTypeOK
  <2> QED
    BY <2>2, <2>3
<1>9. /\ page' \in [Person -> {"home", "arriving", "loading", "chat"}] /\ page'[p] = "home"
      /\ missed' \in [Person -> BOOLEAN] /\ renewed' \in [Person -> BOOLEAN]
      /\ \A q \in Person \ {p} :
            page'[q] = page[q] /\ missed'[q] = missed[q] /\ renewed'[q] = renewed[q]
  BY <1>1, <1>2 DEF ChatTypeOK
<1>10. ChatTypeOK'
  BY <1>1, <1>2, <1>8, <1>9 DEF ChatTypeOK
<1>11. UpKept(p)
  BY <1>6, <1>8 DEF UpKept
<1>12. PageStep(p)
  BY <1>1, <1>4, <1>8, <1>9, <1>11, ClearedSteps DEF Quiet
<1>13. \A q \in Person \ {p} : SameAt(q)
  BY <1>1, <1>8, <1>9 DEF SameAt
<1>14. turns <= turns'
  BY <1>1, <1>2
<1> QED
  BY <1>10, <1>12, <1>13, <1>14, OneSteps

(* The room's page begins with an empty list, as it was before.            *)
LEMMA MountKeeps ==
    ASSUME ChatInv, NEW p \in Person, Mount(p)
    PROVE  ChatInv'
<1>1. /\ page[p] = "arriving" /\ page' = [page EXCEPT ![p] = "chat"]
      /\ list' = [list EXCEPT ![p] = <<>>]
      /\ missed' = [missed EXCEPT ![p] = FALSE] /\ renewed' = [renewed EXCEPT ![p] = FALSE]
      /\ UNCHANGED <<seats, link, up, down, turns>>
  BY DEF Mount, Remounted, serverVars, wireVars
<1>2. ChatTypeOK /\ turns \in Nat
  BY DEF ChatInv, ChatTypeOK
<1>3. /\ list' \in [Person -> Seq(Entries)] /\ list'[p] = <<>>
      /\ \A q \in Person \ {p} : list'[q] = list[q]
  BY <1>1, <1>2 DEF ChatTypeOK
<1>4. /\ page' \in [Person -> {"home", "arriving", "loading", "chat"}] /\ page'[p] = "chat"
      /\ missed' \in [Person -> BOOLEAN] /\ renewed' \in [Person -> BOOLEAN]
      /\ missed'[p] = FALSE /\ renewed'[p] = FALSE
      /\ \A q \in Person \ {p} :
            page'[q] = page[q] /\ missed'[q] = missed[q] /\ renewed'[q] = renewed[q]
  BY <1>1, <1>2 DEF ChatTypeOK
<1>5. ChatTypeOK'
  BY <1>1, <1>2, <1>3, <1>4 DEF ChatTypeOK
<1>6. list[p] = <<>> /\ Quiet(p) /\ RequestsInOrder(p) /\ PageInOrder(p, list[p], down[p])
  BY <1>1, TypesOf DEF Quiet, Listening
<1>7. PageKept(p) /\ UpKept(p)
  BY <1>1, <1>3, <1>6 DEF PageKept, ToldLess, UpKept, RequestsInOrder
<1>8. TellsOn(p)
  <2>1. Counts(p)
    BY <1>1 DEF Counts
  <2> QED
    BY <1>1, <1>3, <1>6, <2>1, LatestSame DEF TellsOn
<1>9. KeepsSeat(p)
  BY <1>1 DEF KeepsSeat, Unaware, Listening
<1>10. Quiet(p)'
  BY <1>1, <1>3, <1>4, <1>6 DEF Quiet, Listening
<1>11. \A q \in Person \ {p} : SameAt(q)
  BY <1>1, <1>3, <1>4 DEF SameAt
<1>12. turns <= turns' /\ PageStep(p)
  BY <1>1, <1>2, <1>7, <1>8, <1>9, <1>10 DEF PageStep
<1> QED
  BY <1>5, <1>11, <1>12, OneSteps

(* An event arrives; without the hook nobody listens.                      *)
LEMMA HeardNow ==
    ASSUME NEW p \in Person, NEW d \in Seq(Events), d # <<>>, PageInOrder(p, <<>>, d)
    PROVE  HeardWell(p, <<>>, d, <<>>)
<1>1. PICK t \in Seq(Events) : t = Tail(d) /\ \A i \in 1..Len(t) : t[i] = d[i + 1] /\ i + 1 \in 1..Len(d)
  <2>1. Tail(d) \in Seq(Events)
        /\ \A i \in 1..Len(Tail(d)) : Tail(d)[i] = d[i + 1] /\ i + 1 \in 1..Len(d)
    BY TailTyped
  <2> QED
    BY <2>1
<1>2. PICK m \in Events : m = Head(d) /\ m = d[1] /\ 1 \in 1..Len(d)
  BY TailTyped
<1>3. <<>> \in Seq(Entries) /\ 1..Len(<<>>) = {}
  OBVIOUS
<1>4. /\ EventsInOrder(p, t) /\ ComesLater(<<>>, t) /\ AcksFit(p, <<>>, t)
      /\ \A s : Told(s, <<>>, d) = Told(s, <<>>, t)
                 \cup (IF m.type \in News /\ m.from = s THEN {m.n} ELSE {})
  <2>1. PICK l \in Seq(Entries) : l = <<>>
    BY <1>3
  <2>2. PageInOrder(p, l, d)
    BY <2>1
  <2>3. /\ EventsInOrder(p, Tail(d)) /\ ComesLater(l, Tail(d)) /\ AcksFit(p, l, Tail(d))
        /\ \A s : Told(s, l, d) = Told(s, l, Tail(d))
                 \cup (IF Head(d).type \in News /\ Head(d).from = s THEN {Head(d).n} ELSE {})
    BY <2>2, TailInOrder
  <2> QED
    BY <1>1, <1>2, <2>1, <2>3
<1>5. PageInOrder(p, <<>>, t)
  BY <1>3, <1>4 DEF PageInOrder, ListInOrder
<1>6. ASSUME NEW s \in Person PROVE Latest(Told(s, <<>>, t), Told(s, <<>>, d))
  <2>1. ASSUME NEW k \in Told(s, <<>>, t), m.type \in News, m.from = s, k < m.n PROVE FALSE
    <3>1. PICK j \in 1..Len(t) : t[j].type \in News /\ t[j].from = s /\ t[j].n = k
      BY <1>3 DEF Told
    <3>2. 1 < j + 1 /\ j + 1 \in 1..Len(d) /\ t[j] = d[j + 1]
      BY <1>1
    <3>3. m.n < k
      BY <1>2, <2>1, <3>1, <3>2 DEF PageInOrder, EventsInOrder
    <3>4. k \in Nat /\ m.n \in Nat
      BY DEF Told, Events
    <3> QED
      BY <2>1, <3>3, <3>4
  <2> QED
    BY <1>4, <2>1 DEF Latest
<1>7. \A n \in Nat : Waits(p, <<>>, n)
  BY <1>3 DEF Waits
<1> QED
  BY <1>1, <1>3, <1>5, <1>6, <1>7 DEF HeardWell

LEMMA ReceiveKeeps ==
    ASSUME ChatInv, NEW p \in Person, Receive(p)
    PROVE  ChatInv'
<1> DEFINE m == Head(down[p])
           c == IF Listening(p) THEN After(p, list[p], m) ELSE list[p]
<1>1. /\ down[p] # <<>> /\ down' = [down EXCEPT ![p] = Tail(@)]
      /\ list' = IF Listening(p) THEN [list EXCEPT ![p] = After(p, @, m)] ELSE list
      /\ UNCHANGED <<seats, link, up, page, missed, renewed, turns>>
  BY DEF Receive, serverVars, ghostVars
<1>2. ChatTypeOK /\ turns \in Nat
  BY DEF ChatInv, ChatTypeOK
<1>3. /\ list[p] \in Seq(Entries) /\ down[p] \in Seq(Events) /\ link[p] \in {"up", "down"}
      /\ PageInOrder(p, list[p], down[p]) /\ RequestsInOrder(p) /\ Quiet(p)
  BY TypesOf
<1>4. HeardWell(p, list[p], down[p], c)
  <2>1. CASE Listening(p)
    BY <1>1, <1>3, <2>1, HearKeeps
  <2>2. CASE ~Listening(p)
    <3>1. list[p] = <<>>
      BY <1>3, <2>2 DEF Quiet
    <3> QED
      BY <1>1, <1>3, <2>2, <3>1, HeardNow
  <2> QED
    BY <2>1, <2>2
<1>5. /\ down' \in [Person -> Seq(Events)] /\ down'[p] = Tail(down[p])
      /\ \A q \in Person \ {p} : down'[q] = down[q]
  <2>1. Tail(down[p]) \in Seq(Events)
    BY <1>1, <1>3, TailTyped
  <2> QED
    BY <1>1, <1>2, <2>1 DEF ChatTypeOK
<1>6. /\ list' \in [Person -> Seq(Entries)] /\ list'[p] = c
      /\ \A q \in Person \ {p} : list'[q] = list[q]
  <2>1. c \in Seq(Entries)
    BY <1>4 DEF HeardWell
  <2>2. CASE Listening(p)
    BY <1>1, <1>2, <2>1, <2>2 DEF ChatTypeOK
  <2>3. CASE ~Listening(p)
    BY <1>1, <1>2, <2>1, <2>3 DEF ChatTypeOK
  <2> QED
    BY <2>2, <2>3
<1> HIDE DEF c, m
<1>7. ChatTypeOK' /\ turns <= turns'
  BY <1>1, <1>2, <1>5, <1>6 DEF ChatTypeOK
<1>8. PageKept(p)
  <2>1. PageInOrder(p, list'[p], down'[p])
    BY <1>4, <1>5, <1>6 DEF HeardWell
  <2>2. ToldLess(p)
    BY <1>4, <1>5, <1>6 DEF HeardWell, ToldLess, Latest
  <2>3. Answered(down'[p]) \subseteq Answered(down[p])
    BY <1>1, <1>3, <1>5, TailTyped DEF Answered
  <2>4. Listed(p, list'[p]) \subseteq Listed(p, list[p])
    BY <1>4, <1>6 DEF HeardWell, Listed
  <2>5. ASSUME NEW n \in Sent(up'[p]), Waits(p, list[p], n) PROVE Waits(p, list'[p], n)
    <3>1. n \in Sent(up[p]) /\ n \in Nat
      BY <1>1 DEF Sent
    <3>2. Head(down[p]).type \in Answer => Head(down[p]).n < n
      <4> SUFFICES ASSUME Head(down[p]).type \in Answer PROVE Head(down[p]).n \in Known(p)
        BY <1>3, <3>1 DEF RequestsInOrder
      <4>1. Head(down[p]) = down[p][1] /\ 1 \in 1..Len(down[p]) /\ down[p][1].n \in Nat
        BY <1>1, <1>3, TailTyped, EventsTyped
      <4> QED
        BY <4>1 DEF Known, Answered
    <3> QED
      BY <1>4, <1>6, <2>5, <3>1, <3>2 DEF HeardWell
  <2> QED
    BY <2>1, <2>2, <2>3, <2>4, <2>5 DEF PageKept
<1>9. TellsOn(p)
  <2>1. Counts(p)' <=> Counts(p)
    BY <1>1 DEF Counts, Listening
  <2> QED
    BY <1>4, <1>5, <1>6, <2>1 DEF TellsOn, HeardWell
<1>10. KeepsSeat(p)
  BY <1>1 DEF KeepsSeat, Unaware, Listening
<1>11. Quiet(p)'
  BY <1>1, <1>3, <1>6 DEF Quiet, Listening, c
<1>12. UpKept(p)
  BY <1>1, IdleQueues
<1>13. \A q \in Person \ {p} : SameAt(q)
  BY <1>1, <1>5, <1>6 DEF SameAt
<1>14. PageStep(p)
  BY <1>8, <1>9, <1>10, <1>11, <1>12 DEF PageStep
<1> QED
  BY <1>7, <1>13, <1>14, OneSteps

(* Fewer requests, the same page.                                          *)
LEMMA TailKeeps ==
    ASSUME ChatInv, NEW p \in Person, up[p] # <<>>, up'[p] = Tail(up[p])
    PROVE  UpKept(p) /\ \A i \in 1..Len(up'[p]) : up'[p][i].type = "room:leave" => page[p] = "home"
<1>1. up[p] \in Seq(Requests) /\ SentInOrder(up[p]) /\ Quiet(p)
  BY TypesOf DEF RequestsInOrder
<1>2. UpKept(p)
  BY <1>1, SentTail DEF UpKept
<1>3. \A i \in 1..Len(up'[p]) : up'[p][i] = up[p][i + 1] /\ i + 1 \in 1..Len(up[p])
  BY <1>1, TailTyped
<1> QED
  BY <1>1, <1>2, <1>3 DEF Quiet

LEMMA ThrottledKeeps ==
    ASSUME ChatInv, NEW p \in Person, Throttled(p)
    PROVE  ChatInv'
<1>1. /\ up[p] # <<>> /\ up' = [up EXCEPT ![p] = Tail(@)] /\ turns' = turns + 1
      /\ UNCHANGED <<seats, link, down, page, list, missed, renewed>>
  BY DEF Throttled, Turn, serverVars, pageVars
<1>2. ChatTypeOK /\ turns \in Nat
  BY DEF ChatInv, ChatTypeOK
<1>3. up' \in [Person -> Seq(Requests)] /\ up'[p] = Tail(up[p])
      /\ \A q \in Person \ {p} : up'[q] = up[q]
  <2>1. Tail(up[p]) \in Seq(Requests)
    BY <1>1, TypesOf, TailTyped
  <2> QED
    BY <1>1, <1>2, <2>1 DEF ChatTypeOK
<1>4. ChatTypeOK'
  BY <1>1, <1>2, <1>3 DEF ChatTypeOK
<1>5. PageIdles(p)
  BY <1>1, <1>3, TailKeeps DEF PageIdles
<1>6. \A q \in Person \ {p} : SameAt(q)
  BY <1>1, <1>3 DEF SameAt
<1>7. turns <= turns'
  BY <1>1, <1>2
<1> QED
  BY <1>4, <1>5, <1>6, <1>7, IdlesSteps, OneSteps

(* The connection breaks.                                                  *)
LEMMA EmptyQueue ==
    ASSUME NEW p \in Person, NEW l \in Seq(Entries), NEW d \in Seq(Events), PageInOrder(p, l, d)
    PROVE  /\ PageInOrder(p, l, <<>>) /\ Answered(<<>>) = {}
           /\ \A s : Told(s, l, <<>>) \subseteq Told(s, l, d)
           /\ (~\E i \in 1..Len(d) : d[i].type \in News) => \A s : Told(s, l, <<>>) = Told(s, l, d)
<1>1. 1..Len(<<>>) = {}
  OBVIOUS
<1>2. PageInOrder(p, l, <<>>)
  BY <1>1 DEF PageInOrder, EventsInOrder, ComesLater, AcksFit
<1>3. \A s : Told(s, l, <<>>) \subseteq Told(s, l, d)
  BY <1>1 DEF Told
<1>4. ASSUME ~\E i \in 1..Len(d) : d[i].type \in News, NEW s PROVE Told(s, l, <<>>) = Told(s, l, d)
  <2>1. Told(s, l, d) \subseteq Told(s, l, <<>>)
    BY <1>4 DEF Told
  <2> QED
    BY <1>3, <2>1
<1>5. Answered(<<>>) = {}
  BY <1>1 DEF Answered
<1> QED
  BY <1>2, <1>3, <1>4, <1>5

LEMMA DropKeeps ==
    ASSUME ChatInv, NEW p \in Person, Drop(p)
    PROVE  ChatInv'
<1>1. /\ link' = [link EXCEPT ![p] = "down"] /\ turns' = turns + 1
      /\ up' = [up EXCEPT ![p] = <<>>] /\ down' = [down EXCEPT ![p] = <<>>]
      /\ missed' = [missed EXCEPT ![p] = @ \/ (Listening(p) /\ LostEvents(p))]
      /\ UNCHANGED <<seats, page, list, renewed>>
  BY DEF Drop, Turn, Severed, serverVars, pageVars
<1>2. ChatTypeOK /\ turns \in Nat
  BY DEF ChatInv, ChatTypeOK
<1>3. /\ <<>> \in Seq(Requests) /\ <<>> \in Seq(Events)
  OBVIOUS
<1>4. /\ up' \in [Person -> Seq(Requests)] /\ up'[p] = <<>>
      /\ \A q \in Person \ {p} : up'[q] = up[q]
  BY <1>1, <1>2, <1>3 DEF ChatTypeOK
<1>5. /\ down' \in [Person -> Seq(Events)] /\ down'[p] = <<>>
      /\ \A q \in Person \ {p} : down'[q] = down[q]
  BY <1>1, <1>2, <1>3 DEF ChatTypeOK
<1>6. /\ link' \in [Person -> {"up", "down"}] /\ \A q \in Person \ {p} : link'[q] = link[q]
  BY <1>1, <1>2 DEF ChatTypeOK
<1>7. /\ missed' \in [Person -> BOOLEAN]
      /\ missed'[p] = (missed[p] \/ (Listening(p) /\ LostEvents(p)))
      /\ \A q \in Person \ {p} : missed'[q] = missed[q]
  <2>1. (missed[p] \/ (Listening(p) /\ LostEvents(p))) \in BOOLEAN
    BY <1>2, Zenon DEF ChatTypeOK
  <2> DEFINE b == missed[p] \/ (Listening(p) /\ LostEvents(p))
  <2>2. missed' = [missed EXCEPT ![p] = b]
    BY <1>1
  <2> HIDE DEF b
  <2>3. b \in BOOLEAN
    BY <2>1 DEF b
  <2>4. missed' \in [Person -> BOOLEAN] /\ missed'[p] = b /\ \A q \in Person \ {p} : missed'[q] = missed[q]
    BY <1>2, <2>2, <2>3 DEF ChatTypeOK
  <2> QED
    BY <2>4 DEF b
<1>8. ChatTypeOK'
  BY <1>1, <1>2, <1>4, <1>5, <1>6, <1>7 DEF ChatTypeOK
<1>9. list[p] \in Seq(Entries) /\ down[p] \in Seq(Events) /\ PageInOrder(p, list[p], down[p]) /\ Quiet(p)
  BY TypesOf
<1>10. /\ PageInOrder(p, list[p], <<>>) /\ Answered(<<>>) = {}
       /\ \A s : Told(s, list[p], <<>>) \subseteq Told(s, list[p], down[p])
  BY <1>9, EmptyQueue
<1>11. PageKept(p)
  BY <1>1, <1>5, <1>10 DEF PageKept, ToldLess
<1>12. UpKept(p)
  BY <1>4, SentEmpty DEF UpKept
<1>13. TellsOn(p)
  <2> SUFFICES ASSUME Counts(p)'
               PROVE  HeardNothing(p)' \/
                      (Counts(p) /\ \A s \in Person :
                          Latest(Told(s, list'[p], down'[p]), Told(s, list[p], down[p])))
    BY DEF TellsOn
  <2>1. CASE page[p] = "arriving"
    <3>1. list[p] = <<>>
      BY <1>9, <2>1 DEF Quiet, Listening
    <3>2. HeardNothing(p)'
      BY <1>1, <1>5, <1>9, <3>1, EmptyList DEF HeardNothing
    <3> QED
      BY <3>2
  <2>2. CASE page[p] # "arriving"
    <3>1. Listening(p) /\ ~missed'[p] /\ ~renewed[p]
      BY <1>1, <2>2 DEF Counts, Listening
    <3>2. Counts(p) /\ ~LostEvents(p)
      BY <1>7, <3>1 DEF Counts
    <3>3. ~\E i \in 1..Len(down[p]) : down[p][i].type \in News
      BY <1>9, <3>2 DEF LostEvents, ToSet, News
    <3>4. \A s : Told(s, list[p], <<>>) = Told(s, list[p], down[p])
      BY <1>9, <3>3, EmptyQueue
    <3> QED
      BY <1>1, <1>5, <3>2, <3>4, LatestSame
  <2> QED
    BY <2>1, <2>2
<1>14. KeepsSeat(p)
  BY <1>1 DEF KeepsSeat, Unaware, Listening
<1>15. Quiet(p)'
  BY <1>1, <1>4, <1>5, <1>9 DEF Quiet, Listening
<1>16. \A q \in Person \ {p} : SameAt(q)
  BY <1>1, <1>4, <1>5, <1>6, <1>7 DEF SameAt
<1>17. turns <= turns' /\ PageStep(p)
  BY <1>1, <1>2, <1>11, <1>12, <1>13, <1>14, <1>15 DEF PageStep
<1> QED
  BY <1>8, <1>16, <1>17, OneSteps

LEMMA ReloadKeeps ==
    ASSUME ChatInv, NEW p \in Person, Reload(p)
    PROVE  ChatInv'
<1>1. /\ link' = [link EXCEPT ![p] = "down"] /\ turns' = turns + 1
      /\ up' = [up EXCEPT ![p] = <<>>] /\ down' = [down EXCEPT ![p] = <<>>]
      /\ page' = [page EXCEPT ![p] = "loading"] /\ list' = [list EXCEPT ![p] = <<>>]
      /\ missed' = [missed EXCEPT ![p] = FALSE] /\ renewed' = [renewed EXCEPT ![p] = FALSE]
      /\ UNCHANGED seats
  BY DEF Reload, Turn, Severed, Remounted, serverVars
<1>2. ChatTypeOK /\ turns \in Nat
  BY DEF ChatInv, ChatTypeOK
<1>3. /\ <<>> \in Seq(Requests) /\ <<>> \in Seq(Events) /\ <<>> \in Seq(Entries)
  OBVIOUS
<1>4. /\ up' \in [Person -> Seq(Requests)] /\ up'[p] = <<>>
      /\ \A q \in Person \ {p} : up'[q] = up[q]
  BY <1>1, <1>2, <1>3 DEF ChatTypeOK
<1>5. /\ down' \in [Person -> Seq(Events)] /\ down'[p] = <<>>
      /\ \A q \in Person \ {p} : down'[q] = down[q]
  BY <1>1, <1>2, <1>3 DEF ChatTypeOK
<1>6. /\ list' \in [Person -> Seq(Entries)] /\ list'[p] = <<>>
      /\ \A q \in Person \ {p} : list'[q] = list[q]
  BY <1>1, <1>2, <1>3 DEF ChatTypeOK
<1>7. /\ link' \in [Person -> {"up", "down"}]
      /\ page' \in [Person -> {"home", "arriving", "loading", "chat"}] /\ page'[p] = "loading"
      /\ missed' \in [Person -> BOOLEAN] /\ renewed' \in [Person -> BOOLEAN]
      /\ \A q \in Person \ {p} : /\ link'[q] = link[q] /\ page'[q] = page[q]
                                 /\ missed'[q] = missed[q] /\ renewed'[q] = renewed[q]
  BY <1>1, <1>2 DEF ChatTypeOK
<1>8. ChatTypeOK'
  BY <1>1, <1>2, <1>4, <1>5, <1>6, <1>7 DEF ChatTypeOK
<1>9. UpKept(p)
  BY <1>4, SentEmpty DEF UpKept
<1>10. 1..Len(<<>>) = {}
  OBVIOUS
<1>11. PageStep(p)
  BY <1>4, <1>5, <1>6, <1>7, <1>9, <1>10, ClearedSteps
<1>12. \A q \in Person \ {p} : SameAt(q)
  BY <1>1, <1>4, <1>5, <1>6, <1>7 DEF SameAt
<1>13. turns <= turns'
  BY <1>1, <1>2
<1> QED
  BY <1>8, <1>11, <1>12, <1>13, OneSteps

(* The guard gets its answer: the page goes on, or goes home.              *)
LEMMA RestoreKeeps ==
    ASSUME ChatInv, NEW p \in Person, Restore(p)
    PROVE  ChatInv'
<1>1. /\ page[p] = "loading" /\ link[p] = "up"
      /\ UNCHANGED <<seats, link, up, down, turns>>
      /\ \/ /\ p \in seats /\ page' = [page EXCEPT ![p] = "chat"]
            /\ UNCHANGED <<list, missed, renewed>>
         \/ Remounted(p, "home")
  BY DEF Restore, serverVars, wireVars
<1>2. ChatTypeOK /\ turns \in Nat
  BY DEF ChatInv, ChatTypeOK
<1>3. /\ list[p] \in Seq(Entries) /\ PageInOrder(p, list[p], down[p]) /\ Quiet(p)
  BY TypesOf
<1>4. UpKept(p) /\ \A i \in 1..Len(up'[p]) : up'[p][i].type # "room:leave"
  BY <1>1, <1>3, IdleQueues
<1>5. CASE p \in seats /\ page' = [page EXCEPT ![p] = "chat"] /\ UNCHANGED <<list, missed, renewed>>
  <2>1. /\ page' \in [Person -> {"home", "arriving", "loading", "chat"}] /\ page'[p] = "chat"
        /\ \A q \in Person \ {p} : page'[q] = page[q]
    BY <1>2, <1>5 DEF ChatTypeOK
  <2>2. ChatTypeOK'
    BY <1>1, <1>2, <1>5, <2>1 DEF ChatTypeOK
  <2>3. PageKept(p)
    BY <1>1, <1>3, <1>5 DEF PageKept, ToldLess
  <2>4. TellsOn(p)
    <3>1. Counts(p)' => Counts(p)
      BY <1>1, <1>5, <2>1 DEF Counts, Listening
    <3> QED
      BY <1>1, <1>5, <3>1, LatestSame DEF TellsOn
  <2>5. KeepsSeat(p)
    BY <1>1, <1>5 DEF KeepsSeat, Unaware
  <2>6. Quiet(p)'
    BY <1>1, <1>4, <2>1 DEF Quiet, Listening
  <2>7. \A q \in Person \ {p} : SameAt(q)
    BY <1>1, <1>5, <2>1 DEF SameAt
  <2>8. turns <= turns' /\ PageStep(p)
    BY <1>1, <1>2, <1>4, <2>3, <2>4, <2>5, <2>6 DEF PageStep
  <2> QED
    BY <2>2, <2>7, <2>8, OneSteps
<1>6. CASE Remounted(p, "home")
  <2>1. /\ page' = [page EXCEPT ![p] = "home"] /\ list' = [list EXCEPT ![p] = <<>>]
        /\ missed' = [missed EXCEPT ![p] = FALSE] /\ renewed' = [renewed EXCEPT ![p] = FALSE]
    BY <1>6 DEF Remounted
  <2>2. <<>> \in Seq(Entries)
    OBVIOUS
  <2>3. /\ list' \in [Person -> Seq(Entries)] /\ list'[p] = <<>>
        /\ \A q \in Person \ {p} : list'[q] = list[q]
    BY <1>2, <2>1, <2>2 DEF ChatTypeOK
  <2>4. /\ page' \in [Person -> {"home", "arriving", "loading", "chat"}] /\ page'[p] = "home"
        /\ missed' \in [Person -> BOOLEAN] /\ renewed' \in [Person -> BOOLEAN]
        /\ \A q \in Person \ {p} :
              page'[q] = page[q] /\ missed'[q] = missed[q] /\ renewed'[q] = renewed[q]
    BY <1>2, <2>1 DEF ChatTypeOK
  <2>5. ChatTypeOK'
    BY <1>1, <1>2, <2>3, <2>4 DEF ChatTypeOK
  <2>6. PageStep(p)
    BY <1>1, <1>4, <2>3, <2>4, ClearedSteps
  <2>7. \A q \in Person \ {p} : SameAt(q)
    BY <1>1, <2>3, <2>4 DEF SameAt
  <2>8. turns <= turns'
    BY <1>1, <1>2
  <2> QED
    BY <2>5, <2>6, <2>7, <2>8, OneSteps
<1> QED
  BY <1>1, <1>5, <1>6

(* The others' requests, when nobody is told anything new.                 *)
LEMMA OthersRequests ==
    ASSUME ChatInv, turns' \in Nat, turns <= turns', NEW q \in Person,
           up'[q] = up[q], list'[q] = list[q], Known(q)' \subseteq Known(q)
    PROVE  RequestsInOrder(q)'
<1>1. RequestsInOrder(q) /\ turns \in Nat
  BY TypesOf
<1>2. UpKept(q)
  BY IdleQueues
<1>3. /\ {} \in SUBSET Nat /\ Known(q)' \subseteq Known(q) \cup {}
      /\ \A k \in {} : k <= turns /\ \A n \in Sent(up'[q]) : k < n
  OBVIOUS
<1>4. /\ Listed(q, list'[q]) \subseteq Listed(q, list[q])
      /\ \A n \in Sent(up'[q]) : Waits(q, list[q], n) => Waits(q, list'[q], n)
  OBVIOUS
<1> QED
  BY <1>1, <1>2, <1>3, <1>4, RequestsKept

LEMMA SendMessageKeeps ==
    ASSUME ChatInv, NEW p \in Person, SendMessage(p)
    PROVE  ChatInv'
<1> DEFINE n == turns + 1
           e == Entry(p, n, "pending")
           r == Request("chat:message", n)
           c == Shown(list[p], e)
<1>1. /\ page[p] = "chat" /\ link[p] = "up" /\ turns' = n
      /\ list' = [list EXCEPT ![p] = Shown(@, e)] /\ up' = [up EXCEPT ![p] = Append(@, r)]
      /\ UNCHANGED <<seats, link, down, page, missed, renewed>>
  BY DEF SendMessage, InputEnabled, Turn, serverVars, ghostVars
<1>2. ChatTypeOK /\ turns \in Nat /\ n \in Nat /\ turns < n
  BY DEF ChatInv, ChatTypeOK
<1>3. /\ e \in Entries /\ e.from = p /\ e.n = n /\ e.state = "pending"
      /\ r \in Requests /\ r.type = "chat:message" /\ r.n = n
  BY <1>2, EntryTyped, RequestTyped
<1>4. /\ list[p] \in Seq(Entries) /\ down[p] \in Seq(Events) /\ up[p] \in Seq(Requests)
      /\ PageInOrder(p, list[p], down[p]) /\ RequestsInOrder(p) /\ Quiet(p)
  BY TypesOf
<1>5. /\ \A k \in Sent(up[p]) : k \in Nat /\ k <= turns /\ Waits(p, list[p], k) /\ \A j \in Known(p) : j < k
      /\ \A k \in Listed(p, list[p]) : k \in Nat /\ k <= turns
      /\ \A k \in Known(p) : k \in Nat /\ k <= turns
      /\ SentInOrder(up[p])
  <2>1. Sent(up[p]) \subseteq Nat /\ Known(p) \subseteq Nat /\ Listed(p, list[p]) \subseteq Nat
    BY DEF Sent, Known, Listed, Answered
  <2> QED
    BY <1>4, <2>1 DEF RequestsInOrder
<1> HIDE DEF e, r, n
<1>6. FitsBehind(p, list[p], down[p], e)
  <2>1. ASSUME NEW i \in 1..Len(list[p]), list[p][i].from = e.from PROVE list[p][i].n < e.n
    <3>1. list[p][i].n \in Listed(p, list[p])
      BY <1>3, <1>4, <2>1, EntriesTyped DEF Listed
    <3> QED
      BY <1>2, <1>3, <1>5, <3>1
  <2> QED
    BY <1>3, <2>1 DEF FitsBehind
<1>7. /\ c \in Seq(Entries) /\ ListInOrder(p, c) /\ ComesLater(c, down[p])
      /\ \A s \in Person : Latest(Told(s, c, down[p]),
                                  Told(s, list[p], down[p]) \cup (IF IsFrom(s, e) THEN {e.n} ELSE {}))
      /\ \A k \in Nat : /\ Waits(p, list[p], k)
                        /\ e.from = p /\ e.state = "pending" => k <= e.n
                        => Waits(p, c, k)
      /\ Waits(p, c, n)
      /\ \A i \in 1..Len(c) : c[i] = e \/ \E j \in 1..Len(list[p]) : c[i] = list[p][j]
  <2>1. ListInOrder(p, list[p]) /\ ComesLater(list[p], down[p])
    BY <1>4 DEF PageInOrder
  <2>2. ShowsMore(p, list[p], down[p], e, c)
    BY <1>3, <1>4, <1>6, <2>1, ShownKeeps
  <2> QED
    BY <1>3, <2>2 DEF ShowsMore
<1> HIDE DEF c
<1>8. /\ list' \in [Person -> Seq(Entries)] /\ list'[p] = c
      /\ \A q \in Person \ {p} : list'[q] = list[q]
  BY <1>1, <1>2, <1>7 DEF ChatTypeOK, c
<1>9. /\ up' \in [Person -> Seq(Requests)] /\ up'[p] = Append(up[p], r)
      /\ \A q \in Person \ {p} : up'[q] = up[q]
  <2>1. Append(up[p], r) \in Seq(Requests)
    BY <1>3, <1>4
  <2> QED
    BY <1>1, <1>2, <2>1 DEF ChatTypeOK
<1>10. ChatTypeOK' /\ turns <= turns' /\ turns' \in Nat
  BY <1>1, <1>2, <1>8, <1>9 DEF ChatTypeOK
<1>11. \A s \in Person : Latest(Told(s, c, down[p]), Told(s, list[p], down[p]))
  <2> SUFFICES ASSUME NEW s \in Person
               PROVE  Told(s, list[p], down[p]) \cup (IF IsFrom(s, e) THEN {e.n} ELSE {})
                      = Told(s, list[p], down[p])
    BY <1>7
  <2> QED
    BY <1>3 DEF IsFrom
<1>12. ASSUME NEW q \in Person \ {p} PROVE SameAt(q)
  BY <1>1, <1>8, <1>9, <1>12 DEF SameAt
<1>13. ASSUME NEW q \in Person PROVE ToldLess(q) /\ TellsOn(q) /\ KeepsSeat(q) /\ Quiet(q)'
  <2>1. CASE q # p
    BY <1>12, <2>1, SameSteps DEF PageStep, PageKept
  <2>2. CASE q = p
    <3>1. ToldLess(p)
      BY <1>1, <1>8, <1>11 DEF ToldLess, Latest
    <3>2. TellsOn(p)
      <4>1. Counts(p)' <=> Counts(p)
        BY <1>1 DEF Counts, Listening
      <4> QED
        BY <1>1, <1>8, <1>11, <4>1 DEF TellsOn
    <3>3. KeepsSeat(p)
      BY <1>1 DEF KeepsSeat, Unaware, Listening
    <3>4. Quiet(p)'
      <4>1. ASSUME NEW i \in 1..Len(up'[p]), up'[p][i].type = "room:leave" PROVE FALSE
        <5>1. i \in 1..Len(up[p]) /\ up'[p][i] = up[p][i]
          <6>1. Append(up[p], r)[Len(up[p]) + 1] = r
            BY <1>3, <1>4, AppendTyped
          <6>2. i # Len(up[p]) + 1
            BY <1>3, <1>9, <4>1, <6>1
          <6> QED
            BY <1>3, <1>4, <1>9, <6>2, AppendTyped
        <5> QED
          BY <1>1, <1>4, <4>1, <5>1 DEF Quiet
      <4> QED
        BY <1>1, <1>4, <4>1 DEF Quiet, Listening
    <3> QED
      BY <2>2, <3>1, <3>2, <3>3, <3>4
  <2> QED
    BY <2>1, <2>2
<1>14. \A q \in Person : Known(q)' \subseteq Known(q)
  <2> SUFFICES ASSUME NEW q \in Person PROVE Known(q)' \subseteq Known(q)
    OBVIOUS
  <2>1. Answered(down'[q]) = Answered(down[q])
    BY <1>1
  <2>2. \A x \in Person : Told(q, list'[x], down'[x]) \subseteq Told(q, list[x], down[x])
    BY <1>13 DEF ToldLess
  <2> QED
    BY <2>1, <2>2 DEF Known
<1>15. PageInOrder(p, list'[p], down'[p])
  <2>1. ASSUME NEW j \in 1..Len(down[p]), down[p][j].type = "ack" PROVE Waits(p, c, down[p][j].n)
    <3>1. down[p][j].n \in Known(p) /\ down[p][j].n \in Nat
      BY <1>4, <2>1, EventsTyped DEF Known, Answered, Answer
    <3>2. down[p][j].n <= e.n
      BY <1>2, <1>3, <1>5, <3>1
    <3>3. Waits(p, list[p], down[p][j].n)
      BY <1>4, <2>1 DEF PageInOrder, AcksFit
    <3> QED
      BY <1>7, <3>1, <3>2, <3>3
  <2> QED
    BY <1>1, <1>4, <1>7, <1>8, <2>1 DEF PageInOrder, AcksFit
<1>16. RequestsInOrder(p)'
  <2>1. /\ SentInOrder(up'[p]) /\ \A k \in Sent(up'[p]) : k \in Sent(up[p]) \/ k = n
    <3>1. \A k \in Sent(up[p]) : k < r.n
      BY <1>2, <1>3, <1>5
    <3> QED
      BY <1>3, <1>4, <1>5, <1>9, <3>1, SentAppend
  <2>2. ASSUME NEW k \in Sent(up'[p]) PROVE k <= turns' /\ Waits(p, c, k) /\ \A j \in Known(p)' : j < k
    <3>1. CASE k \in Sent(up[p])
      <4>1. k \in Nat /\ k <= n
        BY <1>2, <1>5, <3>1
      <4> QED
        BY <1>1, <1>3, <1>5, <1>7, <1>14, <3>1, <4>1
    <3>2. CASE k = n
      <4>1. \A j \in Known(p)' : j < n
        BY <1>2, <1>5, <1>14
      <4> QED
        BY <1>1, <1>2, <1>7, <3>2, <4>1
    <3> QED
      BY <2>1, <3>1, <3>2
  <2>3. ASSUME NEW k \in Listed(p, c) PROVE k <= turns'
    <3>1. PICK i \in 1..Len(c) : c[i].from = p /\ c[i].n = k
      BY DEF Listed
    <3>2. CASE c[i] = e
      BY <1>1, <1>2, <1>3, <3>1, <3>2
    <3>3. ASSUME NEW j \in 1..Len(list[p]), c[i] = list[p][j] PROVE k <= turns'
      <4>1. k \in Listed(p, list[p])
        BY <3>1, <3>3 DEF Listed
      <4> QED
        BY <1>1, <1>2, <1>5, <4>1
    <3> QED
      BY <1>7, <3>2, <3>3
  <2>4. \A k \in Known(p)' : k <= turns'
    BY <1>1, <1>2, <1>5, <1>14
  <2> QED
    BY <1>8, <2>1, <2>2, <2>3, <2>4 DEF RequestsInOrder
<1>17. PagesInOrder'
  <2> SUFFICES ASSUME NEW q \in Person
               PROVE  PageInOrder(q, list[q], down[q])' /\ RequestsInOrder(q)'
    BY DEF PagesInOrder
  <2>1. CASE q # p
    <3>1. PageInOrder(q, list'[q], down'[q])
      BY <1>12, <2>1, TypesOf DEF SameAt
    <3>2. RequestsInOrder(q)'
      BY <1>10, <1>12, <1>14, <2>1, OthersRequests DEF SameAt
    <3> QED
      BY <3>1, <3>2
  <2>2. CASE q = p
    BY <1>15, <1>16, <2>2
  <2> QED
    BY <2>1, <2>2
<1>18. QuietWhenAway' /\ SeatlessHearNothing' /\ ToldAlike'
  BY <1>13, RestKept
<1> QED
  BY <1>10, <1>17, <1>18 DEF ChatInv

-----------------------------------------------------------------------------
(* The server tells the others of p something that is not a message.       *)
Announced(p) ==
    /\ down' \in [Person -> Seq(Events)] /\ missed' \in [Person -> BOOLEAN]
    /\ \A q \in Person : missed'[q] = missed[q]
    /\ \A q \in Person :
          \/ down'[q] = down[q]
          \/ /\ q # p /\ link[q] = "up"
             /\ \E m \in Events : /\ down'[q] = Append(down[q], m)
                                  /\ m.type \notin News \cup Answer /\ m.from # q

LEMMA NothingAnnounced ==
    ASSUME ChatInv, NEW p \in Person, UNCHANGED <<down, missed>>
    PROVE  Announced(p)
BY DEF Announced, ChatInv, ChatTypeOK

LEMMA RelayAnnounces ==
    ASSUME ChatInv, NEW p \in Person, NEW volatile \in BOOLEAN,
           NEW type \in {"typing:start", "typing:stop", "room:peer-joined", "room:peer-left"},
           Relayed(p, Event(type, p, 0), <<>>, volatile)
    PROVE  Announced(p)
<1>1. PICK m \in Events : m = Event(type, p, 0) /\ m.type = type /\ m.from = p
  BY EventTyped
<1>2. PICK lost :
         /\ down' = [q \in Person |->
                IF q = p THEN down[q] \o <<>>
                ELSE IF q \in seats \ lost /\ link[q] = "up" THEN Append(down[q], m)
                ELSE down[q]]
         /\ missed' = [q \in Person |->
                \/ missed[q]
                \/ /\ m.type = "chat:message" /\ q \in seats \ {p}
                   /\ link[q] # "up" /\ list[q] # <<>>]
  <2>1. Relayed(p, m, <<>>, volatile)
    BY <1>1
  <2> QED
    BY <2>1, Zenon DEF Relayed
<1>3. m.type # "chat:message" /\ m.type \notin News \cup Answer
  BY <1>1 DEF News, Answer
<1>4. \A q \in Person : down[q] \in Seq(Events) /\ missed[q] \in BOOLEAN
  BY DEF ChatInv, ChatTypeOK
<1>5. \A q \in Person : down[q] \o <<>> = down[q] /\ Append(down[q], m) \in Seq(Events)
  BY <1>4
<1>6. ASSUME NEW q \in Person PROVE missed'[q] = missed[q]
  BY <1>2, <1>3, <1>4, Zenon
<1>7. missed' \in [Person -> BOOLEAN]
  <2>1. missed' = [q \in Person |-> missed'[q]]
    BY <1>2, Zenon
  <2> QED
    BY <1>4, <1>6, <2>1, Zenon
<1>8. ASSUME NEW q \in Person
      PROVE  /\ down'[q] \in Seq(Events)
             /\ \/ down'[q] = down[q]
                \/ q # p /\ link[q] = "up" /\ down'[q] = Append(down[q], m)
  BY <1>2, <1>4, <1>5
<1>9. down' \in [Person -> Seq(Events)]
  <2>1. down' = [q \in Person |-> down'[q]]
    BY <1>2, Zenon
  <2> QED
    BY <1>8, <2>1
<1> QED
  BY <1>1, <1>3, <1>6, <1>7, <1>8, <1>9 DEF Announced

LEMMA StopsTypingAnnounces ==
    ASSUME ChatInv, NEW p \in Person, StopsTyping(p)
    PROVE  Announced(p)
<1>1. Relayed(p, Event("typing:stop", p, 0), <<>>, TRUE) \/ UNCHANGED <<down, missed>>
  BY DEF StopsTyping
<1> QED
  BY <1>1, RelayAnnounces, NothingAnnounced

(* An announcement is all that happens, but for the requests of p.         *)
LEMMA AnnouncedKeeps ==
    ASSUME ChatInv, NEW p \in Person, Announced(p), UNCHANGED <<seats, page, list, renewed, turns>>,
           link' \in [Person -> {"up", "down"}], \A q \in Person : link'[q] = link[q] \/ link'[q] = "up",
           up' \in [Person -> Seq(Requests)], \A q \in Person \ {p} : up'[q] = up[q],
           up'[p] = up[p] \/ (up[p] # <<>> /\ up'[p] = Tail(up[p]))
    PROVE  ChatInv'
<1>1. ChatTypeOK' /\ turns <= turns'
  BY DEF ChatInv, ChatTypeOK, Announced
<1>2. ASSUME NEW q \in Person PROVE PageIdles(q)
  <2>1. /\ UpKept(q)
        /\ \A i \in 1..Len(up'[q]) : up'[q][i].type = "room:leave" => page[q] = "home"
    BY IdleQueues, TailKeeps
  <2> QED
    BY <2>1 DEF PageIdles, Announced
<1> QED
  BY <1>1, <1>2, IdlesSteps, StepKeeps

LEMMA TypingExpiresKeeps ==
    ASSUME ChatInv, NEW p \in Person, TypingExpires(p)
    PROVE  ChatInv'
<1>1. StopsTyping(p) /\ UNCHANGED <<seats, link, up, page, list, renewed, turns>>
  BY DEF TypingExpires, pageVars
<1>2. Announced(p)
  BY <1>1, StopsTypingAnnounces
<1>3. link \in [Person -> {"up", "down"}] /\ up \in [Person -> Seq(Requests)]
  BY DEF ChatInv, ChatTypeOK
<1> QED
  BY <1>1, <1>2, <1>3, AnnouncedKeeps

LEMMA NoticeDropKeeps ==
    ASSUME ChatInv, NEW p \in Person, NoticeDrop(p)
    PROVE  ChatInv'
<1>1. StopsTyping(p) /\ UNCHANGED <<seats, link, up, page, list, renewed, turns>>
  BY DEF NoticeDrop, pageVars
<1>2. Announced(p)
  BY <1>1, StopsTypingAnnounces
<1>3. link \in [Person -> {"up", "down"}] /\ up \in [Person -> Seq(Requests)]
  BY DEF ChatInv, ChatTypeOK
<1> QED
  BY <1>1, <1>2, <1>3, AnnouncedKeeps

LEMMA ConnectKeeps ==
    ASSUME ChatInv, NEW p \in Person, Connect(p)
    PROVE  ChatInv'
<1>1. /\ StopsTyping(p) /\ link' = [link EXCEPT ![p] = "up"]
      /\ UNCHANGED <<seats, up, page, list, renewed, turns>>
  BY DEF Connect
<1>2. Announced(p)
  BY <1>1, StopsTypingAnnounces
<1>3. link \in [Person -> {"up", "down"}] /\ up \in [Person -> Seq(Requests)]
  BY DEF ChatInv, ChatTypeOK
<1>4. /\ link' \in [Person -> {"up", "down"}]
      /\ \A q \in Person : link'[q] = link[q] \/ link'[q] = "up"
  BY <1>1, <1>3
<1> QED
  BY <1>1, <1>2, <1>3, <1>4, AnnouncedKeeps

(* A page that only learns of its seat, or of its session.                 *)
LEMMA StaysSteps ==
    ASSUME ChatInv, NEW p \in Person, list'[p] = list[p], down'[p] = down[p], page'[p] = page[p],
           link'[p] = link[p], UpKept(p),
           \A i \in 1..Len(up'[p]) : up'[p][i].type = "room:leave" => page[p] = "home",
           KeepsSeat(p), Counts(p)' => Counts(p)
    PROVE  PageStep(p)
<1>1. PageInOrder(p, list[p], down[p]) /\ Quiet(p)
  BY TypesOf
<1>2. PageKept(p)
  BY <1>1 DEF PageKept, ToldLess
<1>3. TellsOn(p)
  BY LatestSame DEF TellsOn
<1>4. Quiet(p)'
  BY <1>1 DEF Quiet, Listening
<1> QED
  BY <1>2, <1>3, <1>4 DEF PageStep

LEMMA OthersIdle ==
    ASSUME ChatInv, NEW p \in Person, Announced(p), UNCHANGED <<link, list>>, NEW q \in Person \ {p},
           page'[q] = page[q], renewed'[q] = renewed[q], up'[q] = up[q], q \in seats => q \in seats'
    PROVE  PageStep(q)
<1>1. /\ UpKept(q)
      /\ \A i \in 1..Len(up'[q]) : up'[q][i].type = "room:leave" => page[q] = "home"
  BY IdleQueues
<1>2. PageIdles(q)
  BY <1>1 DEF PageIdles, Announced
<1> QED
  BY <1>2, IdlesSteps

LEMMA EnterKeeps ==
    ASSUME ChatInv, NEW p \in Person, Enter(p)
    PROVE  ChatInv'
<1>1. /\ page[p] = "home" /\ link[p] = "up" /\ up[p] = <<>> /\ down[p] = <<>>
      /\ page' = [page EXCEPT ![p] = "arriving"] /\ seats' = seats \cup {p}
      /\ Relayed(p, Event("room:peer-joined", p, 0), <<>>, FALSE)
      /\ UNCHANGED <<link, up, list, renewed, turns>>
  BY DEF Enter
<1>2. ChatTypeOK /\ turns \in Nat
  BY DEF ChatInv, ChatTypeOK
<1>3. Announced(p)
  BY <1>1, RelayAnnounces
<1>4. /\ page' \in [Person -> {"home", "arriving", "loading", "chat"}] /\ page'[p] = "arriving"
      /\ \A q \in Person \ {p} : page'[q] = page[q]
  BY <1>1, <1>2 DEF ChatTypeOK
<1>5. ChatTypeOK' /\ turns <= turns'
  BY <1>1, <1>2, <1>3, <1>4 DEF ChatTypeOK, Announced
<1>6. \A q \in Person \ {p} : PageStep(q)
  BY <1>1, <1>3, <1>4, OthersIdle
<1>7. PageStep(p)
  <2>1. /\ list[p] = <<>> /\ PageInOrder(p, list[p], down[p])
        /\ list[p] \in Seq(Entries) /\ down[p] \in Seq(Events)
    BY <1>1, TypesOf DEF Quiet, Listening
  <2>2. down'[p] = <<>> /\ list'[p] = <<>>
    BY <1>1, <1>3, <2>1 DEF Announced
  <2>3. PageKept(p)
    BY <1>1, <2>1, <2>2 DEF PageKept, ToldLess
  <2>4. HeardNothing(p)'
    BY <1>1, <2>1, <2>2, EmptyList DEF HeardNothing
  <2>5. UpKept(p)
    BY <1>1, IdleQueues
  <2>6. Quiet(p)'
    BY <1>1, <2>2 DEF Quiet
  <2> QED
    BY <2>3, <2>4, <2>5, <2>6 DEF PageStep, TellsOn, KeepsSeat
<1>8. \A q \in Person : PageStep(q)
  BY <1>6, <1>7
<1> QED
  BY <1>5, <1>8, StepKeeps

LEMMA ExpireKeeps ==
    ASSUME ChatInv, NEW p \in Person, Expire(p)
    PROVE  ChatInv'
<1>1. /\ link[p] = "down" /\ seats' = seats \ {p}
      /\ Relayed(p, Event("room:peer-left", p, 0), <<>>, FALSE)
      /\ renewed' = [renewed EXCEPT ![p] = TRUE]
      /\ UNCHANGED <<link, up, page, list, turns>>
  BY DEF Expire, pageVars
<1>2. ChatTypeOK /\ turns \in Nat
  BY DEF ChatInv, ChatTypeOK
<1>3. Announced(p)
  BY <1>1, RelayAnnounces
<1>4. /\ renewed' \in [Person -> BOOLEAN] /\ renewed'[p] = TRUE
      /\ \A q \in Person \ {p} : renewed'[q] = renewed[q]
  BY <1>1, <1>2 DEF ChatTypeOK
<1>5. ChatTypeOK' /\ turns <= turns'
  BY <1>1, <1>2, <1>3, <1>4 DEF ChatTypeOK, Announced
<1>6. \A q \in Person \ {p} : PageStep(q)
  BY <1>1, <1>3, <1>4, OthersIdle
<1>7. PageStep(p)
  <2>1. /\ Quiet(p) /\ PageInOrder(p, list[p], down[p]) /\ list[p] \in Seq(Entries)
        /\ down[p] \in Seq(Events)
    BY TypesOf
  <2>2. down[p] = <<>>
    BY <1>1, <2>1 DEF Quiet
  <2>3. down'[p] = down[p]
    BY <1>1, <1>3 DEF Announced
  <2>4. KeepsSeat(p)
    <3>1. CASE Listening(p)
      BY <1>1, <1>4, <3>1 DEF KeepsSeat, Unaware, Listening
    <3>2. CASE ~Listening(p)
      <4>1. list[p] = <<>>
        BY <2>1, <3>2 DEF Quiet
      <4>2. HeardNothing(p)'
        BY <1>1, <2>1, <2>2, <2>3, <4>1, EmptyList DEF HeardNothing
      <4> QED
        BY <4>2 DEF KeepsSeat
    <3> QED
      BY <3>1, <3>2
  <2>5. Counts(p)' => Counts(p)
    BY <1>1, <1>4 DEF Counts, Listening
  <2>6. UpKept(p) /\ \A i \in 1..Len(up'[p]) : up'[p][i].type = "room:leave" => page[p] = "home"
    BY <1>1, IdleQueues
  <2> QED
    BY <1>1, <2>3, <2>4, <2>5, <2>6, StaysSteps
<1>8. \A q \in Person : PageStep(q)
  BY <1>6, <1>7
<1> QED
  BY <1>5, <1>8, StepKeeps

-----------------------------------------------------------------------------
(* The server handles the next request of p.                               *)
Handled(p) ==
    /\ link[p] = "up" /\ up[p] # <<>>
    /\ up' = [up EXCEPT ![p] = Tail(@)]
    /\ UNCHANGED <<link, page, list, renewed, turns>>

LEMMA HandledUp ==
    ASSUME ChatInv, NEW p \in Person, Handled(p)
    PROVE  /\ up' \in [Person -> Seq(Requests)] /\ up'[p] = Tail(up[p])
           /\ \A q \in Person \ {p} : up'[q] = up[q]
           /\ Head(up[p]) \in Requests /\ Head(up[p]) = up[p][1] /\ 1 \in 1..Len(up[p])
<1>1. up \in [Person -> Seq(Requests)] /\ up[p] # <<>>
  BY DEF ChatInv, ChatTypeOK, Handled
<1>2. Tail(up[p]) \in Seq(Requests) /\ Head(up[p]) \in Requests /\ Head(up[p]) = up[p][1]
      /\ 1 \in 1..Len(up[p])
  BY <1>1, TailTyped
<1> QED
  BY <1>1, <1>2 DEF Handled

LEMMA HandleTypingEvents ==
    ASSUME ChatInv, NEW p \in Person, Handled(p),
           OnTypingStart(p, Head(up[p])) \/ OnTypingStop(p, Head(up[p]))
    PROVE  ChatInv'
<1>1. Announced(p)
  <2>1. CASE OnTypingStart(p, Head(up[p]))
    <3>1. \/ Relayed(p, Event("typing:start", p, 0), <<>>, TRUE)
          \/ UNCHANGED <<down, missed>>
      BY <2>1 DEF OnTypingStart
    <3> QED
      BY <3>1, RelayAnnounces, NothingAnnounced
  <2>2. CASE OnTypingStop(p, Head(up[p]))
    BY <2>2, StopsTypingAnnounces DEF OnTypingStop
  <2> QED
    BY <2>1, <2>2
<1>2. UNCHANGED <<seats, link, page, list, renewed, turns>> /\ up[p] # <<>>
  BY DEF Handled, OnTypingStart, OnTypingStop
<1>3. link \in [Person -> {"up", "down"}]
  BY DEF ChatInv, ChatTypeOK
<1> QED
  BY <1>1, <1>2, <1>3, HandledUp, AnnouncedKeeps

(* p has gone home.                                                        *)
LEMMA HandleLeave ==
    ASSUME ChatInv, NEW p \in Person, Handled(p), OnLeave(p, Head(up[p]))
    PROVE  ChatInv'
<1>1. /\ Head(up[p]).type = "room:leave" /\ seats' = seats \ {p}
      /\ Relayed(p, Event("room:peer-left", p, 0), <<>>, FALSE)
      /\ UNCHANGED <<link, page, list, renewed, turns>> /\ up[p] # <<>>
  BY DEF OnLeave, Handled
<1>2. ChatTypeOK /\ turns \in Nat
  BY DEF ChatInv, ChatTypeOK
<1>3. Announced(p)
  BY <1>1, RelayAnnounces
<1>4. /\ up' \in [Person -> Seq(Requests)] /\ up'[p] = Tail(up[p])
      /\ \A q \in Person \ {p} : up'[q] = up[q]
      /\ Head(up[p]) = up[p][1] /\ 1 \in 1..Len(up[p])
  BY HandledUp
<1>5. ChatTypeOK' /\ turns <= turns'
  BY <1>1, <1>2, <1>3, <1>4 DEF ChatTypeOK, Announced
<1>6. \A q \in Person \ {p} : PageStep(q)
  BY <1>1, <1>3, <1>4, OthersIdle
<1>7. page[p] = "home"
  BY <1>1, <1>4, TypesOf DEF Quiet
<1>8. PageStep(p)
  <2>1. UpKept(p) /\ \A i \in 1..Len(up'[p]) : up'[p][i].type = "room:leave" => page[p] = "home"
    BY <1>1, <1>4, TailKeeps
  <2>2. down'[p] = down[p] /\ missed'[p] = missed[p]
    BY <1>3 DEF Announced
  <2>3. KeepsSeat(p)
    BY <1>1, <1>7 DEF KeepsSeat, Unaware
  <2>4. Counts(p)' => Counts(p)
    BY <1>1, <2>2 DEF Counts, Listening
  <2> QED
    BY <1>1, <2>1, <2>2, <2>3, <2>4, StaysSteps
<1>9. \A q \in Person : PageStep(q)
  BY <1>6, <1>8
<1> QED
  BY <1>5, <1>9, StepKeeps

(* The message at the head of p's requests is newer than all that is known *)
(* of p, and older than what waits behind it.                              *)
LEMMA HeadAsked ==
    ASSUME ChatInv, NEW p \in Person, up[p] # <<>>, Head(up[p]).type = "chat:message",
           NEW n, n = Head(up[p]).n
    PROVE  /\ n \in Nat /\ n <= turns /\ Waits(p, list[p], n)
           /\ \A k \in Known(p) : k < n
           /\ \A k \in Sent(Tail(up[p])) : n < k
           /\ \A q \in Person : \A k \in Told(p, list[q], down[q]) : k < n
           /\ \A k \in Answered(down[p]) : k < n
<1>1. up[p] \in Seq(Requests) /\ RequestsInOrder(p)
  BY TypesOf
<1>2. n \in Sent(up[p]) /\ \A k \in Sent(Tail(up[p])) : n < k
  BY <1>1, SentTail DEF RequestsInOrder
<1>3. n \in Nat /\ n <= turns /\ Waits(p, list[p], n) /\ \A k \in Known(p) : k < n
  BY <1>1, <1>2 DEF RequestsInOrder, Sent
<1>4. \A q \in Person : Told(p, list[q], down[q]) \subseteq Known(p)
  BY DEF Known, Told
<1>5. Answered(down[p]) \subseteq Known(p)
  BY DEF Known
<1> QED
  BY <1>2, <1>3, <1>4, <1>5

(* p's requests, when p is given the answer n and others are told of it.   *)
LEMMA AnswerKeepsRequests ==
    ASSUME ChatInv, NEW p \in Person, Handled(p), Head(up[p]).type = "chat:message",
           NEW n, n = Head(up[p]).n, Known(p)' \subseteq Known(p) \cup {n}
    PROVE  RequestsInOrder(p)'
<1>1. RequestsInOrder(p) /\ turns \in Nat /\ turns' = turns /\ list'[p] = list[p] /\ up[p] # <<>>
  BY TypesOf DEF Handled
<1>2. up'[p] = Tail(up[p])
  BY HandledUp
<1>3. UpKept(p)
  BY <1>1, <1>2, TailKeeps
<1>4. n \in Nat /\ n <= turns /\ \A k \in Sent(up'[p]) : n < k
  BY <1>1, <1>2, HeadAsked
<1>5. /\ {n} \in SUBSET Nat
      /\ \A k \in {n} : k <= turns /\ \A j \in Sent(up'[p]) : k < j
  BY <1>4
<1>6. /\ Listed(p, list'[p]) \subseteq Listed(p, list[p])
      /\ \A k \in Sent(up'[p]) : Waits(p, list[p], k) => Waits(p, list'[p], k)
  BY <1>1
<1>7. turns' \in Nat /\ turns <= turns'
  BY <1>1
<1> QED
  BY <1>1, <1>3, <1>5, <1>6, <1>7, RequestsKept

(* The message is refused.                                                 *)
LEMMA HandleRefused ==
    ASSUME ChatInv, NEW p \in Person, Handled(p), Head(up[p]).type = "chat:message",
           down' = [down EXCEPT ![p] = Append(@, Event("error", p, Head(up[p]).n))],
           UNCHANGED <<seats, missed>>
    PROVE  ChatInv'
<1>1. up[p] # <<>> /\ link[p] = "up" /\ UNCHANGED <<seats, missed, link, page, list, renewed, turns>>
  BY DEF Handled
<1>2. ChatTypeOK /\ turns \in Nat
  BY DEF ChatInv, ChatTypeOK
<1>3. PICK n \in Nat : n = Head(up[p]).n /\ Waits(p, list[p], n)
                       /\ (\A k \in Told(p, list[p], down[p]) : k < n)
                       /\ \A k \in Answered(down[p]) : k < n
  <2>1. PICK n : n = Head(up[p]).n
    OBVIOUS
  <2>2. /\ n \in Nat /\ Waits(p, list[p], n)
        /\ \A k \in Told(p, list[p], down[p]) : k < n
        /\ \A k \in Answered(down[p]) : k < n
    BY <1>1, <2>1, HeadAsked
  <2> QED
    BY <2>1, <2>2
<1>4. PICK m \in Events : m = Event("error", p, n) /\ m.type = "error" /\ m.from = p /\ m.n = n
  BY EventTyped
<1>5. /\ list[p] \in Seq(Entries) /\ down[p] \in Seq(Events)
      /\ PageInOrder(p, list[p], down[p]) /\ Quiet(p)
  BY TypesOf
<1>6. /\ down' \in [Person -> Seq(Events)] /\ down'[p] = Append(down[p], m)
      /\ \A q \in Person \ {p} : down'[q] = down[q]
  <2>1. Append(down[p], m) \in Seq(Events)
    BY <1>5
  <2>2. down' = [down EXCEPT ![p] = Append(@, m)]
    BY <1>3, <1>4
  <2> QED
    BY <1>2, <2>1, <2>2 DEF ChatTypeOK
<1>7. /\ up' \in [Person -> Seq(Requests)] /\ up'[p] = Tail(up[p])
      /\ \A q \in Person \ {p} : up'[q] = up[q]
  BY HandledUp
<1>8. ChatTypeOK' /\ turns <= turns' /\ turns' \in Nat
  BY <1>1, <1>2, <1>6, <1>7 DEF ChatTypeOK
<1>9. m.type \in Answer /\ m.type \notin News
  BY <1>4 DEF Answer, News
<1>10. Fits(p, list[p], down[p], m)
  BY <1>3, <1>4, <1>9 DEF Fits
<1>11. /\ PageInOrder(p, list[p], down'[p])
       /\ \A s \in Person : Told(s, list[p], down'[p]) = Told(s, list[p], down[p])
       /\ Answered(down'[p]) = Answered(down[p]) \cup {n}
  <2>1. /\ PageInOrder(p, list[p], down'[p])
        /\ \A s \in Person : Told(s, list[p], down'[p]) =
              Told(s, list[p], down[p]) \cup (IF m.type \in News /\ m.from = s THEN {m.n} ELSE {})
        /\ Answered(down'[p]) = Answered(down[p]) \cup (IF m.type \in Answer THEN {m.n} ELSE {})
    BY <1>5, <1>6, <1>10, EventAppends
  <2>2. ASSUME NEW s \in Person PROVE Told(s, list[p], down'[p]) = Told(s, list[p], down[p]) \cup {}
    BY <1>9, <2>1
  <2>3. \A a : a \cup {} = a
    OBVIOUS
  <2> QED
    BY <1>4, <1>9, <2>1, <2>2, <2>3
<1>12. ASSUME NEW q \in Person \ {p} PROVE SameAt(q)
  BY <1>1, <1>6, <1>7, <1>12 DEF SameAt
<1>13. ASSUME NEW q \in Person PROVE ToldLess(q) /\ TellsOn(q) /\ KeepsSeat(q) /\ Quiet(q)'
  <2>1. CASE q # p
    BY <1>12, <2>1, SameSteps DEF PageStep, PageKept
  <2>2. CASE q = p
    <3>1. ToldLess(p)
      BY <1>1, <1>11 DEF ToldLess
    <3>2. TellsOn(p)
      <4>1. Counts(p)' <=> Counts(p)
        BY <1>1 DEF Counts, Listening
      <4> QED
        BY <1>1, <1>11, <4>1, LatestSame DEF TellsOn
    <3>3. KeepsSeat(p)
      BY <1>1 DEF KeepsSeat, Unaware, Listening
    <3>4. \A i \in 1..Len(up'[p]) : up'[p][i].type = "room:leave" => page[p] = "home"
      BY <1>1, <1>7, TailKeeps
    <3>5. Quiet(p)'
      BY <1>1, <1>5, <3>4 DEF Quiet, Listening
    <3> QED
      BY <2>2, <3>1, <3>2, <3>3, <3>5
  <2> QED
    BY <2>1, <2>2
<1>14. ASSUME NEW q \in Person PROVE \A x \in Person : Told(q, list'[x], down'[x]) \subseteq Told(q, list[x], down[x])
  BY <1>13 DEF ToldLess
<1>15. RequestsInOrder(p)'
  <2>1. Known(p)' \subseteq Known(p) \cup {n}
    BY <1>11, <1>14 DEF Known
  <2> QED
    BY <1>3, <2>1, AnswerKeepsRequests
<1>16. PagesInOrder'
  <2> SUFFICES ASSUME NEW q \in Person
               PROVE  PageInOrder(q, list[q], down[q])' /\ RequestsInOrder(q)'
    BY DEF PagesInOrder
  <2>1. CASE q # p
    <3>1. PageInOrder(q, list'[q], down'[q]) /\ up'[q] = up[q] /\ list'[q] = list[q]
      BY <1>12, <2>1, TypesOf DEF SameAt
    <3>2. Known(q)' \subseteq Known(q)
      <4>1. Answered(down'[q]) = Answered(down[q])
        BY <1>12, <2>1 DEF SameAt
      <4> QED
        BY <1>14, <4>1 DEF Known
    <3>3. RequestsInOrder(q)'
      BY <1>8, <3>1, <3>2, OthersRequests
    <3> QED
      BY <3>1, <3>3
  <2>2. CASE q = p
    BY <1>1, <1>11, <1>15, <2>2
  <2> QED
    BY <2>1, <2>2
<1>17. QuietWhenAway' /\ SeatlessHearNothing' /\ ToldAlike'
  BY <1>13, RestKept
<1> QED
  BY <1>8, <1>16, <1>17 DEF ChatInv

(* The message n of p is relayed: whom it reaches, what it tells them.     *)
ToldEverybody(p, n) ==
    /\ down' \in [Person -> Seq(Events)] /\ missed' \in [Person -> BOOLEAN]
    /\ \A q \in Person :
          /\ missed'[q] = FALSE => missed[q] = FALSE
          /\ PageInOrder(q, list[q], down'[q])
          /\ \A s \in Person \ {p} : Told(s, list[q], down'[q]) = Told(s, list[q], down[q])
          /\ Answered(down'[q]) \subseteq Answered(down[q]) \cup (IF q = p THEN {n} ELSE {})
          /\ q # p /\ (q \notin seats \/ link[q] # "up") => down'[q] = down[q]
          /\ q # p /\ q \in seats /\ link[q] # "up" /\ list[q] # <<>> => missed'[q] = TRUE
          /\ q = p \/ (q \in seats /\ link[q] = "up") =>
                Told(p, list[q], down'[q]) = Told(p, list[q], down[q]) \cup {n}

LEMMA RelayedMessage ==
    ASSUME ChatInv, NEW p \in Person, Handled(p), p \in seats,
           Head(up[p]).type = "chat:message", NEW n \in Nat, n = Head(up[p]).n,
           Relayed(p, Event("chat:message", p, n), <<Event("ack", p, n)>>, FALSE)
    PROVE  ToldEverybody(p, n)
<1>1. /\ Waits(p, list[p], n)
      /\ \A q \in Person : \A k \in Told(p, list[q], down[q]) : k < n
      /\ \A k \in Answered(down[p]) : k < n
  BY HeadAsked DEF Handled
<1>2. PICK m \in Events : m = Event("chat:message", p, n) /\ m.type = "chat:message" /\ m.from = p /\ m.n = n
  BY EventTyped
<1>3. PICK a \in Events : a = Event("ack", p, n) /\ a.type = "ack" /\ a.from = p /\ a.n = n
  BY EventTyped
<1>4. PICK lost \in {{}} :
         /\ down' = [q \in Person |->
                IF q = p THEN down[q] \o <<a>>
                ELSE IF q \in seats \ lost /\ link[q] = "up" THEN Append(down[q], m)
                ELSE down[q]]
         /\ missed' = [q \in Person |->
                \/ missed[q]
                \/ /\ m.type = "chat:message" /\ q \in seats \ {p}
                   /\ link[q] # "up" /\ list[q] # <<>>]
  <2>1. Relayed(p, m, <<a>>, FALSE)
    BY <1>2, <1>3
  <2> QED
    BY <2>1, Zenon DEF Relayed
<1>5. \A q \in Person : /\ list[q] \in Seq(Entries) /\ down[q] \in Seq(Events)
                        /\ missed[q] \in BOOLEAN /\ PageInOrder(q, list[q], down[q])
  BY DEF ChatInv, ChatTypeOK, PagesInOrder
<1>6. /\ down'[p] = Append(down[p], a) /\ Append(down[p], a) \in Seq(Events)
  BY <1>4, <1>5, AppendTyped
<1>7. ASSUME NEW q \in Person \ {p}
      PROVE  /\ Append(down[q], m) \in Seq(Events)
             /\ down'[q] = IF q \in seats /\ link[q] = "up" THEN Append(down[q], m) ELSE down[q]
  BY <1>4, <1>5
<1>8. ASSUME NEW q \in Person
      PROVE  missed'[q] = (missed[q] \/ (q \in seats \ {p} /\ link[q] # "up" /\ list[q] # <<>>))
  BY <1>2, <1>4, Zenon
<1>9. down' \in [Person -> Seq(Events)]
  <2>1. down' = [q \in Person |-> down'[q]]
    BY <1>4, Zenon
  <2>2. \A q \in Person : down'[q] \in Seq(Events)
    BY <1>5, <1>6, <1>7
  <2> QED
    BY <2>1, <2>2
<1>10. missed' \in [Person -> BOOLEAN]
  <2>1. missed' = [q \in Person |-> missed'[q]]
    BY <1>4, Zenon
  <2>2. \A q \in Person : missed'[q] \in BOOLEAN
    BY <1>8, Zenon
  <2> QED
    BY <2>1, <2>2, Zenon
<1>11. /\ m.type \in News /\ m.type \notin Answer /\ a.type \in News /\ a.type \in Answer
  BY <1>2, <1>3 DEF News, Answer
<1>12. ASSUME NEW q \in Person
       PROVE  /\ PageInOrder(q, list[q], down'[q])
              /\ \A s \in Person \ {p} : Told(s, list[q], down'[q]) = Told(s, list[q], down[q])
              /\ Answered(down'[q]) \subseteq Answered(down[q]) \cup (IF q = p THEN {n} ELSE {})
              /\ q = p \/ (q \in seats /\ link[q] = "up") =>
                    Told(p, list[q], down'[q]) = Told(p, list[q], down[q]) \cup {n}
  <2>1. ASSUME NEW e \in {a, m}, down'[q] = Append(down[q], e), Fits(q, list[q], down[q], e),
               e.type \in Answer => q = p
        PROVE  /\ PageInOrder(q, list[q], down'[q])
               /\ \A s \in Person \ {p} : Told(s, list[q], down'[q]) = Told(s, list[q], down[q])
               /\ Answered(down'[q]) \subseteq Answered(down[q]) \cup (IF q = p THEN {n} ELSE {})
               /\ Told(p, list[q], down'[q]) = Told(p, list[q], down[q]) \cup {n}
    <3>1. e \in Events /\ e.from = p /\ e.n = n /\ e.type \in News
      BY <1>2, <1>3, <1>11
    <3>2. /\ PageInOrder(q, list[q], down'[q])
          /\ \A s \in Person : Told(s, list[q], down'[q]) =
                Told(s, list[q], down[q]) \cup (IF e.type \in News /\ e.from = s THEN {e.n} ELSE {})
          /\ Answered(down'[q]) = Answered(down[q]) \cup (IF e.type \in Answer THEN {e.n} ELSE {})
      BY <1>5, <2>1, <3>1, EventAppends
    <3>3. ASSUME NEW s \in Person \ {p}
          PROVE  Told(s, list[q], down'[q]) = Told(s, list[q], down[q]) \cup {}
      BY <3>1, <3>2
    <3>4. \A x : x \cup {} = x
      OBVIOUS
    <3> QED
      BY <2>1, <3>1, <3>2, <3>3, <3>4
  <2>2. CASE q = p
    <3>1. Fits(p, list[p], down[p], a)
      BY <1>1, <1>3, <1>11 DEF Fits
    <3> QED
      BY <1>6, <2>1, <2>2, <3>1
  <2>3. CASE q # p /\ q \in seats /\ link[q] = "up"
    <3>1. Fits(q, list[q], down[q], m)
      BY <1>1, <1>2, <1>11, <2>3 DEF Fits
    <3> QED
      BY <1>7, <1>11, <2>1, <2>3, <3>1
  <2>4. CASE q # p /\ ~(q \in seats /\ link[q] = "up")
    <3>1. down'[q] = down[q]
      BY <1>7, <2>4
    <3> QED
      BY <1>5, <2>4, <3>1
  <2> QED
    BY <2>2, <2>3, <2>4
<1>13. ASSUME NEW q \in Person
       PROVE  /\ missed'[q] = FALSE => missed[q] = FALSE
              /\ q # p /\ (q \notin seats \/ link[q] # "up") => down'[q] = down[q]
              /\ q # p /\ q \in seats /\ link[q] # "up" /\ list[q] # <<>> => missed'[q] = TRUE
  <2>1. missed'[q] = FALSE => missed[q] = FALSE
    BY <1>5, <1>8, Zenon
  <2>2. q # p /\ (q \notin seats \/ link[q] # "up") => down'[q] = down[q]
    BY <1>7
  <2>3. q # p /\ q \in seats /\ link[q] # "up" /\ list[q] # <<>> => missed'[q] = TRUE
    BY <1>5, <1>8, Zenon
  <2> QED
    BY <2>1, <2>2, <2>3
<1> QED
  BY <1>9, <1>10, <1>12, <1>13 DEF ToldEverybody

(* Whoever counts and is not told of n has been told nothing of p.         *)
LEMMA HandleRelayed ==
    ASSUME ChatInv, NEW p \in Person, Handled(p), p \in seats, UNCHANGED seats,
           Head(up[p]).type = "chat:message",
           Relayed(p, Event("chat:message", p, Head(up[p]).n), <<Event("ack", p, Head(up[p]).n)>>, FALSE)
    PROVE  ChatInv'
<1>1. up[p] # <<>> /\ link[p] = "up" /\ UNCHANGED <<seats, link, page, list, renewed, turns>>
  BY DEF Handled
<1>2. ChatTypeOK /\ turns \in Nat
  BY DEF ChatInv, ChatTypeOK
<1>3. PICK n \in Nat : n = Head(up[p]).n /\ \A q \in Person : \A k \in Told(p, list[q], down[q]) : k < n
  BY <1>1, HeadAsked
<1>4. /\ down' \in [Person -> Seq(Events)] /\ missed' \in [Person -> BOOLEAN]
      /\ \A q \in Person :
            /\ missed'[q] = FALSE => missed[q] = FALSE
            /\ PageInOrder(q, list[q], down'[q])
            /\ \A s \in Person \ {p} : Told(s, list[q], down'[q]) = Told(s, list[q], down[q])
            /\ Answered(down'[q]) \subseteq Answered(down[q]) \cup (IF q = p THEN {n} ELSE {})
            /\ q # p /\ (q \notin seats \/ link[q] # "up") => down'[q] = down[q]
            /\ q # p /\ q \in seats /\ link[q] # "up" /\ list[q] # <<>> => missed'[q] = TRUE
            /\ q = p \/ (q \in seats /\ link[q] = "up") =>
                  Told(p, list[q], down'[q]) = Told(p, list[q], down[q]) \cup {n}
  <2>1. n \in Nat /\ n = Head(up[p]).n
    BY <1>3
  <2>2. Relayed(p, Event("chat:message", p, n), <<Event("ack", p, n)>>, FALSE)
    BY <2>1
  <2>3. ToldEverybody(p, n)
    BY <1>1, <2>1, <2>2, RelayedMessage
  <2> QED
    BY <2>3 DEF ToldEverybody
<1>5. /\ up' \in [Person -> Seq(Requests)] /\ up'[p] = Tail(up[p])
      /\ \A q \in Person \ {p} : up'[q] = up[q]
  BY HandledUp
<1>6. ChatTypeOK' /\ turns <= turns' /\ turns' \in Nat
  BY <1>1, <1>2, <1>4, <1>5 DEF ChatTypeOK
<1>7. ASSUME NEW q \in Person PROVE Listening(q)' <=> Listening(q)
  BY <1>1 DEF Listening
<1>8. ASSUME NEW q \in Person, Counts(q)' PROVE Counts(q)
  <2>1. missed'[q] \in BOOLEAN /\ missed[q] \in BOOLEAN
    BY <1>2, <1>4 DEF ChatTypeOK
  <2> QED
    BY <1>1, <1>4, <1>7, <1>8, <2>1 DEF Counts
<1>9. ASSUME NEW q \in Person, q # p, ~(q \in seats /\ link[q] = "up")
      PROVE  down'[q] = down[q] /\ (Counts(q)' => Told(p, list[q], down[q]) = {})
  <2>1. down'[q] = down[q]
    BY <1>4, <1>9
  <2>2. CASE q \notin seats /\ Counts(q)'
    <3>1. Unaware(q)
      BY <1>8, <2>2 DEF Counts, Unaware, Listening
    <3> QED
      BY <2>1, <3>1 DEF ChatInv, SeatlessHearNothing, HeardNothing
  <2>3. CASE q \in seats /\ Counts(q)'
    <3>1. link[q] = "down" /\ Quiet(q)
      BY <1>9, <2>3, TypesOf
    <3>2. down[q] = <<>> /\ (~Listening(q) => list[q] = <<>>)
      BY <3>1 DEF Quiet
    <3>3. Listening(q) => ~missed'[q]
      BY <1>7, <2>3 DEF Counts, Listening
    <3>4. list[q] = <<>>
      BY <1>4, <1>9, <2>3, <3>1, <3>2, <3>3
    <3>5. Told(p, <<>>, <<>>) = {}
      BY DEF Told
    <3> QED
      BY <2>1, <3>2, <3>4, <3>5
  <2> QED
    BY <2>1, <2>2, <2>3
<1>10. ToldAlike'
  <2> SUFFICES ASSUME NEW x \in Person, NEW y \in Person, Counts(x)', Counts(y)', NEW s \in Person,
                      NEW m \in Told(s, list[x], down[x])', NEW k \in Told(s, list[y], down[y])', m < k
               PROVE  k \in Told(s, list[x], down[x])'
    BY DEF ToldAlike
  <2>1. m \in Told(s, list[x], down'[x]) /\ k \in Told(s, list[y], down'[y]) /\ Counts(x) /\ Counts(y)
    BY <1>1, <1>8
  <2>2. ToldAlike
    BY DEF ChatInv
  <2>3. CASE s # p
    <3>1. m \in Told(s, list[x], down[x]) /\ k \in Told(s, list[y], down[y])
      BY <1>4, <2>1, <2>3
    <3>2. k \in Told(s, list[x], down[x])
      BY <2>1, <2>2, <3>1 DEF ToldAlike
    <3>3. k \in Told(s, list[x], down'[x])
      BY <1>4, <2>3, <3>2
    <3> QED
      BY <1>1, <3>3
  <2>4. CASE s = p
    <3>1. ASSUME NEW z \in Person, Counts(z)', Told(p, list[z], down'[z]) # {}
          PROVE  Told(p, list[z], down'[z]) = Told(p, list[z], down[z]) \cup {n}
      <4>1. z = p \/ (z \in seats /\ link[z] = "up")
        BY <1>9, <3>1
      <4> QED
        BY <1>4, <4>1
    <3>2. /\ Told(p, list[x], down'[x]) = Told(p, list[x], down[x]) \cup {n}
          /\ Told(p, list[y], down'[y]) = Told(p, list[y], down[y]) \cup {n}
      BY <2>1, <2>4, <3>1
    <3>3. CASE k = n
      BY <1>1, <2>4, <3>2, <3>3
    <3>4. CASE k # n
      <4>1. k \in Told(p, list[y], down[y]) /\ k < n
        BY <1>3, <2>1, <2>4, <3>2, <3>4
      <4>2. m \in Told(p, list[x], down[x])
        <5>1. m \in Nat /\ k \in Nat
          BY <2>1 DEF Told
        <5>2. m # n
          BY <4>1, <5>1
        <5> QED
          BY <2>1, <2>4, <3>2, <5>2
      <4>3. k \in Told(p, list[x], down[x])
        BY <2>1, <2>2, <4>1, <4>2 DEF ToldAlike
      <4> QED
        BY <1>1, <2>4, <3>2, <4>3
    <3> QED
      BY <3>3, <3>4
  <2> QED
    BY <2>3, <2>4
<1>11. SeatlessHearNothing'
  <2> SUFFICES ASSUME NEW q \in Person, Unaware(q)' PROVE HeardNothing(q)'
    BY DEF SeatlessHearNothing
  <2>1. q # p /\ q \notin seats /\ Unaware(q)
    BY <1>1, <1>7 DEF Unaware
  <2>2. down'[q] = down[q] /\ list'[q] = list[q]
    BY <1>1, <1>4, <2>1
  <2>3. HeardNothing(q)
    BY <2>1 DEF ChatInv, SeatlessHearNothing
  <2> QED
    BY <2>2, <2>3 DEF HeardNothing
<1>12. QuietWhenAway'
  <2> SUFFICES ASSUME NEW q \in Person PROVE Quiet(q)'
    BY DEF QuietWhenAway
  <2>1. Quiet(q)
    BY TypesOf
  <2>2. link'[q] = "down" => down'[q] = <<>>
    BY <1>1, <1>4, <2>1 DEF Quiet
  <2>3. \A i \in 1..Len(up'[q]) : up'[q][i].type = "room:leave" => page[q] = "home"
    BY <1>1, <1>5, IdleQueues, TailKeeps
  <2> QED
    BY <1>1, <1>7, <2>1, <2>2, <2>3 DEF Quiet
<1>13. PagesInOrder'
  <2> SUFFICES ASSUME NEW q \in Person
               PROVE  PageInOrder(q, list[q], down[q])' /\ RequestsInOrder(q)'
    BY DEF PagesInOrder
  <2>1. PageInOrder(q, list'[q], down'[q])
    BY <1>1, <1>4
  <2>2. CASE q # p
    <3>1. Known(q)' \subseteq Known(q)
      <4>1. Answered(down'[q]) \subseteq Answered(down[q])
        BY <1>4, <2>2
      <4>2. \A x \in Person : Told(q, list'[x], down'[x]) = Told(q, list[x], down[x])
        BY <1>1, <1>4, <2>2
      <4> QED
        BY <4>1, <4>2 DEF Known
    <3>2. up'[q] = up[q] /\ list'[q] = list[q]
      BY <1>1, <1>5, <2>2
    <3>3. RequestsInOrder(q)'
      BY <1>6, <3>1, <3>2, OthersRequests
    <3> QED
      BY <2>1, <3>3
  <2>3. CASE q = p
    <3>1. Answered(down'[p]) \subseteq Answered(down[p]) \cup {n}
      BY <1>4
    <3>2. ASSUME NEW x \in Person
          PROVE  Told(p, list'[x], down'[x]) \subseteq Told(p, list[x], down[x]) \cup {n}
      <4>1. CASE x = p \/ (x \in seats /\ link[x] = "up")
        BY <1>1, <1>4, <4>1
      <4>2. CASE ~(x = p \/ (x \in seats /\ link[x] = "up"))
        BY <1>1, <1>9, <4>2
      <4> QED
        BY <4>1, <4>2
    <3>3. Known(p)' \subseteq Known(p) \cup {n}
      BY <3>1, <3>2 DEF Known
    <3>4. RequestsInOrder(p)'
      BY <1>3, <3>3, AnswerKeepsRequests
    <3> QED
      BY <2>1, <2>3, <3>4
  <2> QED
    BY <2>2, <2>3
<1> QED
  BY <1>6, <1>10, <1>11, <1>12, <1>13 DEF ChatInv

(* The server handles one request of p, of any type, with any verdict.     *)
LEMMA HandleKeeps ==
    ASSUME ChatInv, NEW p \in Person, Handle(p)
    PROVE  ChatInv'
<1> DEFINE q == Head(up[p])
<1>1. /\ Handled(p)
      /\ OnMessage(p, q) \/ OnTypingStart(p, q) \/ OnTypingStop(p, q) \/ OnLeave(p, q)
  BY DEF Handle, Handled, pageVars
<1>2. CASE OnMessage(p, q)
  <2>1. /\ q.type = "chat:message" /\ UNCHANGED seats
        /\ \/ /\ p \in seats
              /\ Relayed(p, Event("chat:message", p, q.n), <<Event("ack", p, q.n)>>, FALSE)
           \/ /\ down' = [down EXCEPT ![p] = Append(@, Event("error", p, q.n))]
              /\ UNCHANGED missed
    BY <1>2 DEF OnMessage
  <2>2. CASE p \in seats /\ Relayed(p, Event("chat:message", p, q.n), <<Event("ack", p, q.n)>>, FALSE)
    BY <1>1, <2>1, <2>2, HandleRelayed
  <2>3. CASE down' = [down EXCEPT ![p] = Append(@, Event("error", p, q.n))] /\ UNCHANGED missed
    BY <1>1, <2>1, <2>3, HandleRefused
  <2> QED
    BY <2>1, <2>2, <2>3
<1>3. CASE OnTypingStart(p, q) \/ OnTypingStop(p, q)
  BY <1>1, <1>3, HandleTypingEvents
<1>4. CASE OnLeave(p, q)
  BY <1>1, <1>4, HandleLeave
<1> QED
  BY <1>1, <1>2, <1>3, <1>4

-----------------------------------------------------------------------------
(* At first nobody has written anything.                                   *)
LEMMA ChatInvInit == Init => ChatInv
<1> SUFFICES ASSUME Init PROVE ChatInv
  OBVIOUS
<1>1. /\ seats = Person /\ turns = 0
      /\ \A p \in Person : /\ link[p] = "up" /\ up[p] = <<>> /\ down[p] = <<>>
                           /\ page[p] = "chat" /\ list[p] = <<>>
  BY DEF Init
<1>2. 1..Len(<<>>) = {}
  OBVIOUS
<1>3. ChatTypeOK
  BY DEF Init, ChatTypeOK
<1>4. \A s \in Person : Told(s, <<>>, <<>>) = {}
  BY <1>2 DEF Told
<1>5. \A p \in Person : Known(p) = {} /\ Listed(p, <<>>) = {}
  BY <1>1, <1>2, <1>4 DEF Known, Answered, Listed
<1>6. \A p \in Person : RequestsInOrder(p)
  BY <1>1, <1>5, SentEmpty DEF RequestsInOrder
<1>7. \A p \in Person : PageInOrder(p, <<>>, <<>>)
  BY <1>2 DEF PageInOrder, EventsInOrder, ListInOrder, ComesLater, AcksFit
<1>8. PagesInOrder
  BY <1>1, <1>6, <1>7 DEF PagesInOrder
<1>9. QuietWhenAway
  BY <1>1, <1>2 DEF QuietWhenAway, Quiet
<1>10. SeatlessHearNothing /\ ToldAlike
  BY <1>1, <1>4 DEF SeatlessHearNothing, HeardNothing, ToldAlike
<1> QED
  BY <1>3, <1>8, <1>9, <1>10 DEF ChatInv

(* The invariant is about these variables only.                            *)
LEMMA ChatInvStutters ==
    ASSUME ChatInv, UNCHANGED vars
    PROVE  ChatInv'
<1>1. UNCHANGED <<seats, link, up, down, page, list, turns, missed, renewed>>
  BY DEF vars, serverVars, wireVars, pageVars, ghostVars
<1>2. ChatTypeOK' /\ turns <= turns'
  BY <1>1 DEF ChatInv, ChatTypeOK
<1>3. \A q \in Person : SameAt(q)
  BY <1>1 DEF SameAt
<1> QED
  BY <1>2, <1>3, SameSteps, StepKeeps

(* The inductive invariant: what each page lists and has on its way is in  *)
(* order, and the pages that count are told alike.                         *)
THEOREM ChatInvariant == Spec => []ChatInv
<1>1. Init => ChatInv
  BY ChatInvInit
<1>2. ChatInv /\ [Next]_vars => ChatInv'
  <2> SUFFICES ASSUME ChatInv, [Next]_vars PROVE ChatInv'
    OBVIOUS
  <2>1. ASSUME NEW p \in Person, SendMessage(p) PROVE ChatInv'
    BY <2>1, SendMessageKeeps
  <2>2. ASSUME NEW p \in Person, HandleTyping(p) PROVE ChatInv'
    BY <2>2, HandleTypingKeeps
  <2>3. ASSUME NEW p \in Person, Leave(p) PROVE ChatInv'
    BY <2>3, LeaveKeeps
  <2>4. ASSUME NEW p \in Person, Enter(p) PROVE ChatInv'
    BY <2>4, EnterKeeps
  <2>5. ASSUME NEW p \in Person, Mount(p) PROVE ChatInv'
    BY <2>5, MountKeeps
  <2>6. ASSUME NEW p \in Person, NEW i \in {"this", "former"}, DebounceFires(p, i) PROVE ChatInv'
    BY <2>6, DebounceFiresKeeps
  <2>7. ASSUME NEW p \in Person, Receive(p) PROVE ChatInv'
    BY <2>7, ReceiveKeeps
  <2>8. ASSUME NEW p \in Person, SafetyNetFires(p) PROVE ChatInv'
    BY <2>8, SafetyNetFiresKeeps
  <2>9. ASSUME NEW p \in Person, Handle(p) PROVE ChatInv'
    BY <2>9, HandleKeeps
  <2>10. ASSUME NEW p \in Person, Throttled(p) PROVE ChatInv'
    BY <2>10, ThrottledKeeps
  <2>11. ASSUME NEW p \in Person, TypingExpires(p) PROVE ChatInv'
    BY <2>11, TypingExpiresKeeps
  <2>12. ASSUME NEW p \in Person, Drop(p) PROVE ChatInv'
    BY <2>12, DropKeeps
  <2>13. ASSUME NEW p \in Person, Reload(p) PROVE ChatInv'
    BY <2>13, ReloadKeeps
  <2>14. ASSUME NEW p \in Person, Restore(p) PROVE ChatInv'
    BY <2>14, RestoreKeeps
  <2>15. ASSUME NEW p \in Person, NoticeDrop(p) PROVE ChatInv'
    BY <2>15, NoticeDropKeeps
  <2>16. ASSUME NEW p \in Person, Expire(p) PROVE ChatInv'
    BY <2>16, ExpireKeeps
  <2>17. ASSUME NEW p \in Person, Connect(p) PROVE ChatInv'
    BY <2>17, ConnectKeeps
  <2>18. CASE UNCHANGED vars
    BY <2>18, ChatInvStutters
  <2> QED
    BY <2>1, <2>2, <2>3, <2>4, <2>5, <2>6, <2>7, <2>8, <2>9, <2>10, <2>11, <2>12, <2>13, <2>14,
       <2>15, <2>16, <2>17, <2>18 DEF Next
<1> QED
  BY <1>1, <1>2, PTL DEF Spec

(* HistoryAgrees, at all times, whatever the number of pages and turns.    *)
THEOREM HistoryAlwaysAgrees == Spec => []HistoryAgrees
<1>1. ChatInv => HistoryAgrees
  BY HistoryFollows
<1> QED
  BY <1>1, ChatInvariant, PTL
===============================================================================
