--------------------------- MODULE RoomMembership ---------------------------
(***************************************************************************)
(* What the signaling server promises about people and rooms, with no      *)
(* sockets, timers, tables or messages.  A person is a session.  Someone   *)
(* who loses the connection keeps every seat until the grace period is     *)
(* over, then loses all of them at once; a person who is gone never comes  *)
(* back; a room exists while somebody is in it and seats at most Capacity. *)
(* SignalingRefinement shows that the server implements this.              *)
(***************************************************************************)
EXTENDS Integers, FiniteSets

CONSTANTS Person, Room, Capacity

VARIABLES
    presence,   \* presence[p]: "unborn", "online", "grace" or "gone"
    members     \* members[r]: who has a seat in room r

membershipVars == <<presence, members>>

MembershipInit ==
    /\ presence = [p \in Person |-> "unborn"]
    /\ members = [r \in Room |-> {}]

(* A new visitor; a lost connection; a return within the grace period.     *)
Arrive(p) ==
    /\ presence[p] = "unborn"
    /\ presence' = [presence EXCEPT ![p] = "online"]
    /\ UNCHANGED members

Lapse(p) ==
    /\ presence[p] = "online"
    /\ presence' = [presence EXCEPT ![p] = "grace"]
    /\ UNCHANGED members

Resume(p) ==
    /\ presence[p] = "grace"
    /\ presence' = [presence EXCEPT ![p] = "online"]
    /\ UNCHANGED members

Open(p, r) ==
    /\ presence[p] = "online"
    /\ members[r] = {}
    /\ members' = [members EXCEPT ![r] = {p}]
    /\ UNCHANGED presence

Enter(p, r) ==
    /\ presence[p] = "online"
    /\ members[r] # {} /\ p \notin members[r]
    /\ Cardinality(members[r]) < Capacity
    /\ members' = [members EXCEPT ![r] = @ \cup {p}]
    /\ UNCHANGED presence

Exit(p, r) ==
    /\ presence[p] = "online"
    /\ p \in members[r]
    /\ members' = [members EXCEPT ![r] = @ \ {p}]
    /\ UNCHANGED presence

Evict(p) ==
    /\ presence[p] = "grace"
    /\ presence' = [presence EXCEPT ![p] = "gone"]
    /\ members' = [r \in Room |-> members[r] \ {p}]

(* A crash forgets everybody, and nobody it knew can come back.            *)
Crash ==
    /\ presence' = [p \in Person |-> IF presence[p] = "unborn" THEN "unborn" ELSE "gone"]
    /\ members' = [r \in Room |-> {}]

MembershipNext ==
    \/ \E p \in Person : Arrive(p) \/ Lapse(p) \/ Resume(p) \/ Evict(p)
    \/ \E p \in Person, r \in Room : Open(p, r) \/ Enter(p, r) \/ Exit(p, r)
    \/ Crash

MembershipSpec == MembershipInit /\ [][MembershipNext]_membershipVars
==============================================================================
