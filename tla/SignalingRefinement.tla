------------------------- MODULE SignalingRefinement -------------------------
(***************************************************************************)
(* The signaling server implements RoomMembership.  Seats are the          *)
(* participant sets; presence is read off the session table.  A takeover,  *)
(* a message, a typing timer, the reaper and a leave of a room one is not  *)
(* in change neither.                                                      *)
(***************************************************************************)
EXTENDS SignalingServer

presenceOf(s) ==
    IF s \in sessions
    THEN IF socketOf[s] = NoSocket THEN "grace" ELSE "online"
    ELSE IF s \in issued THEN "gone" ELSE "unborn"

RM == INSTANCE RoomMembership
        WITH Person   <- SessionId,
             Room     <- Code,
             Capacity <- MAX_PARTICIPANTS,
             presence <- [s \in SessionId |-> presenceOf(s)],
             members  <- participants

(* Every behaviour of the server is one the abstract specification allows: *)
(* seats are gained and lost only as it says, whatever the interleaving of *)
(* reconnects, takeovers, timers and client events.                        *)
ImplementsMembership == RM!MembershipSpec
==============================================================================
