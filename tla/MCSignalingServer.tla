-------------------------- MODULE MCSignalingServer --------------------------
(* Small instances of the signaling server, with its refinement of        *)
(* RoomMembership, for TLC.                                                *)
EXTENDS SignalingRefinement, TLC

Symmetry == Permutations(SessionId) \cup Permutations(Code) \cup Permutations(Socket)

(* failedJoinAttempts is left out of what tells two states apart: only     *)
(* JoinRefused and the sweep read it, and they do to all else what Refused *)
(* and a sweep that finds nothing may do in the same state; of the         *)
(* properties checked under this view none but TypeOK names it.            *)
ButFailedJoins == <<roomVars, sessionVars, typing, recentMessages, socketVars, out>>
==============================================================================
