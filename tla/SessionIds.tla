----------------------------- MODULE SessionIds -----------------------------
(* The identifiers that the session and the room tables share.             *)
CONSTANT SessionId    \* ids randomUUID() may return; none is returned twice
==============================================================================
