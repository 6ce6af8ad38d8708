----------------------------- MODULE MCNicknames -----------------------------
(* Small instances of the room table with the names of the people in it,   *)
(* for TLC.                                                                *)
EXTENDS Nicknames, TLC

Symmetry == Permutations(SessionId) \cup Permutations(Code) \cup Permutations(Base)
==============================================================================
