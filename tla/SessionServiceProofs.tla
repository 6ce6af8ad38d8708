------------------------- MODULE SessionServiceProofs -------------------------
(***************************************************************************)
(* SessionService, for every set of ids and sockets: a cleanup timer is    *)
(* pending exactly for the sessions in grace, and the two maps are inverse *)
(* to each other.  Neither is inductive alone: that handleDisconnect finds *)
(* no timer already pending needs the maps to agree, and that create finds *)
(* a free id needs every live session to have been issued.                 *)
(***************************************************************************)
EXTENDS SessionService, TLAPS

SessionInv ==
    /\ SessionTypeOK
    /\ sessions \subseteq issued
    /\ GraceTimer
    /\ SocketBijection

LEMMA SessionInvInit == SessionInit => SessionInv
BY NullAssumption DEF SessionInit, SessionInv, SessionTypeOK, GraceTimer, InGrace, SocketBijection

LEMMA CreateKeepsInv ==
    ASSUME NEW s \in SessionId, NEW k \in Socket, SessionInv,
           socketToSession[k] = NoSession, Create(s, k)
    PROVE  SessionInv'
<1> USE DEF Create, SessionInv, SessionTypeOK
<1>1. SessionTypeOK' /\ (sessions \subseteq issued)'
  OBVIOUS
<1>2. GraceTimer'
  BY NullAssumption DEF GraceTimer, InGrace
<1>3. SocketBijection'
  BY NullAssumption DEF SocketBijection
<1> QED
  BY <1>1, <1>2, <1>3

LEMMA ReclaimKeepsInv ==
    ASSUME NEW s \in SessionId, NEW k \in Socket, SessionInv,
           socketToSession[k] = NoSession, Reclaim(s, k)
    PROVE  SessionInv'
<1> USE DEF Reclaim, SessionInv, SessionTypeOK
<1>1. SessionTypeOK' /\ (sessions \subseteq issued)'
  OBVIOUS
<1>2. GraceTimer'
  BY NullAssumption DEF GraceTimer, InGrace
<1>3. SocketBijection'
  BY NullAssumption DEF SocketBijection
<1> QED
  BY <1>1, <1>2, <1>3

LEMMA HandleDisconnectKeepsInv ==
    ASSUME NEW k \in Socket, SessionInv, HandleDisconnect(k)
    PROVE  SessionInv'
<1>1. CASE socketToSession[k] \in sessions
  <2> DEFINE s == socketToSession[k]
  <2> USE <1>1 DEF HandleDisconnect, SessionInv, SessionTypeOK
  <2>1. SessionTypeOK' /\ (sessions \subseteq issued)'
    OBVIOUS
  <2>2. GraceTimer'
    BY DEF GraceTimer, InGrace
  <2>3. SocketBijection'
    BY NullAssumption DEF SocketBijection
  <2> QED
    BY <2>1, <2>2, <2>3
<1>2. CASE socketToSession[k] \notin sessions
  BY <1>2 DEF HandleDisconnect, sessionVars, SessionInv, SessionTypeOK, GraceTimer, InGrace,
              SocketBijection
<1> QED
  BY <1>1, <1>2

LEMMA CleanupTimerKeepsInv ==
    ASSUME NEW s \in SessionId, SessionInv, CleanupTimerFires(s)
    PROVE  SessionInv'
<1> USE DEF CleanupTimerFires, SessionInv, SessionTypeOK
<1>1. SessionTypeOK' /\ (sessions \subseteq issued)'
  OBVIOUS
<1>2. GraceTimer'
  BY DEF GraceTimer, InGrace
<1>3. SocketBijection'
  BY NullAssumption DEF SocketBijection
<1> QED
  BY <1>1, <1>2, <1>3

LEMMA SessionResetKeepsInv == SessionInv /\ SessionReset => SessionInv'
BY NullAssumption DEF SessionReset, SessionInv, SessionTypeOK, GraceTimer, InGrace, SocketBijection

LEMMA SessionStutterKeepsInv == SessionInv /\ UNCHANGED sessionVars => SessionInv'
BY DEF sessionVars, SessionInv, SessionTypeOK, GraceTimer, InGrace, SocketBijection

(* Every method of the session service keeps the invariant.                *)
THEOREM SessionInvInductive == SessionInv /\ [SessionNext]_sessionVars => SessionInv'
<1> SUFFICES ASSUME SessionInv, [SessionNext]_sessionVars PROVE SessionInv'
  OBVIOUS
<1>1. ASSUME NEW s \in SessionId, NEW k \in Socket, socketToSession[k] = NoSession, Create(s, k)
      PROVE  SessionInv'
  BY <1>1, CreateKeepsInv
<1>2. ASSUME NEW s \in SessionId, NEW k \in Socket, socketToSession[k] = NoSession, Reclaim(s, k)
      PROVE  SessionInv'
  BY <1>2, ReclaimKeepsInv
<1>3. ASSUME NEW k \in Socket, HandleDisconnect(k) PROVE SessionInv'
  BY <1>3, HandleDisconnectKeepsInv
<1>4. ASSUME NEW s \in SessionId, CleanupTimerFires(s) PROVE SessionInv'
  BY <1>4, CleanupTimerKeepsInv
<1>5. CASE SessionReset
  BY <1>5, SessionResetKeepsInv
<1>6. CASE UNCHANGED sessionVars
  BY <1>6, SessionStutterKeepsInv
<1> QED
  BY <1>1, <1>2, <1>3, <1>4, <1>5, <1>6 DEF SessionNext

LEMMA SessionInvAlways == SessionSpec => []SessionInv
<1>1. SessionInit => SessionInv
  BY SessionInvInit
<1>2. SessionInv /\ [SessionNext]_sessionVars => SessionInv'
  BY SessionInvInductive
<1> QED
  BY <1>1, <1>2, PTL DEF SessionSpec

(* A cleanup timer is pending exactly for a session in its grace period.   *)
THEOREM GraceTimerExact == SessionSpec => []GraceTimer
BY SessionInvAlways, PTL DEF SessionInv

(* The map from sockets to sessions inverts the sessions' socket ids.      *)
THEOREM SocketMapInverse == SessionSpec => []SocketBijection
BY SessionInvAlways, PTL DEF SessionInv
===============================================================================
