-------------------------- MODULE AgentSessionProofs --------------------------
(***************************************************************************)
(* Proofs about the session loop, for any number of sessions, of calls of  *)
(* Reconnect and of OnOpens that are late to return.                       *)
(***************************************************************************)
EXTENDS AgentSession, TLAPS

\* Nothing refers to a session that has not begun; one that is being dialed
\* is no one's yet, and the OnOpen to start is that of the open session.
Known ==
  /\ \A g \in opening \cup pushing \cup closing : g <= gen
  /\ pc = "dialing" =>
       /\ sess < gen
       /\ \A g \in opening \cup pushing \cup closing : g < gen
  /\ pc = "open" => opening \subseteq {gen}

\* A session that a Reconnect closes has the flag set until its end is seen.
Flagged ==
  /\ pc = "open" /\ gen \in closing => redialNow
  /\ pc = "ended" /\ end = "closed" => redialNow \/ stopping

\* Who may dial without a wait has a grant for it.
Granted ==
  /\ pc = "joined" \/ (pc = "top" /\ joined) => grants >= 1
  /\ pc = "waiting" /\ wait = "none" => grants >= 1
  /\ redialNow /\ pc \in {"dialing", "open", "ended"} => grants >= 1

SessionInv ==
  TypeOK /\ Known /\ Flagged /\ Granted /\ SessTracksSession /\ NoSpin

\* The types in two parts, for two provers.
Booleans ==
  /\ joined \in BOOLEAN /\ token \in BOOLEAN /\ stopping \in BOOLEAN
  /\ redialNow \in BOOLEAN /\ wants \in BOOLEAN

Others ==
  /\ pc \in {"top", "joined", "dialing", "open", "ended", "waiting", "stopped"}
  /\ end \in End /\ wait \in Wait
  /\ gen \in 0..MaxSessions /\ cur \in 0..gen /\ sess \in 0..gen
  /\ opening \subseteq Session /\ pushing \subseteq Session
  /\ closing \subseteq Session
  /\ asked \in 0..MaxSessions
  /\ reconnects \in 0..MaxReconnects /\ grants \in Int

LEMMA TypeParts == TypeOK <=> Booleans /\ Others
BY DEF TypeOK, Booleans, Others

Loop == Known /\ Flagged /\ Granted /\ SessTracksSession /\ NoSpin

LEMMA SessionInit == Init => SessionInv
<1> SUFFICES ASSUME Init PROVE SessionInv
  OBVIOUS
<1>1. Booleans
  BY Zenon DEF Init, Booleans
<1>2. Others
  BY SessionAssumption DEF Init, Others, End, Wait, Session
<1>3. Loop
  BY DEF Init, Loop, Known, Flagged, Granted, SessTracksSession, NoSpin
<1> QED
  BY <1>1, <1>2, <1>3, TypeParts DEF SessionInv, Loop

LEMMA BooleansNext == Booleans /\ [Next]_vars => Booleans'
<1> SUFFICES ASSUME Booleans, [Next]_vars
             PROVE  Booleans'
  OBVIOUS
<1> USE DEF Booleans, loop, config, openers, history
<1>1. CASE Stop \/ NoToken \/ JoinFails \/ JoinSucceeds
  BY <1>1, Zenon DEF Stop, NoToken, JoinFails, JoinSucceeds
<1>2. CASE BeginSession \/ DialFails \/ DialOpens \/ ShutdownCloses
  BY <1>2, Zenon DEF BeginSession, Number, DialFails, DialOpens, ShutdownCloses
<1>3. CASE AfterSession
  BY <1>3, Zenon DEF AfterSession, Revoked
<1>4. CASE WaitOver \/ SessionEnds
  BY <1>4, Zenon DEF WaitOver, SessionEnds
<1>5. ASSUME NEW g \in Session,
             SetSession(g) \/ ClearSession(g) \/ CloseSession(g)
      PROVE  Booleans'
  BY <1>5, Zenon DEF SetSession, ClearSession, CloseSession
<1>6. CASE Reconnect \/ RefChecks \/ RefAnswers
  BY <1>6, Zenon DEF Reconnect, RefChecks, RefAnswers
<1>7. CASE PlaneWants \/ Shutdown
  BY <1>7, Zenon DEF PlaneWants, Shutdown
<1>8. CASE UNCHANGED vars
  BY <1>8, Zenon DEF vars
<1> QED
  BY <1>1, <1>2, <1>3, <1>4, <1>5, <1>6, <1>7, <1>8 DEF Next, RunStep

LEMMA LoopNext ==
  SessionInv /\ [Next]_vars /\ Booleans' => Others' /\ Loop'
<1> SUFFICES ASSUME SessionInv, [Next]_vars, Booleans'
             PROVE  Others' /\ Loop'
  OBVIOUS
<1>b. Booleans /\ Others /\ Loop /\ Booleans'
  BY TypeParts DEF SessionInv, Loop
<1> USE <1>b, SessionAssumption
    DEF Booleans, Others, Loop, Known, Flagged, Granted, SessTracksSession,
        NoSpin, Session, loop, config, openers, history
<1>1. CASE Stop \/ NoToken \/ JoinFails
  BY <1>1 DEF Stop, NoToken, JoinFails, RetryDelay, Wait
<1>2. CASE JoinSucceeds
  BY <1>2 DEF JoinSucceeds
<1>3. CASE BeginSession
  BY <1>3 DEF BeginSession, Number, End
<1>4. CASE DialFails
  BY <1>4 DEF DialFails, EndSession, End
<1>5. CASE DialOpens
  BY <1>5 DEF DialOpens
<1>6. CASE SessionEnds
  BY <1>6 DEF SessionEnds, EndSession, End
<1>7. CASE ShutdownCloses
  BY <1>7 DEF ShutdownCloses, EndSession, End
<1>8. CASE AfterSession
  <2>1. CASE end = "revoked"
    BY <1>8, <2>1 DEF AfterSession, Revoked, Waits, Wait
  <2>2. CASE end \in {"replaced", "going_away"}
    BY <1>8, <2>2 DEF AfterSession, Waits, Wait
  <2>3. CASE end = "refused"
    BY <1>8, <2>3 DEF AfterSession, Waits, RetryDelay, Wait
  <2>4. CASE end \in {"closed", "lost"}
    BY <1>8, <2>4 DEF AfterSession, Waits, RedialDelay, Wait
  <2> QED
    BY <2>1, <2>2, <2>3, <2>4 DEF End
<1>9. CASE WaitOver
  BY <1>9 DEF WaitOver, Wait
<1>10. ASSUME NEW g \in Session, SetSession(g)
       PROVE  Others' /\ Loop'
  BY <1>10 DEF SetSession
<1>11. ASSUME NEW g \in Session, ClearSession(g)
       PROVE  Others' /\ Loop'
  BY <1>11 DEF ClearSession, Forgotten, Open
<1>12. ASSUME NEW g \in Session, CloseSession(g)
       PROVE  Others' /\ Loop'
  BY <1>12 DEF CloseSession, EndSession, Open, End
<1>13. CASE Reconnect
  BY <1>13 DEF Reconnect
<1>14. CASE RefChecks \/ RefAnswers \/ PlaneWants
  <2>1. CASE RefChecks
    BY <2>1 DEF RefChecks
  <2>2. CASE RefAnswers
    BY <2>2 DEF RefAnswers
  <2>3. CASE PlaneWants
    <3>1. UNCHANGED <<loop, config, stopping, gen, cur, redialNow, sess,
                      openers, closing, asked, history>>
      BY <2>3 DEF PlaneWants
    <3> QED
      BY <3>1
  <2> QED
    BY <1>14, <2>1, <2>2, <2>3
<1>15. CASE Shutdown
  BY <1>15 DEF Shutdown
<1>16. CASE UNCHANGED vars
  BY <1>16 DEF vars
<1> QED
  BY <1>1, <1>2, <1>3, <1>4, <1>5, <1>6, <1>7, <1>8, <1>9, <1>10, <1>11,
     <1>12, <1>13, <1>14, <1>15, <1>16 DEF Next, RunStep

LEMMA SessionNext == SessionInv /\ [Next]_vars => SessionInv'
<1> SUFFICES ASSUME SessionInv, [Next]_vars
             PROVE  SessionInv'
  OBVIOUS
<1>1. Booleans'
  BY BooleansNext, TypeParts DEF SessionInv
<1>2. Others' /\ Loop'
  BY <1>1, LoopNext
<1>3. TypeOK'
  BY <1>1, <1>2 DEF TypeOK, Booleans, Others
<1> QED
  BY <1>2, <1>3 DEF SessionInv, Loop

LEMMA SessionInductive == Spec => []SessionInv
BY SessionInit, SessionNext, PTL DEF Spec

-----------------------------------------------------------------------------
\* Type correctness of the session loop.
THEOREM SessionTypes == Spec => []TypeOK
<1>1. SessionInv => TypeOK
  BY DEF SessionInv
<1> QED
  BY <1>1, SessionInductive, PTL

\* Agent.sess is the open session as soon as its OnOpen has registered it: no
\* OnOpen of an older session takes it out, whenever it returns.
THEOREM NewerIsKept == Spec => []SessTracksSession
<1>1. SessionInv => SessTracksSession
  BY DEF SessionInv
<1> QED
  BY <1>1, SessionInductive, PTL

\* Every dial without a wait before it is paid for by a Reconnect or a join of
\* its own: the loop never spins.
THEOREM LoopNeverSpins == Spec => []NoSpin
<1>1. SessionInv => NoSpin
  BY DEF SessionInv
<1> QED
  BY <1>1, SessionInductive, PTL

\* The end of a session that a Reconnect closed is followed by a dial at once.
THEOREM FreshSessionAtOnce == Spec => ReconnectAtOnce
<1>1. SessionInv /\ [Next]_vars
        => [pc = "ended" /\ end = "closed" /\ pc' = "waiting"
              => wait' = "none"]_vars
  <2> SUFFICES ASSUME SessionInv, [Next]_vars, pc = "ended", end = "closed",
                      pc' = "waiting"
               PROVE  wait' = "none"
    OBVIOUS
  <2>1. AfterSession
    BY DEF Next, RunStep, Stop, NoToken, JoinFails, JoinSucceeds, BeginSession,
           DialFails, DialOpens, ShutdownCloses, WaitOver, SessionEnds,
           SetSession, ClearSession, CloseSession, Reconnect, RefChecks,
           RefAnswers, PlaneWants, Shutdown, Open, loop, vars
  <2>2. redialNow
    BY <2>1 DEF AfterSession, SessionInv, Flagged
  <2> QED
    BY <2>1, <2>2 DEF AfterSession, Waits, RedialDelay
<1> QED
  BY <1>1, SessionInductive, PTL DEF Spec, ReconnectAtOnce
=============================================================================
