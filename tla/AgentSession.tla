----------------------------- MODULE AgentSession -----------------------------
(***************************************************************************)
(* The session loop (internal/agent: Run and redial.go).  One goroutine    *)
(* joins, dials, serves a session, decides how long to wait and dials      *)
(* again.  Around it run, each under the agent's mutex for a moment only:  *)
(* one OnOpen goroutine per session, which registers the session, pushes   *)
(* the metrics and takes the session back out when it is over; the Wi-Fi   *)
(* plane, which calls Reconnect; the goroutine that closes a session for   *)
(* it; and the requests, which ask what session they came in on.           *)
(*                                                                         *)
(* link.Run and the WebSocket are the agentkit's.  It is assumed that an   *)
(* OnOpen starts before the next session is open (a dial takes a round     *)
(* trip), not that it has returned by then: it may be in a push.           *)
(***************************************************************************)
EXTENDS Integers

CONSTANTS
  MaxSessions,         \* bound on the sessions of the process
  MaxReconnects        \* bound on the calls of Reconnect

VARIABLES
  pc,                  \* where Run is
  joined, token,       \* the configuration has credentials, and a join token
  end,                 \* how the last session ended
  wait,                \* the wait before the next dial
  stopping,            \* the context is done: the daemon shuts down
  gen, cur,            \* Agent.gen, and Agent.cur.gen
  redialNow, sess,     \* Agent's fields (0: no session)
  opening, pushing,    \* the sessions whose OnOpen is to start, or is in it
  closing,             \* the sessions a Reconnect is closing
  wants,               \* the plane wants a session (its RedialFast)
  asked,               \* a request's session that SessionRef found not ended
  reconnects,          \* calls of Reconnect that found a session
  grants               \* history: dials that need no wait before them

loop == <<pc, end, wait>>
config == <<joined, token>>
openers == <<opening, pushing>>
history == <<reconnects, grants>>
vars == <<loop, config, stopping, gen, cur, redialNow, sess, openers, closing,
          wants, asked, history>>

ASSUME SessionAssumption == MaxSessions \in Nat /\ MaxReconnects \in Nat

Session == 1..MaxSessions

\* revoked: close code 4001 or status 401; replaced: 4002; going_away: 1001;
\* refused: any other status that asks for a wait of its own; closed: by this
\* side; lost: anything else.
End == {"revoked", "replaced", "going_away", "refused", "closed", "lost"}

\* The waits: none, FastRedial at most (2 s), a Retry-After, the ladder
\* (1 to 30 s), after 1001 (2 to 5 s), after 4002 (60 s), slowRetry (5 min).
Wait == {"none", "fast", "retry_after", "backoff", "restarting", "replaced",
         "slow"}

TypeOK ==
  /\ pc \in {"top", "joined", "dialing", "open", "ended", "waiting", "stopped"}
  /\ joined \in BOOLEAN /\ token \in BOOLEAN /\ stopping \in BOOLEAN
  /\ end \in End /\ wait \in Wait
  /\ gen \in 0..MaxSessions /\ cur \in 0..gen
  /\ redialNow \in BOOLEAN /\ sess \in 0..gen
  /\ opening \subseteq Session /\ pushing \subseteq Session
  /\ closing \subseteq Session /\ wants \in BOOLEAN
  /\ asked \in 0..MaxSessions
  /\ reconnects \in 0..MaxReconnects /\ grants \in Int

\* Variants with a defect, for the properties to catch.
ForgottenAlways(g) == 0
NumberKeepsFlag ==
  gen' = gen + 1 /\ cur' = gen + 1 /\ UNCHANGED redialNow
PlaneFirst ==
  IF wants THEN "fast" ELSE IF redialNow THEN "none" ELSE "backoff"
RevokedDropsCredentials ==
  IF token THEN pc' = "top" /\ joined' = FALSE /\ UNCHANGED wait
  ELSE pc' = "waiting" /\ wait' = "slow" /\ joined' = FALSE

-----------------------------------------------------------------------------
Open(g) == pc = "open" /\ gen = g

\* retryDelay's answers to a refusal.
RetryDelay == {"slow", "retry_after", "backoff"}

\* redialDelay's answer to an end that is no refusal.
RedialDelay ==
  IF redialNow THEN "none" ELSE IF wants THEN "fast" ELSE "backoff"

\* What becomes of Agent.sess when the OnOpen of session g returns.
Forgotten(g) == IF sess = g THEN 0 ELSE sess

\* beginSession under the mutex.
Number == gen' = gen + 1 /\ cur' = gen + 1 /\ redialNow' = FALSE

-----------------------------------------------------------------------------
(* Run. *)

Stop ==
  /\ pc \in {"top", "ended"} /\ stopping
  /\ pc' = "stopped"
  /\ UNCHANGED <<end, wait, config, stopping, gen, cur, redialNow, sess,
                 openers, closing, wants, asked, history>>

\* Nothing to join with.
NoToken ==
  /\ pc = "top" /\ ~stopping /\ ~joined /\ ~token
  /\ pc' = "waiting" /\ wait' = "slow"
  /\ UNCHANGED <<end, config, stopping, gen, cur, redialNow, sess, openers,
                 closing, wants, asked, history>>

JoinFails ==
  /\ pc = "top" /\ ~stopping /\ ~joined /\ token
  /\ pc' = "waiting" /\ wait' \in RetryDelay
  /\ UNCHANGED <<end, config, stopping, gen, cur, redialNow, sess, openers,
                 closing, wants, asked, history>>

\* The token goes, also when the credentials cannot be saved.
JoinSucceeds ==
  /\ pc = "top" /\ ~stopping /\ ~joined /\ token
  /\ joined' = TRUE /\ token' = FALSE
  /\ pc' = "joined"
  /\ grants' = grants + 1
  /\ UNCHANGED <<end, wait, stopping, gen, cur, redialNow, sess, openers,
                 closing, wants, asked, reconnects>>

\* beginSession: the session has its number before it is dialed.
BeginSession ==
  /\ pc = "joined" \/ (pc = "top" /\ ~stopping /\ joined)
  /\ gen < MaxSessions
  /\ Number
  /\ pc' = "dialing" /\ end' = "lost"
  /\ grants' = grants - 1
  /\ UNCHANGED <<wait, config, stopping, sess, openers, closing, wants,
                 asked, reconnects>>

\* link.Run returns, and the deferred endSession.
EndSession(e) == pc' = "ended" /\ end' = e /\ cur' = 0

DialFails ==
  /\ pc = "dialing"
  /\ \E e \in {"revoked", "refused", "lost"} : EndSession(e)
  /\ UNCHANGED <<wait, config, stopping, gen, redialNow, sess, openers,
                 closing, wants, asked, history>>

DialOpens ==
  /\ pc = "dialing" /\ opening = {}
  /\ pc' = "open"
  /\ opening' = {gen}
  /\ UNCHANGED <<end, wait, config, stopping, gen, cur, redialNow, sess,
                 pushing, closing, wants, asked, history>>

\* The controller or the network ends the session.
SessionEnds ==
  /\ pc = "open"
  /\ \E e \in End \ {"refused", "closed"} : EndSession(e)
  /\ UNCHANGED <<wait, config, stopping, gen, redialNow, sess, openers,
                 closing, wants, asked, history>>

\* The context is done: the session is closed with 1001.
ShutdownCloses ==
  /\ pc = "open" /\ stopping
  /\ EndSession("closed")
  /\ UNCHANGED <<wait, config, stopping, gen, redialNow, sess, openers,
                 closing, wants, asked, history>>

Waits(w) == pc' = "waiting" /\ wait' = w

\* Close code 4001 or status 401.  With a join token, which the daemon has
\* beside credentials only if somebody put it there, it joins again at once.
Revoked ==
  IF token THEN pc' = "top" /\ joined' = FALSE /\ UNCHANGED wait
  ELSE Waits("slow") /\ UNCHANGED joined

\* Run's switch on how the session ended.
AfterSession ==
  /\ pc = "ended" /\ ~stopping
  /\ CASE end = "revoked" -> Revoked /\ UNCHANGED redialNow
       [] end = "replaced" -> Waits("replaced") /\ UNCHANGED <<joined, redialNow>>
       [] end = "going_away" ->
            Waits("restarting") /\ UNCHANGED <<joined, redialNow>>
       [] end = "refused" ->
            /\ \E w \in RetryDelay : Waits(w)
            /\ redialNow' = FALSE /\ UNCHANGED joined
       [] OTHER ->
            Waits(RedialDelay) /\ redialNow' = FALSE /\ UNCHANGED joined
  /\ UNCHANGED <<end, token, stopping, gen, cur, sess, openers, closing, wants,
                 asked, history>>

\* The sleep is over, or the context is done.
WaitOver ==
  /\ pc = "waiting"
  /\ pc' = "top"
  /\ wait' = "none"
  /\ grants' = IF wait = "none" THEN grants ELSE 1
  /\ UNCHANGED <<end, config, stopping, gen, cur, redialNow, sess,
                 openers, closing, wants, asked, reconnects>>

-----------------------------------------------------------------------------
(* Around it. *)

\* OnOpen starts: setSession.
SetSession(g) ==
  /\ g \in opening
  /\ sess' = g
  /\ opening' = opening \ {g} /\ pushing' = pushing \cup {g}
  /\ UNCHANGED <<loop, config, stopping, gen, cur, redialNow, closing, wants,
                 asked, history>>

\* OnOpen returns, some time after its session is over: clearSession.
ClearSession(g) ==
  /\ g \in pushing /\ ~Open(g)
  /\ sess' = Forgotten(g)
  /\ pushing' = pushing \ {g}
  /\ UNCHANGED <<loop, config, stopping, gen, cur, redialNow, opening, closing,
                 wants, asked, history>>

\* The plane wants a fresh session.
Reconnect ==
  /\ sess # 0 /\ reconnects < MaxReconnects
  /\ redialNow' = TRUE
  /\ closing' = closing \cup {sess}
  /\ reconnects' = reconnects + 1 /\ grants' = grants + 1
  /\ UNCHANGED <<loop, config, stopping, gen, cur, sess, openers, wants,
                 asked>>

\* Close is over: the controller answered it, or its time was up.
CloseSession(g) ==
  /\ g \in closing
  /\ closing' = closing \ {g}
  /\ IF Open(g) THEN EndSession("closed") ELSE UNCHANGED <<pc, end, cur>>
  /\ UNCHANGED <<wait, config, stopping, gen, redialNow, sess, openers, wants,
                 asked, history>>

\* SessionRef finds the request's session not ended ...
RefChecks ==
  /\ pc = "open" /\ asked = 0
  /\ asked' = gen
  /\ UNCHANGED <<loop, config, stopping, gen, cur, redialNow, sess, openers,
                 closing, wants, history>>

\* ... takes the mutex, and answers with the current one, cur.
RefAnswers ==
  /\ asked # 0
  /\ asked' = 0
  /\ UNCHANGED <<loop, config, stopping, gen, cur, redialNow, sess, openers,
                 closing, wants, history>>

\* A window of the plane opens or closes.
PlaneWants ==
  /\ wants' = ~wants
  /\ UNCHANGED <<loop, config, stopping, gen, cur, redialNow, sess, openers,
                 closing, asked, history>>

Shutdown ==
  /\ ~stopping /\ stopping' = TRUE
  /\ UNCHANGED <<loop, config, gen, cur, redialNow, sess, openers, closing,
                 wants, asked, history>>

-----------------------------------------------------------------------------
\* The configuration may hold credentials, a join token, both or neither.
Init ==
  /\ pc = "top" /\ end = "lost" /\ wait = "none"
  /\ joined \in BOOLEAN /\ token \in BOOLEAN
  /\ stopping = FALSE
  /\ gen = 0 /\ cur = 0 /\ redialNow = FALSE /\ sess = 0
  /\ opening = {} /\ pushing = {} /\ closing = {}
  /\ wants = FALSE
  /\ asked = 0
  /\ reconnects = 0 /\ grants = 1

RunStep ==
  \/ Stop \/ NoToken \/ JoinFails \/ JoinSucceeds \/ BeginSession
  \/ DialFails \/ DialOpens \/ ShutdownCloses \/ AfterSession \/ WaitOver

Next ==
  \/ RunStep \/ SessionEnds
  \/ \E g \in Session : SetSession(g) \/ ClearSession(g) \/ CloseSession(g)
  \/ Reconnect \/ RefChecks \/ RefAnswers \/ PlaneWants \/ Shutdown

Spec == Init /\ [][Next]_vars

\* The scheduler runs Run and the goroutines, a sleep ends, a dial and a close
\* have a time limit.  Nothing is assumed of the controller or of the plane.
Fairness ==
  /\ WF_vars(RunStep)
  /\ \A g \in Session :
       /\ WF_vars(SetSession(g)) /\ WF_vars(ClearSession(g))
       /\ WF_vars(CloseSession(g))

FairSpec == Spec /\ Fairness

-----------------------------------------------------------------------------
(* Properties. *)

\* Agent.sess, which Connected, Send and Reconnect go by, is the open session
\* once its OnOpen has registered it, however late the OnOpens of the sessions
\* before it return; and what it names, some OnOpen will take out again.
SessTracksSession ==
  /\ pc = "open" /\ opening = {} => sess = gen
  /\ sess # 0 => sess \in pushing

\* The agent never dials twice without a wait in between, except for a
\* Reconnect or a join that succeeded, one dial each: neither a flag that was
\* left over nor a rejected agent with a token makes it spin.
NoSpin == grants >= 0

\* The session a Reconnect closed is followed by a dial at once, also while
\* the plane wants the 2 s redial, and whatever calls and ends came before.
ReconnectAtOnce ==
  [][pc = "ended" /\ end = "closed" /\ pc' = "waiting" => wait' = "none"]_vars

\* With credentials, and no token to try first, a lost, refused or replaced
\* agent dials again, up to the bound, or is shut down.
DialsAgain ==
  (pc = "ended" /\ ~token)
    ~> (pc \in {"dialing", "stopped"} \/ gen = MaxSessions)

\* The documented answer of SessionRef, which is cur: the session the request
\* came in on, or none.
RefNamesItsSession == asked # 0 => cur \in {0, asked}
=============================================================================
