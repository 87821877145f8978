-------------------------------- MODULE Monitor --------------------------------
(***************************************************************************)
(* The health monitor (internal/wifiplane/monitor.go): outside a window it *)
(* looks at the Wi-Fi every MonitorInterval and tells the controller of a  *)
(* state that has lasted, once in each session.  A look takes time, and    *)
(* holds no lock while it asks netifd and hostapd and while it writes: a   *)
(* session may end, and the next one open, at any of its steps.            *)
(*                                                                         *)
(* Of the session loop (AgentSession) there is what the monitor reads: the *)
(* number SessionRef gives, whether Send has a session, and the            *)
(* controller's mode, which EndSession switches off.                       *)
(***************************************************************************)
EXTENDS Integers

CONSTANTS
  Problem,             \* the problems a report can have
  Passing,             \* those that end on their own (radar check, scan)
  Debounce,            \* HealthDebounce, in ticks of the clock
  MaxSessions          \* bound on the sessions

VARIABLES
  link, cur, sessions, \* the session loop: where it is, Agent.cur.gen, Agent.gen
  watched,             \* the mode is not off
  busy,                \* a window is open, the plane's or the groups'
  health,              \* the problems there are
  mon, age,            \* monitorState, and the time since mon.since
  look,                \* monitorTick: where it is, and what it has read
  told                 \* history: what the session was told last, and whether
                       \* by a look that began before the session

session == <<link, cur, sessions, watched>>
wifi == <<busy, health>>
mvars == <<session, wifi, mon, age, look, told>>

ASSUME MonitorAssumption ==
  /\ Passing \subseteq Problem
  /\ Debounce \in Nat \ {0} /\ MaxSessions \in Nat

Sig == SUBSET (Problem \ Passing)
Gen == 0..MaxSessions

NoLook == [pc |-> "none", sig |-> {}, gen |-> 0, began |-> 0]
NotTold == [any |-> FALSE, sig |-> {}, stale |-> FALSE]
Fresh(g) == [gen |-> g, have |-> FALSE, candidate |-> {}, sent |-> FALSE,
             reported |-> {}]

At(pc) == look.pc = pc

-----------------------------------------------------------------------------
(* One look. *)

Lasting(problems) == problems \ Passing

\* A variant with a defect, for the properties to catch.
InterruptedForgets == [mon EXCEPT !.have = FALSE, !.sent = FALSE]

\* Nothing to watch: a state has to last again afterwards.
Interrupted == [mon EXCEPT !.have = FALSE]

LookSkips ==
  /\ At("none") /\ (~watched \/ busy)
  /\ mon' = Interrupted
  /\ UNCHANGED <<session, wifi, age, look, told>>

LookBegins ==
  /\ At("none") /\ watched /\ ~busy
  /\ look' = [NoLook EXCEPT !.pc = "reads", !.began = sessions]
  /\ UNCHANGED <<session, wifi, mon, age, told>>

\* healthNow: netifd, hostapd.
Reads ==
  /\ At("reads")
  /\ look' = [look EXCEPT !.pc = "ref", !.sig = Lasting(health)]
  /\ UNCHANGED <<session, wifi, mon, age, told>>

\* sessionRef, with a context of the process.
AsksSession ==
  /\ At("ref")
  /\ look' = [look EXCEPT !.pc = "decides", !.gen = cur]
  /\ UNCHANGED <<session, wifi, mon, age, told>>

\* A variant with a defect.
OfSessionKeepsSent(g) == [mon EXCEPT !.gen = g]

\* A new session starts over.
OfSession(g) == IF mon.gen = g THEN mon ELSE Fresh(g)

\* A first look at this state.
Starts(m, sig) == ~m.have \/ m.candidate # sig

Due(m, sig) == age >= Debounce /\ ~(m.sent /\ m.reported = sig)

Decides ==
  LET m == OfSession(look.gen)
  IN  /\ At("decides")
      /\ IF Starts(m, look.sig)
         THEN /\ mon' = [m EXCEPT !.have = TRUE, !.candidate = look.sig]
              /\ age' = 0 /\ look' = NoLook
         ELSE /\ mon' = m /\ UNCHANGED age
              /\ look' = IF Due(m, look.sig)
                         THEN [look EXCEPT !.pc = "sends"] ELSE NoLook
      /\ UNCHANGED <<session, wifi, told>>

\* Send goes to the session there is now.
Sends ==
  /\ At("sends") /\ link = "open"
  /\ told' = [any |-> TRUE, sig |-> look.sig, stale |-> look.began # cur]
  /\ look' = [look EXCEPT !.pc = "records"]
  /\ UNCHANGED <<session, wifi, mon, age>>

SendFails ==
  /\ At("sends") /\ link # "open"
  /\ look' = NoLook
  /\ UNCHANGED <<session, wifi, mon, age, told>>

Records ==
  /\ At("records")
  /\ mon' = IF mon.gen = look.gen
            THEN [mon EXCEPT !.sent = TRUE, !.reported = look.sig] ELSE mon
  /\ look' = NoLook
  /\ UNCHANGED <<session, wifi, age, told>>

-----------------------------------------------------------------------------
(* The session loop. *)

BeginSession ==
  /\ link = "down" /\ sessions < MaxSessions
  /\ sessions' = sessions + 1 /\ cur' = sessions + 1
  /\ link' = "dialing" /\ told' = NotTold
  /\ UNCHANGED <<watched, wifi, mon, age, look>>

\* OnOpen: setSession.
SetSession ==
  /\ link = "dialing" /\ link' = "open"
  /\ UNCHANGED <<cur, sessions, watched, wifi, mon, age, look, told>>

\* agent.configure: the mode, any number of times.
Configure ==
  /\ link = "open" /\ watched' = ~watched
  /\ UNCHANGED <<link, cur, sessions, wifi, mon, age, look, told>>

\* endSession, under the mutex; then it tells the plane.
EndSession ==
  /\ link \in {"dialing", "open"} /\ link' = "ended" /\ cur' = 0
  /\ UNCHANGED <<sessions, watched, wifi, mon, age, look, told>>

PlaneEndSession ==
  /\ link = "ended" /\ link' = "down" /\ watched' = FALSE
  /\ UNCHANGED <<cur, sessions, wifi, mon, age, look, told>>

-----------------------------------------------------------------------------
(* The Wi-Fi, and time. *)

WindowChanges ==
  /\ busy' = ~busy
  /\ UNCHANGED <<session, health, mon, age, look, told>>

ProblemChanges(p) ==
  /\ health' = IF p \in health THEN health \ {p} ELSE health \cup {p}
  /\ UNCHANGED <<session, busy, mon, age, look, told>>

\* MonitorInterval; late or dropped ticks are looks that come later.
Tick ==
  /\ age < Debounce /\ age' = age + 1
  /\ UNCHANGED <<session, wifi, mon, look, told>>

-----------------------------------------------------------------------------
MonitorInit ==
  /\ link = "down" /\ cur = 0 /\ sessions = 0 /\ watched = FALSE
  /\ busy \in BOOLEAN /\ health \in SUBSET Problem
  /\ mon = Fresh(0) /\ age = 0
  /\ look = NoLook /\ told = NotTold

LookStep ==
  \/ LookSkips \/ LookBegins \/ Reads \/ AsksSession \/ Decides
  \/ Sends \/ SendFails \/ Records

MonitorNext ==
  \/ LookStep \/ Tick
  \/ BeginSession \/ SetSession \/ Configure \/ EndSession \/ PlaneEndSession
  \/ WindowChanges \/ \E p \in Problem : ProblemChanges(p)

MonitorSpec == MonitorInit /\ [][MonitorNext]_mvars

\* The monitor's goroutine runs, its ticker ticks, and time passes.
Fairness == WF_mvars(LookStep) /\ WF_mvars(Tick)

FairSpec == MonitorSpec /\ Fairness

-----------------------------------------------------------------------------
(* Properties. *)

MonitorTypeOK ==
  /\ link \in {"down", "dialing", "open", "ended"}
  /\ cur \in {0, sessions} /\ sessions \in Gen
  /\ watched \in BOOLEAN /\ busy \in BOOLEAN /\ health \subseteq Problem
  /\ mon \in [gen : Gen, have : BOOLEAN, candidate : Sig, sent : BOOLEAN,
              reported : Sig]
  /\ age \in 0..Debounce
  /\ look \in [pc : {"none", "reads", "ref", "decides", "sends", "records"},
               sig : Sig, gen : Gen, began : Gen]
  /\ told \in [any : BOOLEAN, sig : Sig, stale : BOOLEAN]

\* A controller that goes on watching a Wi-Fi whose state lasts has been told
\* that state, whatever it, and the controllers before it, were told earlier.
SteadyIsTold ==
  \A s \in Sig :
    (<>[](link = "open" /\ watched /\ ~busy /\ Lasting(health) = s))
      => <>[](told.any /\ told.sig = s)

\* A session is told a state once: again only after another one, unless what it
\* was told came from a look that began in an earlier session.
TellsNews ==
  [][look.pc = "sends" /\ look'.pc = "records" =>
       told.stale \/ ~told.any \/ told.sig # look.sig]_mvars
=============================================================================
