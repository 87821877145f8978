--------------------------- MODULE HealthCheckProofs ---------------------------
(***************************************************************************)
(* The health check's verdicts, for any radios, BSSes and configs, and any *)
(* number of changes of what runs.  The verdict is a function of what runs *)
(* now and of the record of what was broken; the invariant says that the   *)
(* record is what was broken when the files were saved.  Then the monitor. *)
(***************************************************************************)
EXTENDS HealthCheck, Monitor, TLAPS

Recorded == window # "none" => before = Before(was.run, was.cfg)

\* The configs involved are configs, and whether one loads does not change
\* between the save and the verdict.
Shape ==
  /\ run \in Run /\ cfg \in Config /\ expect \in Part
  /\ was \in [run : Run, cfg : Config]

IInv == Shape /\ Recorded

LEMMA ExpectedIsPart ==
  ASSUME NEW c \in Config, NEW ex \in Part
  PROVE  Expected(c, ex) \in Part
  BY HealthAssumption DEF Expected, Runnable, Config, Part

LEMMA NothingIsPart == Nothing \in Part
  BY DEF Nothing, Part

\* The first state is of the right shape and has recorded nothing.
THEOREM InitInv == Init => IInv
  BY HealthAssumption, NothingIsPart
  DEF Init, IInv, Shape, Recorded, Run, RadioState, BssState

\* The running state keeps its shape when it changes.
LEMMA ChangeKeeps ==
  ASSUME IInv, NEW x \in Radio, NEW s \in RadioState, RadioChanges(x, s)
  PROVE  IInv'
<1>1. run' \in Run
  <2>1. [run.radio EXCEPT ![x] = s] \in [Radio -> RadioState]
    BY DEF IInv, Shape, Run
  <2>2. [b \in Bss |-> IF RadioOf[b] = x /\ s # "up" THEN "missing" ELSE run.bss[b]]
          \in [Bss -> BssState]
    BY DEF IInv, Shape, Run, BssState
  <2>3. run' = [radio |-> [run.radio EXCEPT ![x] = s],
                bss |-> [b \in Bss |-> IF RadioOf[b] = x /\ s # "up"
                                       THEN "missing" ELSE run.bss[b]],
                told |-> run.told]
    BY DEF RadioChanges, IInv, Shape, Run
  <2> QED BY <2>1, <2>2, <2>3 DEF IInv, Shape, Run
<1>2. UNCHANGED <<cfg, window, expect, before, was>>
  BY DEF RadioChanges, Changes
<1> QED BY <1>1, <1>2 DEF IInv, Shape, Recorded

\* Every step keeps the shape and the record.
THEOREM StepInv == IInv /\ [Next]_vars => IInv'
<1> SUFFICES ASSUME IInv, [Next]_vars PROVE IInv'
  OBVIOUS
<1> USE HealthAssumption, NothingIsPart
<1>1. CASE Save
  BY <1>1 DEF Save, IInv, Shape, Recorded
<1>2. ASSUME NEW c \in Configs, NEW ex \in Expects, Commit(c, ex) PROVE IInv'
  BY <1>2 DEF Commit, IInv, Shape, Recorded
<1>3. CASE CheckPasses
  BY <1>3 DEF CheckPasses, IInv, Shape, Recorded
<1>4. CASE CheckFails
  BY <1>4 DEF CheckFails, IInv, Shape, Recorded
<1>5. CASE Deadline
  BY <1>5 DEF Deadline, IInv, Shape, Recorded
<1>6. CASE Close
  BY <1>6 DEF Close, IInv, Shape, Recorded
<1>7. ASSUME NEW x \in Radio, NEW s \in RadioState, RadioChanges(x, s) PROVE IInv'
  BY <1>7, ChangeKeeps
<1>8. ASSUME NEW b \in Bss, NEW s \in BssState, BssChanges(b, s) PROVE IInv'
  BY <1>8 DEF BssChanges, Changes, IInv, Shape, Recorded, Run
<1>9. CASE UbusChanges
  BY <1>9 DEF UbusChanges, Changes, IInv, Shape, Recorded, Run
<1>10. CASE UNCHANGED vars
  BY <1>10 DEF vars, IInv, Shape, Recorded
<1> QED
  BY <1>1, <1>2, <1>3, <1>4, <1>5, <1>6, <1>7, <1>8, <1>9, <1>10 DEF Next

THEOREM Invariance == Spec => []IInv
  BY InitInv, StepInv, PTL DEF Spec
-----------------------------------------------------------------------------
(* What the record says. *)

\* Every radio on record was broken, and every BSS.
LEMMA OnRecordWasBroken ==
  ASSUME IInv, window = "checking"
  PROVE  /\ \A x \in before.radio : RadioWasBroken(x)
         /\ \A b \in before.bss : BssWasBroken(b)
<1>1. before = Before(was.run, was.cfg)
  BY DEF IInv, Recorded
<1>2. CASE ~was.run.told
  BY <1>1, <1>2 DEF Before, Nothing
<1>3. CASE was.run.told
  <2> DEFINE e == Expected(was.cfg, Nothing)
             f == Failing(was.run, was.cfg, e)
  <2>1. /\ before.radio = f.radio \cup {x \in Radio : was.run.radio[x] = "failed"}
        /\ before.bss = {b \in f.bss : was.run.bss[b] \notin {"radar", "scan"}}
    BY <1>1, <1>3 DEF Before
  <2>2. /\ f.radio = {x \in e.radio : was.run.radio[x] # "up"}
        /\ f.bss = {b \in e.bss : ~BssWorks(was.run, was.cfg, b)}
    BY DEF Failing
  <2>3. \A x \in before.radio : RadioWasBroken(x)
    BY <2>1, <2>2 DEF RadioWasBroken, ExpectedThen
  <2>4. \A b \in before.bss : BssWasBroken(b)
    <3> SUFFICES ASSUME NEW b \in before.bss PROVE BssWasBroken(b)
      OBVIOUS
    <3>1. b \in e.bss /\ ~BssWorks(was.run, was.cfg, b)
          /\ was.run.bss[b] \notin {"radar", "scan"}
      BY <2>1, <2>2
    <3>2. e \in Part
      BY ExpectedIsPart, NothingIsPart DEF IInv, Shape
    <3>3. was.run.bss[b] \in BssState
      BY <3>1, <3>2 DEF IInv, Shape, Run, Part
    <3> QED BY <3>1, <3>3 DEF BssWasBroken, ExpectedThen, BssWorks, BssState
  <2> QED BY <2>3, <2>4
<1> QED BY <1>2, <1>3

\* An old problem of a BSS, as the verdict sees it, is one it had.
LEMMA OldWasBroken ==
  ASSUME IInv, window = "checking", NEW b, Old(before, cfg, b)
  PROVE  BssWasBroken(b)
  BY OnRecordWasBroken DEF Old, BssWasBroken

\* If ubus told, everything broken is on record.
LEMMA BrokenIsOnRecord ==
  ASSUME IInv, window = "checking", was.run.told
  PROVE  /\ \A x \in Radio : RadioWasBroken(x) => x \in before.radio
         /\ cfg.file = "loads" => \A b \in Bss : BssWasBroken(b) => Old(before, cfg, b)
<1> DEFINE e == Expected(was.cfg, Nothing)
           f == Failing(was.run, was.cfg, e)
<1>1. /\ before.radio = f.radio \cup {x \in Radio : was.run.radio[x] = "failed"}
      /\ before.bss = {b \in f.bss : was.run.bss[b] \notin {"radar", "scan"}}
  BY DEF IInv, Recorded, Before
<1>2. /\ f.radio = {x \in e.radio : was.run.radio[x] # "up"}
      /\ f.bss = {b \in e.bss : ~BssWorks(was.run, was.cfg, b)}
  BY DEF Failing
<1>3. \A x \in Radio : RadioWasBroken(x) => x \in before.radio
  BY <1>1, <1>2 DEF RadioWasBroken, ExpectedThen
<1>4. ASSUME cfg.file = "loads", NEW b \in Bss, BssWasBroken(b)
      PROVE  Old(before, cfg, b)
  <2>1. RadioOf[b] \in Radio
    BY HealthAssumption
  <2>2. CASE b \in cfg.section /\ RadioWasBroken(RadioOf[b])
    BY <1>3, <1>4, <2>1, <2>2 DEF Old
  <2>3. CASE /\ b \in ExpectedThen.bss
             /\ was.run.bss[b] \in {"wrong", "starting", "off", "unreachable", "missing"}
    <3>1. b \in e.bss
      BY <2>3 DEF ExpectedThen
    <3>2. ~BssWorks(was.run, was.cfg, b)
      <4>1. was.cfg.file = "loads" /\ b \in was.cfg.section
        BY <3>1 DEF Expected, Runnable, Nothing
      <4> QED BY <2>3, <4>1 DEF BssWorks
    <3>3. b \in before.bss
      BY <1>1, <1>2, <2>3, <3>1, <3>2
    <3> QED BY <3>3 DEF Old
  <2> QED BY <1>4, <2>2, <2>3 DEF BssWasBroken
<1> QED BY <1>3, <1>4
-----------------------------------------------------------------------------
(* The three properties. *)

\* What passes is healthy but for what was broken before.
THEOREM KeptHealthy == Spec => KeptIsHealthy
<1>1. ASSUME IInv, [Next]_vars, window = "checking", window' = "passed"
      PROVE  LET e == Expected(cfg, expect)
             IN  /\ \A x \in e.radio : run.radio[x] = "up" \/ RadioWasBroken(x)
                 /\ \A b \in e.bss : BssWorks(run, cfg, b) \/ BssWasBroken(b)
  <2> DEFINE e == Expected(cfg, expect)
  <2>1. CheckPasses
    BY <1>1 DEF Next, vars, Save, Commit, CheckFails, Deadline, Close, RadioChanges,
                BssChanges, UbusChanges, Changes
  <2>2. Counting(run, cfg, e, before) = Nothing
    BY <2>1 DEF CheckPasses, Checked, Passes
  <2>3. /\ Failing(run, cfg, e).radio \ before.radio = {}
        /\ {b \in Failing(run, cfg, e).bss : ~Old(before, cfg, b)} = {}
    BY <2>2 DEF Counting, Nothing
  <2>4. \A x \in e.radio : run.radio[x] = "up" \/ RadioWasBroken(x)
    BY <1>1, <2>3, OnRecordWasBroken DEF Failing
  <2>5. \A b \in e.bss : BssWorks(run, cfg, b) \/ Old(before, cfg, b)
    BY <2>3 DEF Failing
  <2>6. \A b \in e.bss : BssWorks(run, cfg, b) \/ BssWasBroken(b)
    BY <1>1, <2>5, OldWasBroken
  <2> QED BY <2>4, <2>6
<1>2. IInv /\ [Next]_vars =>
        [window = "checking" /\ window' = "passed" =>
           LET e == Expected(cfg, expect)
           IN  /\ \A x \in e.radio : run.radio[x] = "up" \/ RadioWasBroken(x)
               /\ \A b \in e.bss : BssWorks(run, cfg, b) \/ BssWasBroken(b)]_vars
  BY <1>1
<1> QED BY <1>2, Invariance, PTL DEF Spec, KeptIsHealthy

\* A step to "failed" is the check's.
LEMMA FailsByCheck ==
  ASSUME [Next]_vars, window = "checking", window' = "failed"
  PROVE  ~(cfg.file = "loads" /\ (Checked \/ Extended))
  BY DEF Next, vars, Save, Commit, CheckPasses, CheckFails, Deadline, Close,
         RadioChanges, BssChanges, UbusChanges, Changes

\* A change is taken back for what it broke, or because nobody could tell.
THEOREM NeverOld == Spec => NeverForOld
<1>1. ASSUME IInv, [Next]_vars, window = "checking", window' = "failed"
      PROVE  NewlyFailing \/ ~run.told \/ ~was.run.told \/ cfg.file # "loads"
  <2> SUFFICES ASSUME run.told, was.run.told, cfg.file = "loads"
               PROVE  NewlyFailing
    OBVIOUS
  <2> DEFINE e == Expected(cfg, expect)
  <2>1. Counting(run, cfg, e, before) # Nothing
    BY <1>1, FailsByCheck DEF Checked, Passes
  <2>2. e \in Part
    BY <1>1, ExpectedIsPart DEF IInv, Shape
  <2>3. CASE \E x \in Failing(run, cfg, e).radio : x \notin before.radio
    <3>1. PICK x \in e.radio : run.radio[x] # "up" /\ x \notin before.radio
      BY <2>3 DEF Failing
    <3>2. ~RadioWasBroken(x)
      BY <1>1, <2>2, <3>1, BrokenIsOnRecord DEF Part
    <3> QED BY <3>1, <3>2 DEF NewlyFailing
  <2>4. CASE \E b \in Failing(run, cfg, e).bss : ~Old(before, cfg, b)
    <3>1. PICK b \in e.bss : ~BssWorks(run, cfg, b) /\ ~Old(before, cfg, b)
      BY <2>4 DEF Failing
    <3>2. ~BssWasBroken(b)
      BY <1>1, <2>2, <3>1, BrokenIsOnRecord DEF Part
    <3> QED BY <3>1, <3>2 DEF NewlyFailing
  <2>5. \/ Failing(run, cfg, e).radio \ before.radio # {}
        \/ {b \in Failing(run, cfg, e).bss : ~Old(before, cfg, b)} # {}
    BY <2>1 DEF Counting, Nothing
  <2> QED BY <2>3, <2>4, <2>5
<1>2. IInv /\ [Next]_vars =>
        [window = "checking" /\ window' = "failed" =>
           NewlyFailing \/ ~run.told \/ ~was.run.told \/ cfg.file # "loads"]_vars
  BY <1>1
<1> QED BY <1>2, Invariance, PTL DEF Spec, NeverForOld

\* A radar check that was not broken before holds the verdict back.
THEOREM RadarWaits == Spec => RadarIsWaitedFor
<1>1. ASSUME IInv, [Next]_vars, window = "checking", window' = "failed",
             NEW b \in Expected(cfg, expect).bss,
             run.told, cfg.file = "loads", run.bss[b] = "radar"
      PROVE  BssWasBroken(b)
  <2>1. ~Extends(run, cfg, Expected(cfg, expect), before)
    BY <1>1, FailsByCheck DEF Extended
  <2>2. Old(before, cfg, b)
    BY <1>1, <2>1 DEF Extends
  <2> QED BY <1>1, <2>2, OldWasBroken
<1>2. IInv /\ [Next]_vars =>
        [window = "checking" /\ window' = "failed" =>
           \A b \in Expected(cfg, expect).bss :
             run.told /\ cfg.file = "loads" /\ run.bss[b] = "radar" => BssWasBroken(b)]_vars
  BY <1>1
<1> QED BY <1>2, Invariance, PTL DEF Spec, RadarIsWaitedFor

-----------------------------------------------------------------------------
(* The monitor, for any problems, debounce and number of sessions: another *)
(* part of the same package, with a state of its own.                      *)

\* A session that may be told something has a number, the last one given.
Numbered ==
  /\ link \in {"dialing", "open"} => cur = sessions /\ cur # 0
  /\ link \in {"ended", "down"} => cur = 0

\* A look knows a session that was there after it began, or knows that there
\* was none: then the next one is not the one it began in.  It sends only what
\* is news to the session it knows.
Looking ==
  /\ look.pc # "none" => look.began <= sessions
  /\ look.pc \in {"decides", "sends", "records"} =>
       /\ look.gen # 0 => look.began <= look.gen /\ look.gen <= sessions
       /\ look.gen = 0 /\ cur # 0 => look.began < sessions
  /\ look.pc \in {"sends", "records"} => mon.gen = look.gen
  /\ look.pc = "sends" => ~(mon.sent /\ mon.reported = look.sig)

\* What the session was told is on record, or about to be, if the look that
\* told it is one of the session's own.
OnRecord ==
  told.any /\ ~told.stale =>
    /\ look.pc # "none" => look.began = sessions
    /\ cur # 0 =>
         \/ look.pc = "records" /\ look.gen = sessions /\ look.sig = told.sig
         \/ /\ look.pc # "records"
            /\ mon.gen = sessions /\ mon.sent /\ mon.reported = told.sig

MonitorInv == MonitorTypeOK /\ Numbered /\ Looking /\ OnRecord

MonitorState ==
  [gen : Gen, have : BOOLEAN, candidate : Sig, sent : BOOLEAN,
   reported : Sig]
Look ==
  [pc : {"none", "reads", "ref", "decides", "sends", "records"},
   sig : Sig, gen : Gen, began : Gen]

\* A look that begins is a look.
LEMMA LookIsLook ==
  ASSUME {} \in Sig, 0 \in Gen, NEW n \in Gen
  PROVE  /\ NoLook \in Look
         /\ [NoLook EXCEPT !.pc = "reads", !.began = n] \in Look
  BY DEF NoLook, Look

\* The monitor's state is one when a state begins.
LEMMA StartedIsState ==
  ASSUME NEW m \in MonitorState, NEW sig \in Sig
  PROVE  [m EXCEPT !.have = TRUE, !.candidate = sig] \in MonitorState
  BY DEF MonitorState

\* The monitor's state is one when a message is on record.
LEMMA RecordedIsState ==
  ASSUME NEW m \in MonitorState, NEW sig \in Sig
  PROVE  [m EXCEPT !.sent = TRUE, !.reported = sig] \in MonitorState
  BY DEF MonitorState

\* The monitor's state is what the code can hold.
LEMMA MonitorTypes ==
  /\ MonitorInit => MonitorTypeOK
  /\ MonitorTypeOK /\ [MonitorNext]_mvars => MonitorTypeOK'
<1>1. {} \in Sig /\ 0 \in Gen /\ 0 \in 0..Debounce
  BY MonitorAssumption DEF Sig, Gen
<1>2. ASSUME MonitorInit PROVE MonitorTypeOK
  BY <1>1, <1>2 DEF MonitorInit, MonitorTypeOK, Fresh, NoLook, NotTold
<1>3. ASSUME MonitorTypeOK, [MonitorNext]_mvars PROVE MonitorTypeOK'
  <2> USE <1>1, <1>3 DEF MonitorTypeOK
  <2>1. CASE LookSkips
    BY <2>1 DEF LookSkips, session, wifi, Interrupted, At
  <2>2. CASE LookBegins
    <3>1. sessions \in Gen
      OBVIOUS
    <3>2. look' \in Look
      BY <2>2, <3>1, LookIsLook, Zenon DEF LookBegins
    <3>3. UNCHANGED <<link, cur, sessions, watched, busy, health, mon, age, told>>
      BY <2>2 DEF LookBegins, session, wifi
    <3> QED BY <3>2, <3>3 DEF Look
  <2>3. CASE Reads
    <3>1. Lasting(health) \in Sig
      BY DEF Lasting, Sig
    <3>2. look' = [look EXCEPT !.pc = "ref", !.sig = Lasting(health)]
      BY <2>3 DEF Reads
    <3>3. UNCHANGED <<link, cur, sessions, watched, busy, health, mon, age, told>>
      BY <2>3 DEF Reads, session, wifi
    <3> QED BY <3>1, <3>2, <3>3
  <2>4. CASE AsksSession
    <3>1. cur \in Gen
      OBVIOUS
    <3> QED BY <2>4, <3>1
      DEF AsksSession, session, wifi, At
  <2>5. CASE Decides
    <3> DEFINE m == OfSession(look.gen)
    <3>1. m \in MonitorState
      BY DEF OfSession, Fresh, MonitorState
    <3> HIDE DEF m
    <3>2. [m EXCEPT !.have = TRUE, !.candidate = look.sig] \in MonitorState
      BY <3>1, StartedIsState, Zenon
    <3>3. /\ look' = NoLook \/ look' = [look EXCEPT !.pc = "sends"]
                                  \/ look' = look
          /\ mon' = m \/ mon' = [m EXCEPT !.have = TRUE, !.candidate = look.sig]
          /\ age' = 0 \/ age' = age
          /\ UNCHANGED <<link, cur, sessions, watched, busy, health, told>>
      BY <2>5 DEF m, Decides, session, wifi
    <3>4. look' \in Look
      BY <3>3 DEF NoLook, Look
    <3> QED BY <3>1, <3>2, <3>3, <3>4 DEF MonitorState, Look
  <2>6. CASE Sends
    BY <2>6 DEF Sends, session, wifi, At
  <2>7. CASE SendFails
    BY <2>7 DEF SendFails, session, wifi, NoLook, At
  <2>8. CASE Records
    <3>1. mon \in MonitorState /\ look.sig \in Sig
      BY DEF MonitorState
    <3>2. mon' \in MonitorState
      BY <2>8, <3>1, RecordedIsState, Zenon DEF Records
    <3>3. UNCHANGED <<link, cur, sessions, watched, busy, health, age, told>>
          /\ look' = NoLook
      BY <2>8 DEF Records, session, wifi
    <3> QED BY <3>2, <3>3 DEF MonitorState, NoLook
  <2>9. CASE Tick
    BY <2>9, MonitorAssumption DEF Tick, session, wifi
  <2>10. CASE BeginSession
    <3>1. sessions + 1 \in Gen
      BY <2>10, MonitorAssumption DEF BeginSession, Gen
    <3>2. told' = [any |-> FALSE, sig |-> {}, stale |-> FALSE]
      BY <2>10 DEF BeginSession, NotTold
    <3>3. /\ cur' = sessions + 1 /\ sessions' = sessions + 1 /\ link' = "dialing"
          /\ UNCHANGED <<watched, busy, health, mon, age, look>>
      BY <2>10 DEF BeginSession, wifi
    <3> QED BY <3>1, <3>2, <3>3
  <2>11. CASE SetSession
    BY <2>11 DEF SetSession, session, wifi
  <2>12. CASE Configure
    BY <2>12 DEF Configure, session, wifi
  <2>13. CASE EndSession
    BY <2>13 DEF EndSession, session, wifi
  <2>14. CASE PlaneEndSession
    BY <2>14 DEF PlaneEndSession, session, wifi
  <2>15. CASE WindowChanges
    BY <2>15 DEF WindowChanges, session, wifi
  <2>16. ASSUME NEW p \in Problem, ProblemChanges(p) PROVE MonitorTypeOK'
    BY <2>16 DEF ProblemChanges, session, wifi
  <2>17. CASE UNCHANGED mvars
    BY <2>17 DEF mvars, session, wifi
  <2> QED
    BY <2>1, <2>2, <2>3, <2>4, <2>5, <2>6, <2>7, <2>8, <2>9, <2>10, <2>11, <2>12,
       <2>13, <2>14, <2>15, <2>16, <2>17
    DEF MonitorNext, LookStep
<1> QED BY <1>2, <1>3

LEMMA MonitorInitInv ==
  ASSUME MonitorInit
  PROVE  MonitorInv
<1>1. MonitorTypeOK
  BY MonitorTypes
<1>2. Numbered /\ Looking /\ OnRecord
  BY DEF MonitorInit, Numbered, Looking, OnRecord, NoLook, NotTold
<1> QED BY <1>1, <1>2 DEF MonitorInv

\* What is known of the look and of the session lasts.
LEMMA LookingStep ==
  ASSUME MonitorTypeOK, Numbered, Looking,
         [MonitorNext]_mvars
  PROVE  Numbered' /\ Looking'
<1> USE MonitorAssumption DEF MonitorTypeOK, Gen, Numbered, Looking
<1>1. CASE LookSkips
  BY <1>1 DEF LookSkips, session, wifi, Interrupted, At
<1>2. CASE LookBegins
  BY <1>2 DEF LookBegins, session, wifi, NoLook, At
<1>3. CASE Reads
  BY <1>3 DEF Reads, session, wifi, Lasting, At
<1>4. CASE AsksSession
  BY <1>4 DEF AsksSession, session, wifi, At
<1>5. CASE Decides
  <2> DEFINE m == OfSession(look.gen)
  <2>1. m.gen = look.gen
    BY DEF OfSession, Fresh
  <2> HIDE DEF m
  <2>3. /\ look.pc = "decides"
        /\ \/ look' = NoLook
           \/ look' = [look EXCEPT !.pc = "sends"] /\ mon' = m
                /\ ~(m.sent /\ m.reported = look.sig)
        /\ UNCHANGED <<link, cur, sessions>>
    BY <1>5 DEF m, Decides, Due, At, session, wifi
  <2>4. CASE look' = NoLook
    BY <2>3, <2>4 DEF NoLook
  <2>5. CASE look' = [look EXCEPT !.pc = "sends"] /\ mon' = m
               /\ ~(m.sent /\ m.reported = look.sig)
    BY <2>1, <2>3, <2>5
  <2> QED BY <2>3, <2>4, <2>5
<1>6. CASE Sends
  BY <1>6 DEF Sends, session, wifi, At
<1>7. CASE SendFails
  BY <1>7 DEF SendFails, session, wifi, NoLook, At
<1>8. CASE Records
  BY <1>8 DEF Records, session, wifi, NoLook, At
<1>9. CASE Tick
  BY <1>9 DEF Tick, session, wifi
<1>10. CASE BeginSession
  BY <1>10 DEF BeginSession, session, wifi, NotTold
<1>11. CASE SetSession
  BY <1>11 DEF SetSession, session, wifi
<1>12. CASE Configure
  BY <1>12 DEF Configure, session, wifi
<1>13. CASE EndSession
  BY <1>13 DEF EndSession, session, wifi
<1>14. CASE PlaneEndSession
  BY <1>14 DEF PlaneEndSession, session, wifi
<1>15. CASE WindowChanges
  BY <1>15 DEF WindowChanges, session, wifi
<1>16. ASSUME NEW p \in Problem, ProblemChanges(p) PROVE Numbered' /\ Looking'
  BY <1>16 DEF ProblemChanges, session, wifi
<1>17. CASE UNCHANGED mvars
  BY <1>17 DEF mvars, session, wifi
<1> QED
  BY <1>1, <1>2, <1>3, <1>4, <1>5, <1>6, <1>7, <1>8, <1>9, <1>10, <1>11, <1>12,
     <1>13, <1>14, <1>15, <1>16, <1>17
  DEF MonitorNext, LookStep

\* What the session was told stays on record.
LEMMA OnRecordStep ==
  ASSUME MonitorInv, [MonitorNext]_mvars
  PROVE  OnRecord'
<1> USE MonitorAssumption
  DEF MonitorInv, MonitorTypeOK, Gen, Numbered,
      Looking, OnRecord
<1>1. CASE LookSkips
  BY <1>1 DEF LookSkips, session, wifi, Interrupted, At
<1>2. CASE LookBegins
  BY <1>2 DEF LookBegins, session, wifi, NoLook, At
<1>3. CASE Reads
  BY <1>3 DEF Reads, session, wifi, Lasting, At
<1>4. CASE AsksSession
  BY <1>4 DEF AsksSession, session, wifi, At
<1>5. CASE Decides
  <2> SUFFICES ASSUME told.any, ~told.stale, cur # 0 PROVE OnRecord'
    <3>1. UNCHANGED <<told, cur, sessions>> /\ look.pc = "decides"
      BY <1>5 DEF Decides, At, session, wifi
    <3>2. look'.began = look.began
            \/ look' = NoLook
      BY <1>5 DEF Decides, At, session, wifi
    <3> QED BY <3>1, <3>2 DEF NoLook
  <2>1. /\ look.gen = sessions /\ mon.gen = sessions
        /\ mon.sent /\ mon.reported = told.sig
    BY <1>5 DEF Decides, At
  <2>2. OfSession(look.gen) = mon
    BY <2>1 DEF OfSession
  <2>3. /\ UNCHANGED <<told, cur, sessions>>
        /\ mon'.gen = mon.gen /\ mon'.sent = mon.sent /\ mon'.reported = mon.reported
        /\ \/ look' = NoLook
           \/ look' = [look EXCEPT !.pc = "sends"]
    BY <1>5, <2>2 DEF Decides, session, wifi
  <2>4. /\ look'.pc \in {"none", "sends"}
        /\ look'.pc # "none" => look'.began = look.began
    BY <2>3 DEF NoLook
  <2> QED BY <1>5, <2>1, <2>3, <2>4 DEF Decides, At
<1>6. CASE Sends
  <2>1. /\ UNCHANGED <<mon, cur, sessions>> /\ look.pc = "sends"
        /\ cur = sessions /\ cur # 0
        /\ told'.sig = look.sig /\ (~told'.stale => look.began = cur)
        /\ look'.pc = "records" /\ look'.gen = look.gen
        /\ look'.sig = look.sig /\ look'.began = look.began
    BY <1>6 DEF Sends, session, wifi, At
  <2>2. look.began = cur => look.gen = sessions
    BY <2>1
  <2> QED BY <2>1, <2>2
<1>7. CASE SendFails
  BY <1>7 DEF SendFails, session, wifi, NoLook, At
<1>8. CASE Records
  BY <1>8 DEF Records, session, wifi, NoLook, At
<1>9. CASE Tick
  BY <1>9 DEF Tick, session, wifi
<1>10. CASE BeginSession
  BY <1>10 DEF BeginSession, session, wifi, NotTold
<1>11. CASE SetSession
  BY <1>11 DEF SetSession, session, wifi
<1>12. CASE Configure
  BY <1>12 DEF Configure, session, wifi
<1>13. CASE EndSession
  BY <1>13 DEF EndSession, session, wifi
<1>14. CASE PlaneEndSession
  BY <1>14 DEF PlaneEndSession, session, wifi
<1>15. CASE WindowChanges
  BY <1>15 DEF WindowChanges, session, wifi
<1>16. ASSUME NEW p \in Problem, ProblemChanges(p) PROVE OnRecord'
  BY <1>16 DEF ProblemChanges, session, wifi
<1>17. CASE UNCHANGED mvars
  BY <1>17 DEF mvars, session, wifi
<1> QED
  BY <1>1, <1>2, <1>3, <1>4, <1>5, <1>6, <1>7, <1>8, <1>9, <1>10, <1>11, <1>12,
     <1>13, <1>14, <1>15, <1>16, <1>17
  DEF MonitorNext, LookStep

LEMMA MonitorStepInv ==
  ASSUME MonitorInv, [MonitorNext]_mvars
  PROVE  MonitorInv'
  BY MonitorTypes, LookingStep, OnRecordStep DEF MonitorInv

\* A session is told a state only if it is news to it, whatever sessions,
\* windows and problems come and go while a look goes on (monitorTick).
THEOREM OnlyNewsIsTold == MonitorSpec => TellsNews
<1>1. MonitorInit => MonitorInv
  BY MonitorInitInv
<1>2. MonitorInv /\ [MonitorNext]_mvars => MonitorInv'
  BY MonitorStepInv
<1>3. ASSUME MonitorInv, [MonitorNext]_mvars,
             look.pc = "sends", look'.pc = "records"
      PROVE  told.stale \/ ~told.any \/ told.sig # look.sig
  <2>1. link = "open"
    BY <1>3
      DEF MonitorInv, MonitorTypeOK, MonitorNext, LookStep, At, LookSkips,
          LookBegins, Reads, AsksSession, Decides, Sends, SendFails, Records,
          Tick, BeginSession, SetSession, Configure, EndSession,
          PlaneEndSession, WindowChanges, ProblemChanges, NoLook, mvars
  <2> QED BY <1>3, <2>1 DEF MonitorInv, Numbered, Looking, OnRecord
<1>4. MonitorInv /\ [MonitorNext]_mvars =>
        [look.pc = "sends" /\ look'.pc = "records" =>
           told.stale \/ ~told.any \/ told.sig # look.sig]_mvars
  BY <1>3
<1> QED BY <1>1, <1>2, <1>4, PTL DEF MonitorSpec, TellsNews

\* What is on record as told to the session there is, it was told: a look that
\* says nothing because of the record keeps nothing from the controller.
RecordIsTrue ==
  cur # 0 /\ mon.gen = cur /\ mon.sent /\ look.pc # "records" =>
    told.any /\ told.sig = mon.reported

\* With what is about to be put on record.
Truthful ==
  /\ mon.gen <= sessions
  /\ cur # 0 /\ mon.gen = cur =>
       /\ look.pc = "records" => told.any /\ told.sig = look.sig
       /\ look.pc # "records" /\ mon.sent => told.any /\ told.sig = mon.reported

LEMMA TruthfulStep ==
  ASSUME MonitorInv, Truthful,
         [MonitorNext]_mvars
  PROVE  Truthful'
<1> USE MonitorAssumption
  DEF MonitorInv, MonitorTypeOK, Gen, Numbered,
      Looking, Truthful, session, wifi, At
<1>1. CASE LookSkips
  BY <1>1 DEF LookSkips, Interrupted
<1>2. CASE LookBegins
  BY <1>2 DEF LookBegins, NoLook
<1>3. CASE Reads
  BY <1>3 DEF Reads
<1>4. CASE AsksSession
  BY <1>4 DEF AsksSession
<1>5. CASE Decides
  <2> DEFINE m == OfSession(look.gen)
  <2>1. /\ UNCHANGED <<told, cur, sessions>> /\ look.pc = "decides"
        /\ look'.pc # "records"
        /\ mon'.gen = m.gen /\ mon'.sent = m.sent /\ mon'.reported = m.reported
    <3>1. m \in [gen : Gen, have : BOOLEAN, candidate : Sig,
                 sent : BOOLEAN, reported : Sig]
      BY DEF OfSession, Fresh, Sig
    <3>2. /\ UNCHANGED <<told, cur, sessions>> /\ look.pc = "decides"
          /\ \/ mon' = m
             \/ mon' = [m EXCEPT !.have = TRUE, !.candidate = look.sig]
          /\ look' \in {NoLook, [look EXCEPT !.pc = "sends"]}
      BY <1>5 DEF Decides
    <3>3. look'.pc # "records"
      BY <3>2 DEF NoLook
    <3> HIDE DEF m
    <3>4. mon'.gen = m.gen /\ mon'.sent = m.sent /\ mon'.reported = m.reported
      BY <3>1, <3>2
    <3> QED BY <3>2, <3>3, <3>4
  <2>2. CASE mon.gen = look.gen
    BY <2>1, <2>2 DEF OfSession
  <2>3. CASE mon.gen # look.gen
    BY <2>1, <2>3 DEF OfSession, Fresh
  <2> QED BY <2>2, <2>3
<1>6. CASE Sends
  BY <1>6 DEF Sends
<1>7. CASE SendFails
  BY <1>7 DEF SendFails, NoLook
<1>8. CASE Records
  BY <1>8 DEF Records, NoLook
<1>9. CASE Tick
  BY <1>9 DEF Tick
<1>10. CASE BeginSession
  BY <1>10 DEF BeginSession
<1>11. CASE SetSession
  BY <1>11 DEF SetSession
<1>12. CASE Configure
  BY <1>12 DEF Configure
<1>13. CASE EndSession
  BY <1>13 DEF EndSession
<1>14. CASE PlaneEndSession
  BY <1>14 DEF PlaneEndSession
<1>15. CASE WindowChanges
  BY <1>15 DEF WindowChanges
<1>16. ASSUME NEW p \in Problem, ProblemChanges(p) PROVE Truthful'
  BY <1>16 DEF ProblemChanges
<1>17. CASE UNCHANGED mvars
  BY <1>17 DEF mvars
<1> QED
  BY <1>1, <1>2, <1>3, <1>4, <1>5, <1>6, <1>7, <1>8, <1>9, <1>10, <1>11, <1>12,
     <1>13, <1>14, <1>15, <1>16, <1>17
  DEF MonitorNext, LookStep

\* The record never names a state that this session was not told, whatever
\* session a look began in and whichever it reached (monitorTick).
THEOREM NothingIsHeldBack == MonitorSpec => []RecordIsTrue
<1>1. ASSUME MonitorInit PROVE MonitorInv /\ Truthful
  <2>1. Truthful
    BY <1>1 DEF MonitorInit, Fresh, Truthful
  <2> QED BY <1>1, <2>1, MonitorInitInv
<1>2. MonitorInv /\ Truthful /\ [MonitorNext]_mvars
        => (MonitorInv /\ Truthful)'
  BY MonitorStepInv, TruthfulStep
<1>3. Truthful => RecordIsTrue
  BY DEF Truthful, RecordIsTrue
<1> QED BY <1>1, <1>2, <1>3, PTL DEF MonitorSpec
=============================================================================
