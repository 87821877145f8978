------------------------------ MODULE HealthCheck ------------------------------
(***************************************************************************)
(* The health check of a Wi-Fi apply (internal/wifiplane/health.go): what  *)
(* was broken is recorded when the files are saved, the change is          *)
(* committed, and from then on the check is asked again and again until it *)
(* passes or its time is up and the change is taken back.                  *)
(*                                                                         *)
(* Radios and BSSes change at any time.  The window is the agentkit's      *)
(* (openwrt/plane): here it is only what the check needs of it.            *)
(***************************************************************************)
EXTENDS Naturals

CONSTANTS
  Radio,               \* the wifi-device sections
  Bss,                 \* the wifi-iface sections
  RadioOf,             \* the radio each BSS is on
  Configs, Expects,    \* the configs committed, and what the controller lists
  MaxChanges           \* bound on the changes of the running state

VARIABLES
  run,                 \* the Wi-Fi as it runs, and whether ubus tells
  cfg,                 \* the committed wireless config
  window,              \* where the apply stands
  expect,              \* what the controller expects of it
  before,              \* what was broken, by HealthBefore
  was,                 \* history: run and cfg when the files were saved
  changes
vars == <<run, cfg, window, expect, before, was, changes>>

RadioState == {"up", "pending", "down", "failed", "unknown"}
BssState == {"enabled", "wrong", "radar", "scan", "starting", "off",
                "unreachable", "missing"}

Run == [radio : [Radio -> RadioState], bss : [Bss -> BssState],
        told : BOOLEAN]
\* A config: the enabled radios, the interfaces, and the enabled access points
\* among these.  It cannot be loaded if there is no file, or a bad one.
Config == [file : {"loads", "absent", "bad"}, on : SUBSET Radio,
           section : SUBSET Bss, enabled : SUBSET Bss]
Part == [radio : SUBSET Radio, bss : SUBSET Bss]
Nothing == [radio |-> {}, bss |-> {}]

ASSUME HealthAssumption ==
  /\ RadioOf \in [Bss -> Radio]
  /\ Configs \subseteq Config /\ Expects \subseteq Part
  /\ MaxChanges \in Nat

-----------------------------------------------------------------------------
(* What must run. *)

Runnable(c) ==
  IF c.file # "loads" THEN {}
  ELSE {b \in c.enabled \cap c.section : RadioOf[b] \in c.on}

\* A BSS the controller names counts whatever the config says of it.
Expected(c, ex) ==
  LET bss == Runnable(c) \cup ex.bss
      known == IF c.file = "loads" THEN c.section ELSE {}
  IN  [bss |-> bss,
       radio |-> ex.radio \cup {RadioOf[b] : b \in (bss \cap known)}]

-----------------------------------------------------------------------------
(* The verdict on what runs. *)

\* An SSID is compared only if the config has one.
BssWorks(r, c, b) ==
  \/ r.bss[b] = "enabled"
  \/ r.bss[b] = "wrong" /\ ~(c.file = "loads" /\ b \in c.section)

Failing(r, c, e) ==
  [radio |-> {x \in e.radio : r.radio[x] # "up"},
   bss |-> {b \in e.bss : ~BssWorks(r, c, b)}]

\* Mutant of Old: only what was broken itself is old.
OldItself(broken, c, b) == b \in broken.bss

\* A problem that was there before the apply does not count; that of a BSS
\* neither, when its radio was broken.
Old(broken, c, b) ==
  \/ b \in broken.bss
  \/ c.file = "loads" /\ b \in c.section /\ RadioOf[b] \in broken.radio

Counting(r, c, e, broken) ==
  [radio |-> Failing(r, c, e).radio \ broken.radio,
   bss |-> {b \in Failing(r, c, e).bss : ~Old(broken, c, b)}]

Passes(r, c, e, broken) == r.told /\ Counting(r, c, e, broken) = Nothing

\* Mutant of Extends: the check does not ask for more time.
ExtendsNever(r, c, e, broken) == FALSE

\* A radar check that counts gets the time it still needs.
Extends(r, c, e, broken) ==
  \E b \in e.bss : r.told /\ r.bss[b] = "radar" /\ ~Old(broken, c, b)

\* Mutant of Before: a radar check is broken, too.
BeforeWithRadar(r, c) ==
  LET failing == Failing(r, c, Expected(c, Nothing))
  IN  IF ~r.told THEN Nothing
      ELSE [radio |-> failing.radio \cup {x \in Radio : r.radio[x] = "failed"},
            bss |-> failing.bss]

\* HealthBefore: the expected radios that are not up and the expected BSSes that
\* do not beacon (a radar check and a scan end on their own), and every radio
\* netifd gave up on.
Before(r, c) ==
  LET failing == Failing(r, c, Expected(c, Nothing))
  IN  IF ~r.told THEN Nothing
      ELSE [radio |-> failing.radio \cup {x \in Radio : r.radio[x] = "failed"},
            bss |-> {b \in failing.bss : r.bss[b] \notin {"radar", "scan"}}]

-----------------------------------------------------------------------------
Init ==
  /\ cfg \in Configs
  /\ run = [radio |-> [x \in Radio |-> "up"], bss |-> [b \in Bss |-> "enabled"],
            told |-> TRUE]
  /\ window = "none" /\ expect = Nothing /\ before = Nothing
  /\ was = [run |-> run, cfg |-> cfg]
  /\ changes = 0

\* The plane saves the files and asks what is broken.
Save ==
  /\ window = "none"
  /\ window' = "saved"
  /\ before' = Before(run, cfg)
  /\ was' = [run |-> run, cfg |-> cfg]
  /\ UNCHANGED <<run, cfg, expect, changes>>

\* It commits the change, which does not make or break the file.
Commit(c, ex) ==
  /\ window = "saved" /\ c.file = cfg.file
  /\ window' = "checking" /\ cfg' = c /\ expect' = ex
  /\ UNCHANGED <<run, before, was, changes>>

Checked == Passes(run, cfg, Expected(cfg, expect), before)
Extended == Extends(run, cfg, Expected(cfg, expect), before)

\* The check; a config that cannot be loaded leaves it pending.
CheckPasses ==
  /\ window = "checking" /\ cfg.file = "loads" /\ Checked
  /\ window' = "passed"
  /\ UNCHANGED <<run, cfg, expect, before, was, changes>>

\* It is pending when its time is up: the plane puts the files back.
CheckFails ==
  /\ window = "checking"
  /\ ~(cfg.file = "loads" /\ (Checked \/ Extended))
  /\ window' = "failed" /\ cfg' = was.cfg
  /\ UNCHANGED <<run, expect, before, was, changes>>

\* The confirm's deadline comes first.
Deadline ==
  /\ window \in {"checking", "passed"}
  /\ window' = "expired" /\ cfg' = was.cfg
  /\ UNCHANGED <<run, expect, before, was, changes>>

\* The controller confirms, or has read the outcome.
Close ==
  /\ window \in {"passed", "failed", "expired"}
  /\ window' = "none" /\ expect' = Nothing /\ before' = Nothing
  /\ was' = [run |-> run, cfg |-> cfg]
  /\ UNCHANGED <<run, cfg, changes>>

-----------------------------------------------------------------------------
(* The Wi-Fi. *)

Changes == changes < MaxChanges /\ changes' = changes + 1
           /\ UNCHANGED <<cfg, window, expect, before, was>>

\* A radio that is not up has no BSS.
RadioChanges(x, s) ==
  /\ run.radio[x] # s
  /\ run' = [run EXCEPT !.radio[x] = s,
                        !.bss = [b \in Bss |-> IF RadioOf[b] = x /\ s # "up"
                                               THEN "missing" ELSE @[b]]]
  /\ Changes

BssChanges(b, s) ==
  /\ run.bss[b] # s /\ run.radio[RadioOf[b]] = "up"
  /\ run' = [run EXCEPT !.bss[b] = s]
  /\ Changes

UbusChanges ==
  /\ run' = [run EXCEPT !.told = ~@]
  /\ Changes

Next ==
  \/ Save
  \/ \E c \in Configs, ex \in Expects : Commit(c, ex)
  \/ CheckPasses \/ CheckFails \/ Deadline \/ Close
  \/ \E x \in Radio, s \in RadioState : RadioChanges(x, s)
  \/ \E b \in Bss, s \in BssState : BssChanges(b, s)
  \/ UbusChanges

Spec == Init /\ [][Next]_vars

-----------------------------------------------------------------------------
TypeOK ==
  /\ run \in Run /\ cfg \in Config
  /\ window \in {"none", "saved", "checking", "passed", "failed", "expired"}
  /\ expect \in Part /\ before \in Part
  /\ was \in [run : Run, cfg : Config]
  /\ changes \in 0..MaxChanges

\* What was broken when the files were saved: a radio netifd gave up on or that
\* was to be up and was not, a BSS that was to beacon and did not, or was on such
\* a radio.
ExpectedThen == Expected(was.cfg, Nothing)
RadioWasBroken(x) ==
  \/ was.run.radio[x] = "failed"
  \/ x \in ExpectedThen.radio /\ was.run.radio[x] # "up"
BssWasBroken(b) ==
  \/ /\ b \in ExpectedThen.bss
     /\ was.run.bss[b] \in {"wrong", "starting", "off", "unreachable", "missing"}
  \/ b \in cfg.section /\ RadioWasBroken(RadioOf[b])

\* A change is kept only if everything it is expected to have runs, but for what
\* was broken before it (health.go's first comment).
KeptIsHealthy ==
  [][window = "checking" /\ window' = "passed" =>
       LET e == Expected(cfg, expect)
       IN  /\ \A x \in e.radio : run.radio[x] = "up" \/ RadioWasBroken(x)
           /\ \A b \in e.bss : BssWorks(run, cfg, b) \/ BssWasBroken(b)]_vars

NewlyFailing ==
  LET e == Expected(cfg, expect)
  IN  \/ \E x \in e.radio : run.radio[x] # "up" /\ ~RadioWasBroken(x)
      \/ \E b \in e.bss : ~BssWorks(run, cfg, b) /\ ~BssWasBroken(b)

\* What was broken before is never a reason to take a change back; not being
\* able to tell is, then or now (health.go:30-31).
NeverForOld ==
  [][window = "checking" /\ window' = "failed" =>
       NewlyFailing \/ ~run.told \/ ~was.run.told \/ cfg.file # "loads"]_vars

\* A change is not taken back while a radar check it needs is running, before
\* the deadline (health.go evaluate, extend).
RadarIsWaitedFor ==
  [][window = "checking" /\ window' = "failed" =>
       \A b \in Expected(cfg, expect).bss :
         run.told /\ cfg.file = "loads" /\ run.bss[b] = "radar" => BssWasBroken(b)]_vars
=============================================================================
