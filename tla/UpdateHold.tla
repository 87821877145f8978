----------------------------- MODULE UpdateHold -----------------------------
(***************************************************************************)
(* Self-update as a holder of the write lock (internal/update).  The lock  *)
(* is taken before the plan is written, kept while a plan is in progress,  *)
(* by the old version until the watchdog stops it and by the new one       *)
(* through its check, and freed by a watcher that reads the plan.          *)
(*                                                                         *)
(* The plan file and the watchdog that follows it are the agentkit's       *)
(* (PROTOCOL.md 2.6): the watchdog swaps the program, waits for the        *)
(* confirm, and puts the old one back without it.                          *)
(***************************************************************************)
EXTENDS ApplyLock, Integers

CONSTANT MaxUpdates    \* bound on the plans made

VARIABLES
  plan,                \* the plan on flash: its phase, from and to which version
  program,             \* the version of the program on flash
  service,             \* on: procd keeps the daemon running; stopped by the
                       \* watchdog; or removed
  proc,                \* the daemon: where it is, its version, and its
                       \* updater: none, or the boot guard it was built with
  install,             \* the goroutine of agent.update.install
  watcher,             \* releaseWhenDone: none, waits, or about to free
  minute               \* the daemon has waited for the probation for a minute

planVars == <<plan, program, service>>
holdVars == <<install, watcher, minute>>

ASSUME UpdatesAssumption == MaxUpdates \in Nat

Phase == {"none", "installing", "probation", "restoring", "over"}

Terminal(phase) == phase \notin {"installing", "probation", "restoring"}

InProgress == ~Terminal(plan.phase)

NoProc == [pc |-> "down", ver |-> 0, updater |-> "none"]

HasUpdater == proc.updater # "none"

At(pc) == proc.pc = pc
Goes(pc) == proc' = [proc EXCEPT !.pc = pc]

-----------------------------------------------------------------------------
(* The start: newUpdater and Startup, before the other writers' starts. *)

\* Startup reads the plan: nothing to hold when it is over, or not there.
StartupReads ==
  /\ At("updater")
  /\ IF HasUpdater /\ InProgress THEN Goes("hold") ELSE Goes("groups")
  /\ UNCHANGED <<lock, planVars, holdVars>>

\* It takes the lock, and keeps it.  Should it be held, it goes on without.
StartupHolds ==
  /\ At("hold")
  /\ IF lock = Free
     THEN TryAcquire("update") /\ watcher' = "waits"
     ELSE UNCHANGED <<lock, watcher>>
  /\ Goes("groups")
  /\ UNCHANGED <<planVars, install, minute>>

-----------------------------------------------------------------------------
(* WaitProbation, before the first dial. *)

IsCandidate == plan.phase = "installing" /\ plan.to = proc.ver

MinutePasses ==
  /\ At("wait") /\ ~minute /\ minute' = TRUE
  /\ UNCHANGED <<lock, planVars, proc, install, watcher>>

\* A variant with a defect, for the properties to catch.
WaitIsOverInProbation == ~IsCandidate

WaitIsOver == ~IsCandidate \/ minute

WaitEnds ==
  /\ At("wait")
  /\ HasUpdater => WaitIsOver
  /\ Goes("run") /\ minute' = FALSE
  /\ UNCHANGED <<lock, planVars, install, watcher>>

-----------------------------------------------------------------------------
(* agent.update.install. *)

\* Refused while anyone holds the lock.
InstallBegins ==
  /\ At("run") /\ HasUpdater
  /\ install = "none" /\ install' = "kit"
  /\ TryAcquire("update")
  /\ UNCHANGED <<planVars, proc, watcher, minute>>

\* A variant with a defect.
InstallFailsHolding ==
  /\ install = "kit" /\ install' = "none"
  /\ UNCHANGED <<lock, planVars, proc, watcher, minute>>

\* The kit refuses it: nothing is staged, or a plan is in progress.
InstallFails ==
  /\ install = "kit" /\ install' = "none"
  /\ Release("update")
  /\ UNCHANGED <<planVars, proc, watcher, minute>>

\* The kit writes the plan and starts the watchdog.
InstallPlans ==
  /\ install = "kit" /\ install' = "planned"
  /\ ~InProgress /\ plan.to < MaxUpdates
  /\ plan' = [phase |-> "installing", from |-> program, to |-> plan.to + 1]
  /\ UNCHANGED <<lock, program, service, proc, watcher, minute>>

\* keep: the watcher is told to free the lock.
InstallKeeps ==
  /\ install = "planned" /\ install' = "none"
  /\ watcher' = "waits"
  /\ UNCHANGED <<lock, planVars, proc, minute>>

\* A variant with a defect: a plan that waits for its confirm counts as over.
PlanIsOverOnceInstalled == plan.phase # "installing"

\* What the watcher waits for, every two seconds.
PlanIsOver == Terminal(plan.phase)

\* The watcher reads the plan, and then frees the hold.
WatcherReads ==
  /\ watcher = "waits" /\ PlanIsOver
  /\ watcher' = "frees"
  /\ UNCHANGED <<lock, planVars, proc, install, minute>>

WatcherFrees ==
  /\ watcher = "frees" /\ watcher' = "none"
  /\ Release("update")
  /\ UNCHANGED <<planVars, proc, install, minute>>

-----------------------------------------------------------------------------
(* The watchdog, and the controller's confirm. *)

Stopped == proc' = NoProc /\ lock' = Free /\ install' = "none"
           /\ watcher' = "none" /\ minute' = FALSE

\* It cannot even begin, and touches nothing.
WatchdogGivesUp ==
  /\ plan.phase = "installing" /\ program = plan.from
  /\ plan' = [plan EXCEPT !.phase = "over"]
  /\ UNCHANGED <<lock, program, service, proc, holdVars>>

WatchdogSwaps ==
  /\ plan.phase = "installing" /\ program = plan.from
  /\ program' = plan.to /\ service' = "stopped"
  /\ Stopped
  /\ UNCHANGED plan

WatchdogStarts ==
  /\ InProgress /\ service = "stopped" /\ service' = "on"
  /\ UNCHANGED <<lock, plan, program, proc, holdVars>>

WatchdogChecks ==
  /\ plan.phase = "installing" /\ program = plan.to /\ service = "on"
  /\ plan' = [plan EXCEPT !.phase = "probation"]
  /\ UNCHANGED <<lock, program, service, proc, holdVars>>

\* agent.update.confirm, in a session of the new version.
Confirmed ==
  /\ plan.phase = "probation" /\ At("run") /\ proc.ver = plan.to
  /\ plan' = [plan EXCEPT !.phase = "over"]
  /\ UNCHANGED <<lock, program, service, proc, holdVars>>

\* No confirm in time, a crash loop, or an abort.
WatchdogGoesBack ==
  /\ InProgress /\ plan.phase # "restoring" /\ program = plan.to
  /\ plan' = [plan EXCEPT !.phase = "restoring"]
  /\ program' = plan.from /\ service' = "stopped"
  /\ Stopped

WatchdogIsDone ==
  /\ plan.phase = "restoring" /\ service = "on"
  /\ plan' = [plan EXCEPT !.phase = "over"]
  /\ UNCHANGED <<lock, program, service, proc, holdVars>>

-----------------------------------------------------------------------------

UpdateInit ==
  /\ plan = [phase |-> "none", from |-> 0, to |-> 0]
  /\ program = 0 /\ service = "on"
  /\ proc = NoProc /\ install = "none" /\ watcher = "none" /\ minute = FALSE

UpdaterStep ==
  \/ StartupReads \/ StartupHolds \/ WaitEnds
  \/ InstallKeeps \/ WatcherReads \/ WatcherFrees

InstallStep == InstallFails \/ InstallPlans

WatchdogStep ==
  \/ WatchdogGivesUp \/ WatchdogSwaps \/ WatchdogStarts \/ WatchdogChecks
  \/ WatchdogGoesBack \/ WatchdogIsDone

UpdateTypeOK ==
  /\ LockTypeOK
  /\ plan \in [phase : Phase, from : 0..MaxUpdates, to : 0..MaxUpdates]
  /\ program \in 0..MaxUpdates /\ service \in {"on", "stopped", "removed"}
  /\ proc \in [pc : {"down", "updater", "hold", "groups", "plane", "wait", "run"},
               ver : 0..MaxUpdates, updater : {"none", "package", "self"}]
  /\ install \in {"none", "kit", "planned"}
  /\ watcher \in {"none", "waits", "frees"}
  /\ minute \in BOOLEAN
=============================================================================
