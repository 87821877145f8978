------------------------------- MODULE Writers -------------------------------
(***************************************************************************)
(* The three writers of the access point's configuration in one daemon     *)
(* (cmd/perch-apd/main.go): the self-update and the Wi-Fi config plane in  *)
(* detail, the device groups by their window (GroupsEngine has them).  The *)
(* lock is in memory: after a crash each takes it again, in the order in   *)
(* which runDaemon starts them.                                            *)
(***************************************************************************)
EXTENDS UpdateHold, PlaneService

CONSTANT MaxCrashes    \* bound on crashes and reboots

VARIABLES
  crashes, reboots,
  off                  \* history: a restart without the updater

vars == <<lock, planVars, proc, holdVars, planeVars, crashes, reboots, off>>
counters == <<crashes, reboots, off>>

-----------------------------------------------------------------------------
(* The start of the daemon. *)

\* The updater cannot be built when there is no HTTP client (a bad CA file).
Start ==
  /\ At("down") /\ service = "on"
  /\ \E u \in {"none", GuardContent(guard)} :
       /\ proc' = [pc |-> "updater", ver |-> program, updater |-> u]
       /\ off' = (off \/ u = "none")
  /\ UNCHANGED <<lock, planVars, holdVars, planeVars, crashes, reboots>>

\* A window found on flash takes the lock again, if it can.
Resumed(h) == lock' = IF h \in open /\ lock = Free THEN h ELSE lock

GroupsStart ==
  /\ At("groups") /\ Goes("plane")
  /\ Resumed("groups")
  /\ UNCHANGED <<planVars, holdVars, planeVars, counters>>

PlaneStart ==
  /\ At("plane") /\ Goes("wait")
  /\ GuardEnsured
  /\ Resumed("plane")
  /\ UNCHANGED <<planVars, holdVars, apply, open, touched, ledger, wanted,
                 loaded, tampered, counters>>

-----------------------------------------------------------------------------
(* The three of them. *)

\* A request dies with its process; a plan is made with the guard in place.
Update(A) ==
  /\ A
  /\ apply' = IF proc'.pc = "down" THEN NoApply ELSE apply
  /\ guard' = IF plan'.to # plan.to
              THEN [script |-> proc.updater, exec |-> TRUE, link |-> TRUE]
              ELSE guard
  /\ UNCHANGED <<open, touched, ledger, wanted, loaded, tampered, counters>>

Plane(A) == At("run") /\ A /\ UNCHANGED <<planVars, proc, holdVars, counters>>

\* A window may end as soon as its writer has started again.
Ends(A) == proc.pc \in {"plane", "wait", "run"} /\ A
           /\ UNCHANGED <<planVars, proc, holdVars, counters>>

-----------------------------------------------------------------------------
(* Deaths, and a person. *)

Crash ==
  /\ proc.pc # "down"
  /\ crashes < MaxCrashes /\ crashes' = crashes + 1
  /\ Stopped
  /\ apply' = NoApply
  /\ UNCHANGED <<planVars, guard, open, touched, ledger, wanted, loaded,
                 tampered, reboots, off>>

\* The guard's update step puts the old program back, then the plane's.
Reboot ==
  /\ crashes < MaxCrashes /\ crashes' = crashes + 1
  /\ reboots' = reboots + 1
  /\ Stopped
  /\ apply' = NoApply
  /\ Booted
  /\ service' = IF service = "removed" THEN service ELSE "on"
  /\ IF InProgress /\ RunsAtBoot(guard)
     THEN plan' = [plan EXCEPT !.phase = "over"] /\ program' = plan.from
     ELSE UNCHANGED <<plan, program>>
  /\ UNCHANGED <<guard, ledger, wanted, tampered, off>>

\* perch-apd uninstall, of a program that was not installed as a package.
Uninstall ==
  /\ service # "removed" /\ service' = "removed"
  /\ Stopped
  /\ apply' = NoApply
  /\ guard' = UninstallGuard(guard)
  /\ tampered' = (tampered \/ guard' # guard)
  /\ UNCHANGED <<plan, program, open, touched, ledger, wanted, loaded, counters>>

\* perch-apd install.
Install ==
  /\ service = "removed" /\ service' = "on"
  /\ guard' = InstallGuard(guard)
  /\ UNCHANGED <<lock, plan, program, proc, holdVars, apply, open, touched,
                 ledger, wanted, loaded, tampered, counters>>

-----------------------------------------------------------------------------

Init ==
  /\ lock = Free
  /\ UpdateInit /\ PlaneInit
  /\ crashes = 0 /\ reboots = 0 /\ off = FALSE

Next ==
  \/ Start \/ GroupsStart \/ PlaneStart
  \/ Update(UpdaterStep) \/ Update(InstallStep) \/ Update(InstallBegins)
  \/ Update(MinutePasses) \/ Update(WatchdogStep) \/ Update(Confirmed)
  \/ \E names \in SUBSET Name : Plane(ScreenApply(names))
  \/ Plane(ApplyRefused) \/ Plane(ApplyOpens)
  \/ \E names \in SUBSET GroupsName : Plane(GroupsOpen(names))
  \/ Ends(ApplyEnds) \/ \E kept \in BOOLEAN : Ends(GroupsEnd(kept))
  \/ GuardTampered /\ UNCHANGED <<planVars, proc, holdVars, counters>>
  \/ Crash \/ Reboot \/ Uninstall \/ Install

Spec == Init /\ [][Next]_vars

\* The goroutines of the daemon are scheduled, the kit's install returns, time
\* passes.  Nothing is assumed of the watchdog, the controller or a person.
Fairness ==
  /\ WF_vars(GroupsStart) /\ WF_vars(PlaneStart)
  /\ WF_vars(Update(UpdaterStep)) /\ WF_vars(Update(InstallStep))
  /\ WF_vars(Update(MinutePasses))

FairSpec == Spec /\ Fairness

-----------------------------------------------------------------------------
(* Properties. *)

TypeOK ==
  /\ UpdateTypeOK /\ PlaneTypeOK
  /\ crashes \in 0..MaxCrashes /\ reboots \in 0..MaxCrashes /\ off \in BOOLEAN

Windows == open \cup (IF InProgress THEN {"update"} ELSE {})

\* Two writers never have a change that waits for its confirm, and once the
\* daemon has started the lock is the one's who has, whatever died in between:
\* unless the daemon once started without its updater.
LockCoversWindows ==
  ~off =>
    /\ Cardinality(Windows) <= 1
    /\ proc.pc \in {"wait", "run"} => Windows \subseteq {lock}

\* While the update has the lock somebody is there to free it, and nobody frees
\* a lock that is not the update's: however an install ends, and whatever plan
\* the watcher reads.
HoldHasOwner == lock = "update" <=> install # "none" \/ watcher # "none"

\* A Wi-Fi change that was not confirmed never outlives a reboot, unless a
\* person took the guard away.
RebootUndoes ==
  [][reboots' # reboots /\ ~tampered => loaded' /\ "plane" \notin open']_vars

\* The plane never changes a section that the groups hold, although it looks
\* at what they hold before it has the lock.
KeepsOffGroups == "plane" \in open => touched \cap Owned = {}

\* The lock is freed after an update, and the first dial is not put off for
\* good, even when the watchdog is gone.
NobodyWaitsForever ==
  /\ lock = "update" /\ ~InProgress ~> lock # "update" \/ InProgress
  /\ At("wait") ~> ~At("wait")
=============================================================================
