---------------------------- MODULE WritersProofs ----------------------------
(***************************************************************************)
(* For any names, updates and crashes: who has the lock while the update   *)
(* has it, that the plane keeps off the groups' sections, that the guard   *)
(* is there for every window, and that the lock covers every window.       *)
(***************************************************************************)
EXTENDS Writers, FiniteSetTheorems, TLAPS

\* What the update's hold rests on: of the install and the watcher only one is
\* responsible for it.
HoldInv ==
  /\ lock = "update" <=> install # "none" \/ watcher # "none"
  /\ install = "none" \/ watcher = "none"

\* What the screen lets through stays off every name of the groups, which is
\* why it need not look again once the plane has the lock.
NamesInv ==
  /\ apply.names \cap GroupsName = {}
  /\ touched \cap GroupsName = {}
  /\ ledger \subseteq GroupsName /\ wanted \subseteq GroupsName

\* What the guard's presence at a reboot rests on: it was there when the apply
\* was screened, whoever changes it leaves one that runs, or is a person who
\* takes it away, and a plan, which writes it, has an updater that knows which.
GuardInv ==
  /\ guard \in Guard
  /\ plan \in [phase : Phase, from : Nat, to : Nat] /\ program \in Nat
  /\ proc \in [pc : {"down", "updater", "hold", "groups", "plane", "wait", "run"},
               ver : Nat, updater : {"none", "package", "self"}]
  /\ install # "none" => proc.pc # "down" /\ proc.updater # "none"
  /\ tampered \/ RunsAtBoot(guard) \/ ("plane" \notin open /\ apply.pc # "screened")

\* Every change of the lock that is not the update's.
OthersLock ==
  \/ UNCHANGED lock
  \/ lock = Free /\ lock' \in {"groups", "plane"}
  \/ lock \in {"groups", "plane"} /\ lock' = Free

USE DEF At, Goes

-----------------------------------------------------------------------------
(* The lock of the update. *)

LEMMA HoldAtOthers ==
  ASSUME HoldInv, OthersLock, UNCHANGED <<install, watcher>>, FreeAssumption
  PROVE  HoldInv'
BY DEF HoldInv, OthersLock, Holder

LEMMA HoldAtStop ==
  ASSUME Stopped, FreeAssumption
  PROVE  HoldInv'
BY DEF HoldInv, Stopped, Holder

\* Each step of the updater hands the hold from one to the other, or frees it.
LEMMA HoldAtUpdate ==
  ASSUME HoldInv, FreeAssumption,
         UpdaterStep \/ InstallStep \/ InstallBegins \/ MinutePasses
           \/ WatchdogStep \/ Confirmed
  PROVE  HoldInv'
<1>1. CASE StartupHolds
  BY <1>1 DEF HoldInv, StartupHolds, TryAcquire, Holder
<1>2. CASE InstallBegins
  BY <1>2 DEF HoldInv, InstallBegins, TryAcquire, Holder
<1>3. CASE InstallFails
  BY <1>3 DEF HoldInv, InstallFails, Release, Holder
<1>4. CASE InstallKeeps
  BY <1>4 DEF HoldInv, InstallKeeps
<1>5. CASE InstallPlans
  BY <1>5 DEF HoldInv, InstallPlans
<1>6. CASE WatcherReads
  BY <1>6 DEF HoldInv, WatcherReads
<1>7. CASE WatcherFrees
  BY <1>7 DEF HoldInv, WatcherFrees, Release, Holder
<1>8. CASE WatchdogSwaps \/ WatchdogGoesBack
  BY <1>8, HoldAtStop DEF WatchdogSwaps, WatchdogGoesBack
<1>9. CASE StartupReads \/ WaitEnds \/ MinutePasses \/ Confirmed
           \/ WatchdogGivesUp \/ WatchdogStarts \/ WatchdogChecks \/ WatchdogIsDone
  <2>1. UNCHANGED <<lock, install, watcher>>
    BY <1>9 DEF StartupReads, WaitEnds, MinutePasses, Confirmed, WatchdogGivesUp,
      WatchdogStarts, WatchdogChecks, WatchdogIsDone, holdVars
  <2>2. QED
    BY <2>1 DEF HoldInv
<1>10. QED
  BY <1>1, <1>2, <1>3, <1>4, <1>5, <1>6, <1>7, <1>8, <1>9
  DEF UpdaterStep, InstallStep, WatchdogStep

\* The groups and the plane take only a free lock, and free only their own.
LEMMA HoldAtPlane ==
  ASSUME HoldInv, FreeAssumption, UNCHANGED <<install, watcher>>,
         \/ \E names \in SUBSET Name : ScreenApply(names)
         \/ ApplyRefused \/ ApplyOpens \/ ApplyEnds \/ GuardTampered
         \/ \E names \in SUBSET GroupsName : GroupsOpen(names)
         \/ \E kept \in BOOLEAN : GroupsEnd(kept)
  PROVE  HoldInv'
<1>1. OthersLock
  BY DEF OthersLock, ScreenApply, ApplyRefused, ApplyOpens, ApplyEnds,
    GuardTampered, GroupsOpen, GroupsEnd, TryAcquire, Release
<1>2. QED
  BY <1>1, HoldAtOthers

LEMMA HoldAtStarts ==
  ASSUME HoldInv, FreeAssumption, GroupsStart \/ PlaneStart
  PROVE  HoldInv'
<1>1. OthersLock
  BY DEF OthersLock, GroupsStart, PlaneStart, Resumed
<1>2. UNCHANGED <<install, watcher>>
  BY DEF GroupsStart, PlaneStart, holdVars
<1>3. QED
  BY <1>1, <1>2, HoldAtOthers

LEMMA HoldIsInductive ==
  ASSUME HoldInv, [Next]_vars, FreeAssumption
  PROVE  HoldInv'
<1>1. CASE Start \/ Install \/ UNCHANGED vars
  BY <1>1 DEF Start, Install, vars, holdVars, HoldInv
<1>2. CASE GroupsStart \/ PlaneStart
  BY <1>2, HoldAtStarts
<1>3. CASE \/ Update(UpdaterStep) \/ Update(InstallStep) \/ Update(InstallBegins)
           \/ Update(MinutePasses) \/ Update(WatchdogStep) \/ Update(Confirmed)
  BY <1>3, HoldAtUpdate DEF Update
<1>4. CASE \/ \E names \in SUBSET Name : Plane(ScreenApply(names))
           \/ Plane(ApplyRefused) \/ Plane(ApplyOpens)
           \/ \E names \in SUBSET GroupsName : Plane(GroupsOpen(names))
  BY <1>4, HoldAtPlane DEF Plane, holdVars
<1>5. CASE \/ Ends(ApplyEnds) \/ \E kept \in BOOLEAN : Ends(GroupsEnd(kept))
           \/ GuardTampered /\ UNCHANGED <<planVars, proc, holdVars, counters>>
  BY <1>5, HoldAtPlane DEF Ends, holdVars
<1>6. CASE Crash \/ Reboot \/ Uninstall
  BY <1>6, HoldAtStop DEF Crash, Reboot, Uninstall
<1>7. QED
  BY <1>1, <1>2, <1>3, <1>4, <1>5, <1>6 DEF Next

\* While the update has the lock somebody is there to free it, and nobody frees
\* another's (update.go keep, releaseWhenDone): for any number of updates,
\* crashes and reboots.
THEOREM UpdateHoldsItsLock == Spec => []HoldHasOwner
<1>1. Init => HoldInv
  BY FreeAssumption DEF Init, UpdateInit, HoldInv, Holder
<1>2. HoldInv /\ [Next]_vars => HoldInv'
  BY HoldIsInductive, FreeAssumption
<1>3. HoldInv => HoldHasOwner
  BY DEF HoldInv, HoldHasOwner
<1>4. QED
  BY <1>1, <1>2, <1>3, PTL DEF Spec

-----------------------------------------------------------------------------
(* The screen. *)

LEMMA NamesAreInductive ==
  ASSUME NamesInv, [Next]_vars
  PROVE  NamesInv'
<1>1. CASE UNCHANGED <<apply, touched, ledger, wanted>>
  BY <1>1 DEF NamesInv
<1>2. CASE Start \/ GroupsStart \/ PlaneStart \/ Install \/ UNCHANGED vars
  BY <1>1, <1>2 DEF Start, GroupsStart, PlaneStart, Install, vars, planeVars
<1>3. CASE \/ Update(UpdaterStep) \/ Update(InstallStep) \/ Update(InstallBegins)
           \/ Update(MinutePasses) \/ Update(WatchdogStep) \/ Update(Confirmed)
  BY <1>3 DEF Update, NamesInv, NoApply
<1>4. CASE \E names \in SUBSET Name : Plane(ScreenApply(names))
  <2>1. PICK names \in SUBSET Name : ScreenApply(names)
    BY <1>4 DEF Plane
  <2>2. names \cap GroupsName = {}
    BY <2>1 DEF ScreenApply, ScreenPasses, GroupsNameOf
  <2>3. apply'.names = names
    BY <2>1 DEF ScreenApply
  <2>4. QED
    BY <2>1, <2>2, <2>3 DEF NamesInv, ScreenApply
<1>5. CASE Plane(ApplyRefused)
  BY <1>5 DEF Plane, ApplyRefused, NamesInv, NoApply
<1>6. CASE Plane(ApplyOpens)
  BY <1>6 DEF Plane, ApplyOpens, NamesInv, NoApply
<1>7. CASE Ends(ApplyEnds)
  BY <1>7 DEF Ends, ApplyEnds, NamesInv
<1>8. CASE \E names \in SUBSET GroupsName : Plane(GroupsOpen(names))
  BY <1>8 DEF Plane, GroupsOpen, NamesInv
<1>9. CASE \E kept \in BOOLEAN : Ends(GroupsEnd(kept))
  BY <1>9 DEF Ends, GroupsEnd, NamesInv
<1>10. CASE GuardTampered /\ UNCHANGED <<planVars, proc, holdVars, counters>>
  BY <1>1, <1>10 DEF GuardTampered
<1>11. CASE Crash \/ Uninstall
  BY <1>11 DEF Crash, Uninstall, NamesInv, NoApply
<1>12. CASE Reboot
  BY <1>12 DEF Reboot, Booted, NamesInv, NoApply
<1>13. QED
  BY <1>2, <1>3, <1>4, <1>5, <1>6, <1>7, <1>8, <1>9, <1>10, <1>11, <1>12 DEF Next

\* The plane never changes a section that the groups hold (screen.go): for any
\* names, although the screen looks before the plane has the lock.
THEOREM PlaneKeepsOff == Spec => []KeepsOffGroups
<1>1. Init => NamesInv
  BY DEF Init, PlaneInit, NoApply, NamesInv
<1>2. NamesInv /\ [Next]_vars => NamesInv'
  BY NamesAreInductive
<1>3. NamesInv => KeepsOffGroups
  BY DEF NamesInv, KeepsOffGroups, Owned
<1>4. QED
  BY <1>1, <1>2, <1>3, PTL DEF Spec
-----------------------------------------------------------------------------
(* The boot guard. *)

\* A step that leaves the guard running, or as it was, and opens nothing new.
GuardStep ==
  /\ guard' \in Guard
  /\ RunsAtBoot(guard) => RunsAtBoot(guard')
  /\ "plane" \in open' \/ apply'.pc = "screened"
       => "plane" \in open \/ apply.pc = "screened" \/ RunsAtBoot(guard')
  /\ tampered => tampered'

LEMMA GuardAtSteps ==
  ASSUME GuardInv, GuardStep, UNCHANGED <<plan, program, proc, install>>
  PROVE  GuardInv'
BY DEF GuardInv, GuardStep

LEMMA GuardAtUpdate ==
  ASSUME GuardInv,
         \/ Update(UpdaterStep) \/ Update(InstallStep) \/ Update(InstallBegins)
         \/ Update(MinutePasses) \/ Update(WatchdogStep) \/ Update(Confirmed)
  PROVE  GuardInv'
<1> DEFINE Types(p, q, r, i) ==
      /\ p \in [phase : Phase, from : Nat, to : Nat] /\ q \in Nat
      /\ r \in [pc : {"down", "updater", "hold", "groups", "plane", "wait", "run"},
                 ver : Nat, updater : {"none", "package", "self"}]
      /\ i # "none" => r.pc # "down" /\ r.updater # "none"
<1>1. /\ Types(plan', program', proc', install')
      /\ plan'.to # plan.to => proc.updater \in {"package", "self"}
  <2>1. CASE \/ Update(InstallStep) \/ Update(InstallBegins)
             \/ Update(MinutePasses) \/ Update(Confirmed)
    <3>1. CASE Update(InstallPlans)
      BY <3>1 DEF Update, InstallPlans, GuardInv, Phase
    <3>2. CASE Update(InstallFails) \/ Update(InstallBegins) \/ Update(MinutePasses)
      BY <3>2 DEF Update, InstallFails, InstallBegins, HasUpdater, MinutePasses,
        planVars, GuardInv
    <3>3. CASE Update(Confirmed)
      BY <3>3 DEF Update, Confirmed, holdVars, Phase, GuardInv
    <3>4. QED
      BY <2>1, <3>1, <3>2, <3>3 DEF InstallStep, Update
  <2>2. CASE Update(UpdaterStep)
    <3>1. CASE StartupReads \/ StartupHolds \/ WaitEnds
      BY <3>1 DEF StartupReads, StartupHolds, WaitEnds, planVars, holdVars, GuardInv
    <3>2. CASE InstallKeeps \/ WatcherReads \/ WatcherFrees
      BY <3>2 DEF InstallKeeps, WatcherReads, WatcherFrees, planVars, GuardInv
    <3>3. QED
      BY <2>2, <3>1, <3>2 DEF UpdaterStep, Update
  <2>3. CASE Update(WatchdogStep)
    <3>1. CASE WatchdogSwaps
      BY <3>1 DEF WatchdogSwaps, Stopped, NoProc, GuardInv
    <3>2. CASE WatchdogGoesBack
      BY <3>2 DEF WatchdogGoesBack, Stopped, NoProc, Phase, GuardInv
    <3>3. CASE WatchdogGivesUp \/ WatchdogStarts \/ WatchdogChecks \/ WatchdogIsDone
      BY <3>3 DEF WatchdogGivesUp, WatchdogStarts, WatchdogChecks, WatchdogIsDone,
        holdVars, Phase, GuardInv
    <3>4. QED
      BY <2>3, <3>1, <3>2, <3>3 DEF WatchdogStep, Update
  <2>4. QED
    BY <2>1, <2>2, <2>3
<1>2. guard' = (IF plan'.to # plan.to
                THEN [script |-> proc.updater, exec |-> TRUE, link |-> TRUE]
                ELSE guard)
      /\ UNCHANGED <<open, tampered>> /\ apply' \in {NoApply, apply}
  BY DEF Update
<1>3. guard' \in Guard /\ (RunsAtBoot(guard) => RunsAtBoot(guard'))
  BY <1>1, <1>2 DEF GuardInv, Guard, Script, RunsAtBoot
<1>4. tampered' \/ RunsAtBoot(guard')
        \/ ("plane" \notin open' /\ apply'.pc # "screened")
  BY <1>2, <1>3 DEF GuardInv, NoApply
<1>5. QED
  BY <1>1, <1>3, <1>4 DEF GuardInv

LEMMA GuardAtPlane ==
  ASSUME GuardInv, UNCHANGED <<planVars, proc, install>>,
         \/ \E names \in SUBSET Name : ScreenApply(names)
         \/ ApplyRefused \/ ApplyOpens \/ ApplyEnds \/ GuardTampered
         \/ \E names \in SUBSET GroupsName : GroupsOpen(names)
         \/ \E kept \in BOOLEAN : GroupsEnd(kept)
  PROVE  GuardInv'
<1>1. CASE GuardTampered
  BY <1>1 DEF GuardTampered, GuardInv, Guard, planVars
<1>2. CASE ~GuardTampered
  <2>1. GuardStep
    <3>1. CASE \E names \in SUBSET Name : ScreenApply(names)
      BY <3>1 DEF ScreenApply, ScreenPasses, GuardMissing, GuardStep, GuardInv,
        RunsAtBoot
    <3>2. CASE ApplyRefused \/ ApplyOpens \/ ApplyEnds
      BY <3>2 DEF ApplyRefused, ApplyOpens, ApplyEnds, NoApply, GuardStep, GuardInv
    <3>3. CASE \/ \E names \in SUBSET GroupsName : GroupsOpen(names)
               \/ \E kept \in BOOLEAN : GroupsEnd(kept)
      BY <3>3 DEF GroupsOpen, GroupsEnd, GuardStep, GuardInv
    <3>4. QED
      BY <1>2, <3>1, <3>2, <3>3
  <2>2. QED
    BY <2>1, GuardAtSteps DEF planVars
<1>3. QED
  BY <1>1, <1>2

\* A reboot, a death and an uninstall: no request is left of either.
LEMMA GuardAtStop ==
  ASSUME GuardInv, Crash \/ Reboot \/ Uninstall
  PROVE  GuardInv'
<1>1. /\ proc' = NoProc /\ install' = "none" /\ apply'.pc = "none"
  BY DEF Crash, Reboot, Uninstall, Stopped, NoApply
<1>2. plan' \in [phase : Phase, from : Nat, to : Nat] /\ program' \in Nat
  BY DEF Crash, Reboot, Uninstall, planVars, GuardInv, Phase
<1>3. /\ guard' \in Guard
      /\ tampered' \/ RunsAtBoot(guard') \/ "plane" \notin open'
  <2>1. CASE Crash
    BY <2>1 DEF Crash, GuardInv
  <2>2. CASE Reboot
    BY <2>2 DEF Reboot, Booted, GuardInv
  <2>3. CASE Uninstall
    <3>1. guard' \in Guard
      BY <2>3 DEF Uninstall, UninstallGuard, GuardInv, Guard, Script
    <3>2. CASE guard' = guard
      BY <2>3, <3>2 DEF Uninstall, GuardInv
    <3>3. CASE guard' # guard
      BY <2>3, <3>1, <3>3 DEF Uninstall
    <3>4. QED
      BY <3>1, <3>2, <3>3
  <2>4. QED
    BY <2>1, <2>2, <2>3
<1>4. QED
  BY <1>1, <1>2, <1>3 DEF GuardInv, NoProc

LEMMA GuardAtStarts ==
  ASSUME GuardInv, Start \/ GroupsStart \/ PlaneStart \/ Install
  PROVE  GuardInv'
<1>1. /\ plan' = plan /\ program' = program /\ install' = install
      /\ UNCHANGED <<apply, open, tampered>>
  BY DEF Start, GroupsStart, PlaneStart, Install, planVars, holdVars, planeVars
<1>2. guard' \in Guard /\ (RunsAtBoot(guard) => RunsAtBoot(guard'))
  <2>1. CASE Start \/ GroupsStart
    BY <2>1 DEF Start, GroupsStart, planeVars, GuardInv
  <2>2. CASE PlaneStart
    <3> DEFINE ensured == EnsureGuard(guard)
    <3>1. guard \in Guard
      BY DEF GuardInv
    <3>2. /\ ensured \in Guard
          /\ ensured.script # "none" /\ ensured.exec /\ ensured.link
      BY <3>1 DEF EnsureGuard, Guard, Script
    <3>3. guard' = guard \/ guard' = ensured
            \/ guard' = [ensured EXCEPT !.link = guard.link]
      BY <2>2 DEF PlaneStart, GuardEnsured
    <3> HIDE DEF ensured
    <3>4. CASE guard' = guard \/ guard' = ensured
      BY <3>1, <3>2, <3>4 DEF RunsAtBoot
    <3>5. CASE guard' = [ensured EXCEPT !.link = guard.link]
      <4>1. /\ guard' \in Guard /\ guard'.script = ensured.script
            /\ guard'.exec = ensured.exec /\ guard'.link = guard.link
        BY <3>1, <3>2, <3>5 DEF Guard
      <4>2. QED
        BY <3>2, <4>1 DEF RunsAtBoot
    <3>6. QED
      BY <3>3, <3>4, <3>5
  <2>3. CASE Install
    BY <2>3 DEF Install, InstallGuard, RunsAtBoot, GuardInv, Guard, Script
  <2>4. QED
    BY <2>1, <2>2, <2>3
<1>3. /\ proc' \in [pc : {"down", "updater", "hold", "groups", "plane", "wait", "run"},
                    ver : Nat, updater : {"none", "package", "self"}]
      /\ install' # "none" => proc'.pc # "down" /\ proc'.updater # "none"
  <2>1. CASE Start
    BY <1>1, <2>1 DEF Start, GuardContent, GuardInv
  <2>2. CASE GroupsStart \/ PlaneStart \/ Install
    BY <1>1, <2>2 DEF GroupsStart, PlaneStart, Install, GuardInv
  <2>3. QED
    BY <2>1, <2>2
<1>4. QED
  BY <1>1, <1>2, <1>3 DEF GuardInv

LEMMA GuardIsInductive ==
  ASSUME GuardInv, [Next]_vars
  PROVE  GuardInv'
<1>1. CASE UNCHANGED vars
  BY <1>1 DEF vars, planVars, holdVars, planeVars, GuardInv
<1>2. CASE Start \/ GroupsStart \/ PlaneStart \/ Install
  BY <1>2, GuardAtStarts
<1>3. CASE \/ Update(UpdaterStep) \/ Update(InstallStep) \/ Update(InstallBegins)
           \/ Update(MinutePasses) \/ Update(WatchdogStep) \/ Update(Confirmed)
  BY <1>3, GuardAtUpdate
<1>4. CASE \/ \E names \in SUBSET Name : Plane(ScreenApply(names))
           \/ Plane(ApplyRefused) \/ Plane(ApplyOpens)
           \/ \E names \in SUBSET GroupsName : Plane(GroupsOpen(names))
  BY <1>4, GuardAtPlane DEF Plane, holdVars
<1>5. CASE \/ Ends(ApplyEnds) \/ \E kept \in BOOLEAN : Ends(GroupsEnd(kept))
           \/ GuardTampered /\ UNCHANGED <<planVars, proc, holdVars, counters>>
  BY <1>5, GuardAtPlane DEF Ends, holdVars
<1>6. CASE Crash \/ Reboot \/ Uninstall
  BY <1>6, GuardAtStop
<1>7. QED
  BY <1>1, <1>2, <1>3, <1>4, <1>5, <1>6 DEF Next

\* A Wi-Fi change that was not confirmed never outlives a reboot (screen.go,
\* guard.go): for any history of updates, uninstalls and crashes, as long as
\* no person took the guard away.
THEOREM RebootUndoesTheChange == Spec => RebootUndoes
<1>1. Init => GuardInv
  BY DEF Init, UpdateInit, PlaneInit, NoApply, NoProc, Phase, GuardInv
<1>2. GuardInv /\ [Next]_vars => GuardInv'
  BY GuardIsInductive
<1>3. GuardInv /\ [Next]_vars
        => [reboots' # reboots /\ ~tampered => loaded' /\ "plane" \notin open']_vars
  <2> SUFFICES ASSUME GuardInv, Next, reboots' # reboots, ~tampered
               PROVE  loaded' /\ "plane" \notin open'
    BY DEF vars
  <2>1. Reboot
    BY DEF Next, Start, GroupsStart, PlaneStart, Update, Plane, Ends, Install,
      Crash, Uninstall, counters
  <2>2. "plane" \notin open'
    BY <2>1 DEF Reboot, Booted, GuardInv
  <2>3. QED
    BY <2>1, <2>2 DEF Reboot, Booted
<1>4. QED
  BY <1>1, <1>2, <1>3, PTL DEF Spec, RebootUndoes
-----------------------------------------------------------------------------
(* The windows of the three. *)

\* Nobody opens a window without the lock, and who has it, but the update,
\* has one; the update has it in an install before there is a plan, and after
\* the plan is over.
Apart ==
  /\ \A v, w \in Windows : v = w
  /\ lock = "update" => open = {}
  /\ lock \in {"groups", "plane"} => lock \in open
  /\ install = "kit" \/ watcher = "frees" => ~InProgress

\* After a death each takes the lock again, in the order of the starts: the
\* update when it finds its plan, which only ends meanwhile, then the others.
Regained ==
  /\ proc.pc \in {"down", "updater", "hold"} => lock = Free
  /\ proc.pc = "hold" => open = {}
  /\ proc.pc = "groups" => lock \in {Free, "update"}
  /\ proc.pc = "plane" => lock # "plane"
  /\ proc.pc \in {"groups", "plane", "wait", "run"} /\ InProgress => lock = "update"
  /\ proc.pc \in {"plane", "wait", "run"} /\ "groups" \in open => lock = "groups"
  /\ proc.pc \in {"wait", "run"} /\ "plane" \in open => lock = "plane"

\* What covers the windows, as long as every daemon had its updater.
Covered ==
  /\ LockTypeOK
  /\ open \subseteq {"groups", "plane"}
  /\ proc.pc # "down" => proc.updater # "none"
  /\ Apart
  /\ Regained

WindowInv == ~off => Covered

LEMMA WindowsAre ==
  ASSUME NEW w
  PROVE  w \in Windows <=> w \in open \/ (w = "update" /\ InProgress)
BY DEF Windows

LEMMA WindowsNext ==
  ASSUME NEW w
  PROVE  w \in Windows' <=> w \in open' \/ (w = "update" /\ InProgress')
BY DEF Windows

\* The steps, by what they do to the lock and the windows.
Stops ==
  /\ proc' = NoProc /\ lock' = Free /\ install' = "none" /\ watcher' = "none"
  /\ open' \subseteq open /\ (InProgress' => InProgress)

Waits ==
  /\ UNCHANGED <<lock, open, proc>> /\ (InProgress' => InProgress)
  /\ \/ UNCHANGED <<install, watcher>>
     \/ install' = "none" /\ watcher' = "waits"
     \/ UNCHANGED install /\ watcher' = "frees" /\ ~InProgress

Begins ==
  /\ UNCHANGED <<lock, open, install, watcher, plan>>
  /\ proc.pc = "down" /\ proc'.pc = "updater" /\ proc'.updater # "none"

Moves ==
  /\ UNCHANGED <<lock, open, install, watcher, plan>>
  /\ proc'.updater = proc.updater
  /\ \/ proc.pc = "updater" /\ proc'.pc = "hold" /\ InProgress
     \/ proc.pc = "updater" /\ proc'.pc = "groups" /\ ~(HasUpdater /\ InProgress)
     \/ proc.pc = "wait" /\ proc'.pc = "run"

Holds ==
  /\ UNCHANGED <<open, install, plan>>
  /\ proc'.updater = proc.updater
  /\ proc.pc = "hold" /\ proc'.pc = "groups"
  /\ lock = Free => lock' = "update" /\ watcher' = "waits"

Resumes ==
  /\ UNCHANGED <<open, install, watcher, plan>>
  /\ proc'.updater = proc.updater
  /\ \/ proc.pc = "groups" /\ proc'.pc = "plane" /\ Resumed("groups")
     \/ proc.pc = "plane" /\ proc'.pc = "wait" /\ Resumed("plane")

Takes ==
  /\ proc.pc = "run" /\ UNCHANGED <<proc, plan, watcher>>
  /\ lock = Free
  /\ \/ lock' = "update" /\ UNCHANGED open
     \/ \E w \in {"groups", "plane"} :
          lock' = w /\ open' = open \cup {w} /\ UNCHANGED install

Frees ==
  /\ UNCHANGED <<proc, plan>>
  /\ \/ /\ install = "kit" \/ watcher = "frees"
        /\ install' # "kit" /\ watcher' # "frees"
        /\ Release("update") /\ UNCHANGED open
     \/ \E w \in {"groups", "plane"} :
          /\ lock = w /\ Release(w) /\ open' = open \ {w}
          /\ UNCHANGED <<install, watcher>>

LEMMA CoveredAtStops ==
  ASSUME Covered, Stops
  PROVE  Covered'
<1>0. LockTypeOK'
  BY DEF Covered, LockTypeOK, Holder, Stops
<1>1. Apart'
  <2>1. \A v, w \in Windows' : v = w
    BY WindowsAre, WindowsNext DEF Covered, Apart, Stops
  <2>2. QED
    BY <2>1, FreeAssumption DEF Stops, Apart, Holder
<1>2. QED
  BY <1>0, <1>1 DEF Covered, Stops, Regained, NoProc

LEMMA CoveredAtWaits ==
  ASSUME Covered, Waits
  PROVE  Covered'
<1>0. LockTypeOK'
  BY DEF Covered, LockTypeOK, Holder, Waits
<1>1. \A v, w \in Windows' : v = w
  BY WindowsAre, WindowsNext DEF Covered, Apart, Waits
<1>2. Apart'
  BY <1>1 DEF Covered, Waits, Apart
<1>3. Regained'
  BY DEF Covered, Waits, Regained
<1>4. QED
  BY <1>0, <1>2, <1>3 DEF Covered, Waits

LEMMA CoveredAtMoves ==
  ASSUME Covered, Begins \/ Moves
  PROVE  Covered'
<1>0. LockTypeOK'
  BY DEF Covered, LockTypeOK, Holder, Begins, Moves
<1>1. InProgress' <=> InProgress
  BY DEF Begins, Moves, InProgress
<1>2. \A v, w \in Windows' : v = w
  BY <1>1, WindowsAre, WindowsNext DEF Covered, Apart, Begins, Moves
<1>3. Apart'
  BY <1>1, <1>2 DEF Covered, Begins, Moves, Apart
<1>4. CASE Begins
  BY <1>0, <1>3, <1>4 DEF Covered, Begins, Regained
<1>5. CASE Moves /\ proc'.pc = "hold"
  <2>1. "update" \in Windows
    BY <1>5, WindowsAre DEF Moves
  <2>2. \A w \in open : w = "update"
    BY <2>1, WindowsAre DEF Covered, Apart
  <2>3. open = {}
    BY <2>2 DEF Covered
  <2>4. QED
    BY <1>0, <1>3, <1>5, <2>3 DEF Covered, Moves, Regained
<1>6. CASE Moves /\ proc'.pc # "hold"
  BY <1>0, <1>1, <1>3, <1>6 DEF Covered, Moves, Regained, HasUpdater
<1>7. QED
  BY <1>4, <1>5, <1>6

LEMMA CoveredAtHolds ==
  ASSUME Covered, HoldInv, Holds
  PROVE  Covered'
<1>0. LockTypeOK'
  BY DEF Covered, Regained, LockTypeOK, Holder, Holds
<1>1. InProgress' <=> InProgress
  BY DEF Holds, InProgress
<1>2. lock = Free /\ open = {} /\ open' = {} /\ lock' = "update"
  BY DEF Covered, Regained, Holds
<1>3. \A v, w \in Windows' : v = w
  BY <1>2, WindowsNext
<1>4. install' = "none" /\ watcher' = "waits"
  BY <1>2, FreeAssumption DEF HoldInv, Holds, Holder
<1>5. QED
  BY <1>0, <1>2, <1>3, <1>4 DEF Covered, Holds, Apart, Regained

LEMMA CoveredAtResumes ==
  ASSUME Covered, HoldInv, Resumes
  PROVE  Covered'
<1>0. LockTypeOK'
  BY DEF Covered, LockTypeOK, Holder, Resumes, Resumed
<1>1. InProgress' <=> InProgress
  BY DEF Resumes, InProgress
<1>2. \A v, w \in Windows : v = w
  BY DEF Covered, Apart
<1>3. \A v, w \in Windows' : v = w
  BY <1>1, <1>2, WindowsAre, WindowsNext DEF Resumes
<1>4. ASSUME NEW h \in {"groups", "plane"}, h \in open
      PROVE  ~InProgress /\ (\A w \in open : w = h) /\ (lock = Free \/ lock = h)
  <2>1. ~InProgress /\ (\A w \in open : w = h)
    BY <1>2, <1>4, WindowsAre
  <2>2. lock # "update"
    BY <1>4 DEF Covered, Apart
  <2>3. lock = Free \/ lock = h
    BY <2>1, <2>2, <1>4 DEF Covered, LockTypeOK, Holder, Apart
  <2>4. QED
    BY <2>1, <2>3
<1>5. CASE proc.pc = "groups"
  <2>1. lock' = (IF "groups" \in open /\ lock = Free THEN "groups" ELSE lock)
    BY <1>5 DEF Resumes, Resumed
  <2>2. lock' = "update" => lock = "update"
    BY <2>1
  <2>3. Apart'
    BY <1>1, <1>3, <2>1, <2>2 DEF Covered, Apart, Resumes
  <2>4. "groups" \in open => lock' = "groups" /\ ~InProgress
    BY <1>4, <2>1
  <2>5. Regained'
    BY <1>1, <1>5, <2>1, <2>4, FreeAssumption DEF Covered, Regained, Resumes, Holder
  <2>6. QED
    BY <1>0, <1>5, <2>3, <2>5 DEF Covered, Resumes
<1>6. CASE proc.pc = "plane"
  <2>1. lock' = (IF "plane" \in open /\ lock = Free THEN "plane" ELSE lock)
    BY <1>6 DEF Resumes, Resumed
  <2>2. lock' = "update" => lock = "update"
    BY <2>1
  <2>3. Apart'
    BY <1>1, <1>3, <2>1, <2>2 DEF Covered, Apart, Resumes
  <2>4. "plane" \in open => lock' = "plane" /\ ~InProgress /\ "groups" \notin open
    BY <1>4, <2>1
  <2>5. Regained'
    BY <1>1, <1>6, <2>1, <2>4, FreeAssumption DEF Covered, Regained, Resumes, Holder
  <2>6. QED
    BY <1>0, <1>6, <2>3, <2>5 DEF Covered, Resumes
<1>7. QED
  BY <1>5, <1>6 DEF Resumes

LEMMA CoveredAtTakes ==
  ASSUME Covered, HoldInv, Takes
  PROVE  Covered'
<1>0. LockTypeOK'
  BY DEF Covered, LockTypeOK, Holder, Takes
<1>1. InProgress' <=> InProgress
  BY DEF Takes, InProgress
<1>2. open = {} /\ ~InProgress
  BY FreeAssumption DEF Covered, Regained, Takes, Holder
<1>3. watcher' = "none"
  BY FreeAssumption DEF HoldInv, Takes, Holder
<1>4. CASE lock' = "update" /\ UNCHANGED open
  <2>1. \A v, w \in Windows' : v = w
    BY <1>2, <1>4, WindowsNext
  <2>2. QED
    BY <1>0, <1>1, <1>2, <1>3, <1>4, <2>1 DEF Covered, Apart, Regained, Takes
<1>5. CASE \E w \in {"groups", "plane"} :
             lock' = w /\ open' = open \cup {w} /\ UNCHANGED install
  <2>1. PICK h \in {"groups", "plane"} : lock' = h /\ open' = open \cup {h}
    BY <1>5
  <2>2. open' = {h}
    BY <1>2, <2>1
  <2>3. \A v, w \in Windows' : v = w
    BY <1>1, <1>2, <2>2, WindowsNext
  <2>4. QED
    BY <1>0, <1>1, <1>2, <2>1, <2>2, <2>3 DEF Covered, Apart, Regained, Takes
<1>6. QED
  BY <1>4, <1>5 DEF Takes

LEMMA CoveredAtFrees ==
  ASSUME Covered, HoldInv, Frees
  PROVE  Covered'
<1>0. LockTypeOK'
  BY DEF Covered, LockTypeOK, Holder, Frees, Release
<1>1. InProgress' <=> InProgress
  BY DEF Frees, InProgress
<1>2. lock' = Free /\ open' = {} /\ ~InProgress
  <2>1. CASE (install = "kit" \/ watcher = "frees") /\ Release("update") /\ UNCHANGED open
    BY <2>1 DEF HoldInv, Covered, Apart, Release
  <2>2. CASE \E w \in {"groups", "plane"} :
               lock = w /\ Release(w) /\ open' = open \ {w}
    <3>1. PICK h \in {"groups", "plane"} :
            lock = h /\ Release(h) /\ open' = open \ {h}
      BY <2>2
    <3>2. h \in open
      BY <3>1 DEF Covered, Apart
    <3>3. ~InProgress /\ (\A w \in open : w = h)
      BY <3>1, <3>2, WindowsAre DEF Covered, Apart
    <3>4. QED
      BY <3>1, <3>3 DEF Release
  <2>3. QED
    BY <2>1, <2>2 DEF Frees
<1>3. \A v, w \in Windows' : v = w
  BY <1>2, WindowsNext
<1>4. Apart'
  BY <1>1, <1>2, <1>3, FreeAssumption DEF Apart, Holder
<1>5. QED
  BY <1>0, <1>1, <1>2, <1>4, FreeAssumption DEF Covered, Holder, Regained, Frees

LEMMA CoveredAtPlans ==
  ASSUME Covered, HoldInv, InstallPlans, UNCHANGED open
  PROVE  Covered'
<1>0. LockTypeOK'
  BY DEF Covered, LockTypeOK, Holder, InstallPlans
<1>1. lock = "update" /\ lock' = "update" /\ open' = {} /\ UNCHANGED proc
  BY DEF HoldInv, InstallPlans, Covered, Apart
<1>2. install' = "planned" /\ watcher' = "none"
  BY DEF HoldInv, InstallPlans
<1>3. \A v, w \in Windows' : v = w
  BY <1>1, WindowsNext
<1>4. Apart'
  BY <1>1, <1>2, <1>3 DEF Apart
<1>5. Regained'
  BY <1>1 DEF Covered, Regained
<1>6. QED
  BY <1>0, <1>1, <1>4, <1>5 DEF Covered
\* Which step is which, of the updater and of its watchdog.
LEMMA UpdateSteps ==
  ASSUME HoldInv, GuardInv, Covered,
         \/ Update(UpdaterStep) \/ Update(InstallStep) \/ Update(InstallBegins)
         \/ Update(MinutePasses) \/ Update(WatchdogStep) \/ Update(Confirmed)
  PROVE  Stops \/ Waits \/ Moves \/ Holds \/ Takes \/ Frees
           \/ (InstallPlans /\ UNCHANGED open)
<1>1. UNCHANGED open
  BY DEF Update
<1>2. /\ proc \in [pc : {"down", "updater", "hold", "groups", "plane", "wait", "run"},
                   ver : Nat, updater : {"none", "package", "self"}]
      /\ plan \in [phase : Phase, from : Nat, to : Nat]
  BY DEF GuardInv
<1>3. CASE \/ Update(InstallStep) \/ Update(InstallBegins)
           \/ Update(MinutePasses) \/ Update(Confirmed)
  <2>1. CASE InstallPlans
    BY <1>1, <2>1
  <2>2. CASE InstallFails
    BY <1>1, <2>2 DEF InstallFails, Frees, planVars, HoldInv
  <2>3. CASE InstallBegins
    BY <1>1, <2>3 DEF InstallBegins, TryAcquire, planVars, Takes
  <2>4. CASE MinutePasses
    BY <1>1, <2>4 DEF MinutePasses, planVars, Waits, InProgress
  <2>5. CASE Confirmed
    BY <1>1, <1>2, <2>5 DEF Confirmed, holdVars, Waits, InProgress, Terminal
  <2>6. QED
    BY <1>3, <2>1, <2>2, <2>3, <2>4, <2>5 DEF Update, InstallStep
<1>4. CASE Update(UpdaterStep)
  <2>1. CASE StartupReads
    BY <1>1, <1>2, <2>1 DEF StartupReads, planVars, holdVars, Moves
  <2>2. CASE StartupHolds
    BY <1>1, <1>2, <2>2 DEF StartupHolds, TryAcquire, planVars, Holds
  <2>3. CASE WaitEnds
    BY <1>1, <1>2, <2>3 DEF WaitEnds, planVars, Moves
  <2>4. CASE InstallKeeps
    BY <1>1, <2>4 DEF InstallKeeps, planVars, Waits, InProgress
  <2>5. CASE WatcherReads
    BY <1>1, <2>5 DEF WatcherReads, PlanIsOver, planVars, Waits, InProgress
  <2>6. CASE WatcherFrees
    BY <1>1, <2>6 DEF WatcherFrees, planVars, Frees, HoldInv
  <2>7. QED
    BY <1>4, <2>1, <2>2, <2>3, <2>4, <2>5, <2>6 DEF Update, UpdaterStep
<1>5. CASE Update(WatchdogStep)
  <2>1. CASE WatchdogSwaps \/ WatchdogGoesBack
    BY <1>1, <2>1 DEF WatchdogSwaps, WatchdogGoesBack, Stopped, Stops, InProgress
  <2>2. CASE WatchdogGivesUp \/ WatchdogChecks \/ WatchdogIsDone
    <3>1. UNCHANGED <<lock, proc, install, watcher>> /\ InProgress
      BY <2>2 DEF WatchdogGivesUp, WatchdogChecks, WatchdogIsDone, holdVars,
        InProgress, Terminal
    <3>2. QED
      BY <1>1, <3>1 DEF Waits
  <2>3. CASE WatchdogStarts
    BY <1>1, <2>3 DEF WatchdogStarts, holdVars, Waits, InProgress
  <2>4. QED
    BY <1>5, <2>1, <2>2, <2>3 DEF Update, WatchdogStep
<1>6. QED
  BY <1>3, <1>4, <1>5

\* Of the groups, the plane, the start and the deaths.
LEMMA OtherSteps ==
  ASSUME GuardInv, Covered, Next, ~off', ~off,
         ~Update(UpdaterStep), ~Update(InstallStep), ~Update(InstallBegins),
         ~Update(MinutePasses), ~Update(WatchdogStep), ~Update(Confirmed)
  PROVE  Stops \/ Waits \/ Begins \/ Resumes \/ Takes \/ Frees
<1>1. /\ proc \in [pc : {"down", "updater", "hold", "groups", "plane", "wait", "run"},
                   ver : Nat, updater : {"none", "package", "self"}]
      /\ plan \in [phase : Phase, from : Nat, to : Nat]
  BY DEF GuardInv
<1>2. CASE Start
  <2>1. PICK u \in {"none", GuardContent(guard)} :
          /\ proc' = [pc |-> "updater", ver |-> program, updater |-> u]
          /\ off' = (off \/ u = "none")
    BY <1>2 DEF Start
  <2>2. u # "none"
    BY <2>1, Zenon
  <2>3. QED
    BY <1>2, <2>1, <2>2 DEF Start, planVars, holdVars, planeVars, Begins
<1>3. CASE GroupsStart \/ PlaneStart
  BY <1>1, <1>3 DEF GroupsStart, PlaneStart, planVars, holdVars, planeVars, Resumes
<1>4. CASE \/ \E names \in SUBSET Name : Plane(ScreenApply(names))
           \/ Plane(ApplyRefused)
           \/ GuardTampered /\ UNCHANGED <<planVars, proc, holdVars, counters>>
           \/ Install
  <2>1. UNCHANGED <<lock, open, proc, plan, install, watcher>>
    BY <1>4 DEF Plane, ScreenApply, ApplyRefused, GuardTampered, Install, planVars,
      holdVars
  <2>2. QED
    BY <2>1 DEF Waits, InProgress
<1>5. CASE Plane(ApplyOpens) \/ \E names \in SUBSET GroupsName : Plane(GroupsOpen(names))
  BY <1>5 DEF Plane, ApplyOpens, GroupsOpen, TryAcquire, planVars, holdVars, Takes
<1>6. CASE Ends(ApplyEnds) \/ \E kept \in BOOLEAN : Ends(GroupsEnd(kept))
  BY <1>6 DEF Ends, ApplyEnds, GroupsEnd, planVars, holdVars, Frees
<1>7. CASE Crash \/ Uninstall
  BY <1>7 DEF Crash, Uninstall, Stopped, planVars, Stops, InProgress
<1>8. CASE Reboot
  <2>1. open' \subseteq open
    BY <1>8 DEF Reboot, Booted
  <2>2. InProgress' => InProgress
    BY <1>1, <1>8 DEF Reboot, InProgress
  <2>3. QED
    BY <1>8, <2>1, <2>2 DEF Reboot, Stopped, Stops
<1>9. QED
  BY <1>2, <1>3, <1>4, <1>5, <1>6, <1>7, <1>8 DEF Next

LEMMA WindowIsInductive ==
  ASSUME HoldInv, GuardInv, WindowInv, [Next]_vars
  PROVE  WindowInv'
<1> SUFFICES ASSUME ~off' PROVE Covered'
  BY DEF WindowInv
<1>1. ~off
  <2>1. CASE Start
    BY <2>1, Zenon DEF Start
  <2>2. CASE UNCHANGED off
    BY <2>2, Zenon
  <2>3. QED
    BY <2>1, <2>2 DEF Next, vars, GroupsStart, PlaneStart, Update, Plane, Ends,
      Crash, Reboot, Uninstall, Install, counters
<1>2. Covered
  BY <1>1 DEF WindowInv
<1>3. Stops \/ Waits \/ Begins \/ Moves \/ Holds \/ Resumes \/ Takes \/ Frees
        \/ (InstallPlans /\ UNCHANGED open)
  <2>1. CASE UNCHANGED vars
    BY <2>1 DEF vars, planVars, holdVars, planeVars, Waits, InProgress
  <2>2. CASE \/ Update(UpdaterStep) \/ Update(InstallStep) \/ Update(InstallBegins)
             \/ Update(MinutePasses) \/ Update(WatchdogStep) \/ Update(Confirmed)
    BY <1>2, <2>2, UpdateSteps
  <2>3. QED
    BY <1>1, <1>2, <2>1, <2>2, OtherSteps
<1>4. QED
  BY <1>2, <1>3, CoveredAtStops, CoveredAtWaits, CoveredAtMoves, CoveredAtHolds,
    CoveredAtResumes, CoveredAtTakes, CoveredAtFrees, CoveredAtPlans

LEMMA AtMostOne ==
  ASSUME NEW S, \A v, w \in S : v = w
  PROVE  Cardinality(S) <= 1
<1>1. CASE S = {}
  BY <1>1, FS_EmptySet
<1>2. CASE S # {}
  <2>1. PICK w : w \in S
    BY <1>2
  <2>2. S = {w}
    BY <2>1
  <2>3. Cardinality({w}) = 1
    BY FS_Singleton
  <2>4. QED
    BY <2>2, <2>3
<1>3. QED
  BY <1>1, <1>2

\* Two writers never have a change that waits for its confirm, and the lock is
\* the one's who has, whoever died in between (main.go runDaemon, update.go
\* Startup, engine.go Start, wifiplane.go Start): for any number of updates,
\* crashes and reboots, as long as every daemon could build its updater.
THEOREM LockCovers == Spec => []LockCoversWindows
<1>1. Init => HoldInv /\ GuardInv /\ WindowInv
  <2> SUFFICES ASSUME Init PROVE HoldInv /\ GuardInv /\ WindowInv
    OBVIOUS
  <2>1. HoldInv /\ GuardInv
    BY FreeAssumption DEF Init, UpdateInit, PlaneInit, NoApply, NoProc, Phase,
      HoldInv, Holder, GuardInv
  <2>2. lock = Free /\ open = {} /\ proc.pc = "down" /\ install = "none"
          /\ watcher = "none" /\ ~InProgress
    BY DEF Init, UpdateInit, PlaneInit, NoProc, InProgress, Terminal
  <2>3. \A v, w \in Windows : v = w
    BY <2>2, WindowsAre
  <2>4. Covered
    BY <2>2, <2>3, FreeAssumption DEF Covered, LockTypeOK, Apart, Regained, Holder
  <2>5. QED
    BY <2>1, <2>4 DEF WindowInv
<1>2. HoldInv /\ GuardInv /\ WindowInv /\ [Next]_vars
        => HoldInv' /\ GuardInv' /\ WindowInv'
  BY HoldIsInductive, GuardIsInductive, WindowIsInductive, FreeAssumption
<1>3. WindowInv => LockCoversWindows
  <2> SUFFICES ASSUME WindowInv, ~off
               PROVE  /\ Cardinality(Windows) <= 1
                      /\ proc.pc \in {"wait", "run"} => Windows \subseteq {lock}
    BY DEF LockCoversWindows
  <2>1. Covered
    BY DEF WindowInv
  <2>2. Cardinality(Windows) <= 1
    BY <2>1, AtMostOne DEF Covered, Apart
  <2>3. ASSUME proc.pc \in {"wait", "run"}, NEW w \in Windows
        PROVE  w = lock
    <3>1. w \in open \/ (w = "update" /\ InProgress)
      BY <2>3, WindowsAre
    <3>2. QED
      BY <2>1, <2>3, <3>1 DEF Covered, Regained
  <2>4. QED
    BY <2>2, <2>3
<1>4. QED
  BY <1>1, <1>2, <1>3, PTL DEF Spec
=============================================================================
