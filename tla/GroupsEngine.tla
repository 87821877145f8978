---------------------------- MODULE GroupsEngine ----------------------------
(***************************************************************************)
(* The device-groups engine (internal/groups/engine.go) among the daemon's *)
(* other writers: groups.apply opens a confirm window over the wireless    *)
(* and network configs, groups.confirm keeps the change, and the deadline, *)
(* a failed step or a restart after the deadline puts the previous files   *)
(* back.                                                                   *)
(*                                                                         *)
(* The engine's mutex is held for a whole Apply, Confirm or rollback, but  *)
(* the daemon can die between any two file operations, so each of them is  *)
(* a step of its own; pc is where the mutex's owner stands.  A deadline is *)
(* named by the number of its window: "the deadline of window d is in the  *)
(* past" is d \in passed.                                                  *)
(***************************************************************************)
EXTENDS Naturals, ApplyLock

CONSTANTS
  Revision,            \* the revisions the controller asks for
  Section,             \* the names of the sections the engine creates
  Target,              \* Target[r][f]: the sections revision r wants in file f
  Binds,               \* the revisions with a binding (ApplyResult.BindingKeys)
  MayFail,             \* the kinds of step that may fail: subset of StepKind
  CanDisable,          \* may option wifi_groups be off at a restart?
  ReusesRevisions,     \* may the controller apply a revision it applied before?
  MaxWindows,          \* bound on windows opened
  MaxCrashes,          \* bound on crashes and reboots
  MaxFailures,         \* bound on failed steps
  MaxWrites,           \* bound on the other writers' writes
  None                 \* nil

File == {"wireless", "network"}
StepKind == {"copy", "persist", "write", "reload", "restore", "reloadBack"}
Deadline == 1..MaxWindows

Content == [own : SUBSET Section, other : Nat]
Pending == [rev : Revision, deadline : Deadline, ledger : SUBSET Section,
            network : BOOLEAN]
TimerId == [rev : Revision, deadline : Deadline]
State == [applied : Revision \cup {None},
          ledger : SUBSET Section, listed : BOOLEAN,  \* listed: Owned # nil
          pending : Pending \cup {None}, lastRollback : TimerId \cup {None}]
Planned == [rev : Revision, raw : [File -> Content], new : [File -> Content]]

ASSUME ConstantsAssumption ==
  /\ Target \in [Revision -> [File -> SUBSET Section]]
  /\ Binds \subseteq Revision
  /\ MayFail \subseteq StepKind
  /\ CanDisable \in BOOLEAN /\ ReusesRevisions \in BOOLEAN
  /\ MaxWindows \in Nat /\ MaxCrashes \in Nat
  /\ MaxFailures \in Nat /\ MaxWrites \in Nat

ASSUME NoneAssumption ==
  /\ None \notin Revision
  /\ None \notin Pending /\ None \notin TimerId /\ None \notin Planned
  /\ None \notin Content

VARIABLES
  \* On flash: they survive the daemon.
  files,               \* /etc/config/wireless and network
  copies,              \* the rollback directory's copies (None: no file)
  disk,                \* state.json
  open,                \* the other writers whose own window is open
  \* In the kernel and its services.
  running,             \* what netifd and hostapd last took from the files
  \* In the daemon (lock, from ApplyLock, too).
  up,                  \* "down", "on", or "off": running without the engine
  st,                  \* Engine.st
  timer,               \* Engine.timer while it is armed
  callbacks,           \* timer functions started and not yet holding the mutex
  pc, at,              \* the mutex owner's next step, and the file it is at
  todo,                \* Apply's plan
  why,                 \* rollbackLocked's reason
  \* The environment.
  passed,              \* the deadlines in the past
  fresh,               \* the revisions the controller may still apply
  windows, crashes, failures, writes,           \* the bounded counters
  before               \* history: the files as the last apply found them

flash == <<files, copies, disk>>
engine == <<st, timer, callbacks, pc, at, todo, why>>
counters == <<windows, crashes, failures, writes>>
vars == <<flash, open, running, lock, up, engine, passed, fresh, counters,
          before>>

PC == {"idle", "copy", "record", "write", "reload",
       "restore", "reloadBack", "close", "drop"}
Why == {"no_confirm", "window_passed", "unsafe", "write_failed",
        "reload_failed"}

TypeOK ==
  /\ files \in [File -> Content] /\ running \in [File -> Content]
  /\ copies \in [File -> Content \cup {None}]
  /\ disk \in State /\ st \in State
  /\ open \subseteq {"plane", "update"}
  /\ up \in {"down", "on", "off"}
  /\ LockTypeOK
  /\ timer \in TimerId \cup {None} /\ callbacks \subseteq TimerId
  /\ pc \in PC /\ at \in File
  /\ todo \in Planned \cup {None} /\ why \in Why \cup {None}
  /\ passed \subseteq Deadline /\ fresh \subseteq Revision
  /\ windows \in 0..MaxWindows /\ crashes \in 0..MaxCrashes
  /\ failures \in 0..MaxFailures /\ writes \in 0..MaxWrites
  /\ before \in [File -> Content]

-----------------------------------------------------------------------------
(* Helpers. *)

\* Variants with a defect, which some property must catch: each is named for
\* the helper it takes the place of.
OnBothFilesOnlyWireless(next) == at' = "wireless" /\ pc' = next
OverdueAtOnce(s) == TRUE
StillWaitsForApplied(c) == st.pending # None /\ st.applied = c.rev
ConfirmedNotApplied(s) ==
  [s EXCEPT !.ledger = s.pending.ledger, !.listed = TRUE, !.pending = None]
ConfirmedOldLedger(s) ==
  [s EXCEPT !.applied = s.pending.rev, !.pending = None]
RolledBackWhole(s) == [s EXCEPT !.pending = None, !.lastRollback = s.pending]
RollbackFromNetwork(reason) ==
  pc' = "restore" /\ at' = "network" /\ why' = reason /\ timer' = None
LockAtStartWithoutGroups(s) ==
  IF "update" \in open THEN "update"
  ELSE IF "plane" \in open THEN "plane"
  ELSE Free
LoadedWireless == [running EXCEPT !["wireless"] = files["wireless"]]

EmptyState ==
  [applied |-> None, ledger |-> {}, listed |-> FALSE, pending |-> None,
   lastRollback |-> None]

NoSections == [f \in File |-> [own |-> {}, other |-> 0]]

\* The mutex is free and the engine exists.
Idle == up = "on" /\ pc = "idle"

\* One more step fails, if its kind may.
Fails(kind) ==
  /\ kind \in MayFail /\ failures < MaxFailures
  /\ failures' = failures + 1

\* persistLocked: the state as it now is in memory goes to flash; a failed
\* save is only logged.
Persist(s) ==
  /\ st' = s
  /\ \/ disk' = s /\ UNCHANGED failures
     \/ Fails("persist") /\ UNCHANGED disk

\* The next step: the same for the network config, or what comes after both.
OnBothFiles(next) ==
  IF at = "wireless" THEN at' = "network" /\ pc' = pc
                     ELSE at' = "wireless" /\ pc' = next

\* Plan drops the sections the ledger names (by name pattern for a ledger
\* without names: all of them), then adds the revision's.
Rest(f) == IF st.listed THEN files[f].own \ st.ledger ELSE {}

PlannedFiles(r) ==
  [f \in File |-> [files[f] EXCEPT !.own = Rest(f) \cup Target[r][f]]]

NameTaken(r) == \E f \in File : Rest(f) \cap Target[r][f] # {}

NewLedger(r) == UNION {Target[r][f] : f \in File}

\* The deadline of state s's window is in the past.
Overdue(s) == s.pending.deadline \in passed

\* The timer armLocked arms for state s's window.
Armed(s) == [rev |-> s.pending.rev, deadline |-> s.pending.deadline]

\* The timer function's check: it knows its revision, not its window.
StillWaits(c) == st.pending # None /\ st.pending.rev = c.rev

\* The states after a noop, a confirm and a rollback.
Adopted(s, r) ==
  [s EXCEPT !.applied = r, !.ledger = NewLedger(r), !.listed = TRUE]

Confirmed(s) ==
  [s EXCEPT !.applied = s.pending.rev, !.ledger = s.pending.ledger,
            !.listed = TRUE, !.pending = None]

RolledBack(s) ==
  [s EXCEPT !.pending = None,
            !.lastRollback = [rev |-> s.pending.rev,
                              deadline |-> s.pending.deadline]]

\* Who holds the lock when runDaemon is through its start: an unfinished
\* update, else the engine for the window of its state s, else the plane.
LockAtStart(s) ==
  IF "update" \in open THEN "update"
  ELSE IF s.pending # None THEN "groups"
  ELSE IF "plane" \in open THEN "plane"
  ELSE Free

-----------------------------------------------------------------------------
(* groups.apply.  A refusal (bad parameters, LuCI pending, uncommitted     *)
(* changes, no trunk, a name taken) changes nothing and is no step; so is  *)
(* the retry of the pending revision, which gets the stored result.        *)

\* The files hold what the revision wants: the ledger is updated, and the
\* lock is free again when Apply returns.
ApplyNoop(r) ==
  /\ Idle /\ st.pending = None /\ lock = Free /\ r \in fresh
  /\ ~NameTaken(r) /\ PlannedFiles(r) = files
  /\ Persist(Adopted(st, r))
  /\ UNCHANGED <<files, copies, open, running, lock, up, timer, callbacks, pc,
                 at, todo, why, passed, fresh, windows, crashes, writes,
                 before>>

\* The lock first, then both configs are read and the plan is made.
ApplyBegin(r) ==
  /\ Idle /\ st.pending = None /\ windows < MaxWindows /\ r \in fresh
  /\ TryAcquire("groups")
  /\ ~NameTaken(r) /\ PlannedFiles(r) # files
  /\ todo' = [rev |-> r, raw |-> files, new |-> PlannedFiles(r)]
  /\ before' = files
  /\ pc' = "copy" /\ at' = "wireless"
  /\ UNCHANGED <<flash, open, running, up, st, timer, callbacks, why, passed,
                 fresh, counters>>

\* A rollback copy is written; when that fails nothing was touched yet.
SaveCopy ==
  /\ pc = "copy"
  /\ \/ /\ copies' = [copies EXCEPT ![at] = todo.raw[at]]
        /\ OnBothFiles("record")
        /\ UNCHANGED <<lock, todo, failures>>
     \/ /\ Fails("copy")
        /\ Release("groups")
        /\ pc' = "idle" /\ at' = "wireless" /\ todo' = None
        /\ UNCHANGED copies
  /\ UNCHANGED <<files, disk, open, running, up, st, timer, callbacks, why,
                 passed, fresh, windows, crashes, writes, before>>

\* The window is recorded before the first config is touched; its deadline
\* runs from here.
RecordWindow ==
  /\ pc = "record"
  /\ Persist([st EXCEPT !.pending =
       [rev |-> todo.rev, deadline |-> windows + 1,
        ledger |-> NewLedger(todo.rev),
        network |-> todo.new["network"] # todo.raw["network"]]])
  /\ windows' = windows + 1
  /\ fresh' = IF ReusesRevisions THEN fresh ELSE fresh \ {todo.rev}
  /\ pc' = "write"
  /\ UNCHANGED <<files, copies, open, running, lock, up, timer, callbacks, at,
                 todo, why, passed, crashes, writes, before>>

\* rollbackLocked begins: the timer is stopped.
BeginRollback(reason) ==
  /\ pc' = "restore" /\ at' = "wireless"
  /\ why' = reason
  /\ timer' = None

\* The changed configs are replaced; a failed write rolls back.
WriteConfig ==
  /\ pc = "write"
  /\ \/ /\ files' = [files EXCEPT ![at] = todo.new[at]]
        /\ OnBothFiles("reload")
        /\ UNCHANGED <<timer, why, failures>>
     \/ /\ todo.new[at] # todo.raw[at]
        /\ Fails("write")
        /\ BeginRollback("write_failed")
        /\ UNCHANGED files
  /\ UNCHANGED <<copies, disk, open, running, lock, up, st, callbacks, todo,
                 passed, fresh, windows, crashes, writes, before>>

\* What a reload loads: everything, or the wireless alone.
Loaded == IF st.pending.network
          THEN files
          ELSE [running EXCEPT !["wireless"] = files["wireless"]]

Reload ==
  /\ pc = "reload"
  /\ \/ /\ running' = Loaded
        /\ timer' = Armed(st)
        /\ pc' = "idle"
        /\ UNCHANGED <<at, why, failures>>
     \/ /\ Fails("reload")
        /\ running' \in {running, Loaded}
        /\ BeginRollback("reload_failed")
  /\ todo' = None
  /\ UNCHANGED <<flash, open, lock, up, st, callbacks, passed, fresh, windows,
                 crashes, writes, before>>

-----------------------------------------------------------------------------
(* groups.confirm.  Confirming what is not pending is no step. *)

ConfirmKeep(r) ==
  /\ Idle /\ st.pending # None /\ st.pending.rev = r
  /\ Persist(Confirmed(st))
  /\ timer' = None
  /\ Release("groups")
  /\ pc' = "drop" /\ at' = "wireless"
  /\ UNCHANGED <<files, copies, open, running, up, callbacks, todo, why,
                 passed, fresh, windows, crashes, writes, before>>

\* The rollback copies are removed after the state is saved.
DropCopy ==
  /\ pc = "drop"
  /\ copies' = [copies EXCEPT ![at] = None]
  /\ OnBothFiles("idle")
  /\ UNCHANGED <<files, disk, open, running, lock, up, st, timer, callbacks,
                 todo, why, passed, fresh, counters, before>>

\* hostapd holds a binding's passphrase for every client.
ConfirmUnsafe(r) ==
  /\ Idle /\ st.pending # None /\ st.pending.rev = r /\ r \in Binds
  /\ BeginRollback("unsafe")
  /\ UNCHANGED <<flash, open, running, lock, up, st, callbacks, todo, passed,
                 fresh, counters, before>>

-----------------------------------------------------------------------------
(* The deadline. *)

DeadlinePasses(d) ==
  /\ d \notin passed
  /\ \E w \in {st.pending, disk.pending, timer} : w # None /\ w.deadline = d
  /\ passed' = passed \cup {d}
  /\ UNCHANGED <<flash, open, running, lock, up, engine, fresh, counters,
                 before>>

\* The runtime starts the timer's function, which waits for the mutex;
\* Stop no longer reaches it.
TimerFires ==
  /\ timer # None /\ timer.deadline \in passed
  /\ callbacks' = callbacks \cup {timer}
  /\ timer' = None
  /\ UNCHANGED <<flash, open, running, lock, up, st, pc, at, todo, why, passed,
                 fresh, counters, before>>

\* It has the mutex.
TimerCallback(c) ==
  /\ Idle /\ c \in callbacks
  /\ callbacks' = callbacks \ {c}
  /\ IF StillWaits(c)
     THEN BeginRollback("no_confirm")
     ELSE UNCHANGED <<timer, pc, at, why>>
  /\ UNCHANGED <<flash, open, running, lock, up, st, todo, passed, fresh,
                 counters, before>>

-----------------------------------------------------------------------------
(* rollbackLocked. *)

\* A missing copy is only logged, and so is a failed restore.
RestoreConfig ==
  /\ pc = "restore"
  /\ \/ /\ files' = IF copies[at] = None THEN files
                    ELSE [files EXCEPT ![at] = copies[at]]
        /\ UNCHANGED failures
     \/ Fails("restore") /\ UNCHANGED files
  /\ OnBothFiles("reloadBack")
  /\ UNCHANGED <<copies, disk, open, running, lock, up, st, timer, callbacks,
                 todo, why, passed, fresh, windows, crashes, writes, before>>

\* Always the network reload; its failure is only logged.
ReloadBack ==
  /\ pc = "reloadBack"
  /\ \/ running' = files /\ UNCHANGED failures
     \/ Fails("reloadBack") /\ running' \in {running, files}
  /\ pc' = "close"
  /\ UNCHANGED <<flash, open, lock, up, st, timer, callbacks, at, todo, why,
                 passed, fresh, windows, crashes, writes, before>>

CloseRollback ==
  /\ pc = "close"
  /\ Persist(RolledBack(st))
  /\ Release("groups")
  /\ pc' = "idle" /\ why' = None /\ todo' = None
  /\ UNCHANGED <<files, copies, open, running, up, timer, callbacks, at,
                 passed, fresh, windows, crashes, writes, before>>

-----------------------------------------------------------------------------
(* The daemon's process. *)

\* The daemon dies, alone or with the whole access point, which then boots
\* with the files as they are.
Crash(reboot) ==
  /\ up # "down" /\ crashes < MaxCrashes
  /\ crashes' = crashes + 1
  /\ up' = "down"
  /\ running' = IF reboot THEN files ELSE running
  /\ st' = EmptyState
  /\ lock' = Free
  /\ timer' = None /\ callbacks' = {}
  /\ pc' = "idle" /\ at' = "wireless" /\ todo' = None /\ why' = None
  /\ UNCHANGED <<flash, open, passed, fresh, windows, failures, writes,
                 before>>

\* runDaemon: an unfinished update takes the lock, then the engine (New and
\* Start), if it is enabled, then the Wi-Fi plane.
Restart(mode) ==
  /\ up = "down"
  /\ up' = mode
  /\ st' = IF mode = "on" THEN disk ELSE EmptyState
  /\ lock' = LockAtStart(st')
  /\ IF st'.pending = None
     THEN UNCHANGED <<timer, pc, at, why>>
     ELSE IF Overdue(st')
     THEN BeginRollback("window_passed")
     ELSE /\ timer' = Armed(st')
          /\ UNCHANGED <<pc, at, why>>
  /\ UNCHANGED <<flash, open, running, callbacks, todo, passed, fresh,
                 counters, before>>

-----------------------------------------------------------------------------
(* The other writers: the Wi-Fi config plane and agent updates.  Each      *)
(* takes the lock, opens a window it records on flash, and frees the lock  *)
(* when its window closes.                                                 *)

OtherOpen(w) ==
  /\ up # "down"
  /\ TryAcquire(w)
  /\ open' = open \cup {w}
  /\ UNCHANGED <<flash, running, up, engine, passed, fresh, counters, before>>

\* The plane changes its own sections and reloads.
PlaneWrite(f) ==
  /\ up # "down" /\ lock = "plane" /\ "plane" \in open
  /\ writes < MaxWrites
  /\ writes' = writes + 1
  /\ files' = [files EXCEPT ![f].other = @ + 1]
  /\ running' = [running EXCEPT ![f] = files'[f]]
  /\ UNCHANGED <<copies, disk, open, lock, up, engine, passed, fresh, windows,
                 crashes, failures, before>>

OtherClose(w) ==
  /\ up # "down" /\ w \in open
  /\ open' = open \ {w}
  /\ Release(w)
  /\ UNCHANGED <<flash, running, up, engine, passed, fresh, counters, before>>

-----------------------------------------------------------------------------
Init ==
  /\ files = NoSections /\ running = NoSections /\ before = NoSections
  /\ copies = [f \in File |-> None]
  /\ disk = EmptyState /\ st = EmptyState
  /\ open = {} /\ lock = Free /\ up = "on"
  /\ timer = None /\ callbacks = {}
  /\ pc = "idle" /\ at = "wireless" /\ todo = None /\ why = None
  /\ passed = {} /\ fresh = Revision
  /\ windows = 0 /\ crashes = 0 /\ failures = 0 /\ writes = 0

\* The mutex's owner goes on.
EngineStep ==
  \/ SaveCopy \/ RecordWindow \/ WriteConfig \/ Reload
  \/ DropCopy
  \/ RestoreConfig \/ ReloadBack \/ CloseRollback

Controller ==
  \E r \in Revision :
    ApplyNoop(r) \/ ApplyBegin(r) \/ ConfirmKeep(r) \/ ConfirmUnsafe(r)

Clock ==
  \/ \E d \in Deadline : DeadlinePasses(d)
  \/ TimerFires
  \/ \E c \in callbacks : TimerCallback(c)

Process ==
  \/ \E reboot \in BOOLEAN : Crash(reboot)
  \/ \E mode \in (IF CanDisable THEN {"on", "off"} ELSE {"on"}) : Restart(mode)

Others ==
  \/ \E w \in {"plane", "update"} : OtherOpen(w) \/ OtherClose(w)
  \/ \E f \in File : PlaneWrite(f)

Next == EngineStep \/ Controller \/ Clock \/ Process \/ Others

Spec == Init /\ [][Next]_vars

\* The scheduler runs the mutex's owner and a started timer function, time
\* passes, the runtime fires a due timer, and procd starts a dead daemon
\* again.  Nothing is asked of the controller, nor of the other writers.
Fairness ==
  /\ WF_vars(EngineStep)
  /\ WF_vars(TimerFires)
  /\ WF_vars(\E d \in Deadline : DeadlinePasses(d))
  /\ WF_vars(\E c \in callbacks : TimerCallback(c))
  /\ WF_vars(Restart("on"))

FairSpec == Spec /\ Fairness

-----------------------------------------------------------------------------
(* Properties. *)

\* While an apply waits for its confirm the write lock is the engine's, after
\* a restart too: no other writer can start (engine.go Apply, Start; the
\* promise of applylock's package comment).
LockHeldWhilePending ==
  up = "on" /\ st.pending # None => lock = "groups"

\* The lock does not outlive its window: whatever step of an apply, a confirm
\* or a rollback fails, the engine is back at rest without the lock, or with a
\* pending window (the deferred release of Apply, releaseLocked).
LockNotLeaked ==
  Idle /\ lock = "groups" => st.pending # None

\* The windows recorded on flash never overlap, whatever crashes: at most one
\* of the three writers has one.
WindowsNeverOverlap ==
  /\ disk.pending # None => open = {}
  /\ \A v, w \in open : v = w

\* As long as state.json records a window, the rollback directory holds both
\* files exactly as the apply found them: a crash at any step of an apply, a
\* rollback or a confirm leaves what the restart needs.
SnapshotCoversWindow ==
  disk.pending # None => \A f \in File : copies[f] = before[f]

\* When a rollback closes its window, both configs are what they were before
\* the apply.
RollbackRestores ==
  pc = "close" => \A f \in File : files[f] = before[f]

\* The deadline rolls back only what is overdue: when the timer or a restart
\* begins a rollback, that window's own deadline is in the past.  (It does not
\* hold if the controller uses a revision again: StillWaits compares these.)
NoEarlyRollback ==
  pc = "restore" /\ why \in {"no_confirm", "window_passed"} =>
    st.pending.deadline \in passed

\* No step of the engine takes back what another writer wrote.
OthersWritesSurvive ==
  [][\A f \in File : files'[f].other >= files[f].other]_files

\* Between operations every section the groups created in a config file is in
\* the ledger, or in the pending apply's: the next apply removes it.  (Without
\* a crash between the two writes of an apply.)
LedgerCoversFiles ==
  Idle /\ st.listed =>
    LET recorded == st.ledger \cup
                    (IF st.pending = None THEN {} ELSE st.pending.ledger)
    IN  \A f \in File : files[f].own \subseteq recorded

\* The sections a revision wants; before the first apply there are none.
Wanted(r, f) == IF r = None THEN {} ELSE Target[r][f]

\* With nothing pending the access point has the revision the state names, the
\* last one confirmed, and nothing else of the groups, in both files and in what
\* the services loaded: after noops, confirms, failed applies and rollbacks.
AppliedIsThere ==
  Idle /\ st.pending = None =>
    running = files /\ \A f \in File : files[f].own = Wanted(st.applied, f)

\* What a confirm keeps is what the access point has been running since the
\* apply's reload: both configs whole, and loaded.
ConfirmedIsRunning ==
  [][\A r \in Revision : ConfirmKeep(r) =>
       /\ running = files
       /\ \A f \in File : Target[r][f] \subseteq files[f].own]_vars

\* A window on flash does not stay: a confirm or a rollback closes it, across
\* crashes and with a controller that never answers.
WindowCloses ==
  \A d \in Deadline :
    LET Holds == disk.pending # None /\ disk.pending.deadline = d
    IN  Holds ~> ~Holds

\* The daemon's own pending apply ends too, whatever fails on the way.
PendingEnds == st.pending # None ~> st.pending = None

\* The engine implements the confirm window of ConfirmWindow: the window is
\* the one recorded on flash.
Window == INSTANCE ConfirmWindow WITH
  config <- files, saved <- copies, window <- disk.pending,
  applied <- disk.applied, reported <- disk.lastRollback

ImplementsWindow == Window!Spec
=============================================================================
