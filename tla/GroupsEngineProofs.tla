-------------------------- MODULE GroupsEngineProofs --------------------------
(***************************************************************************)
(* Proofs about the device-groups engine, for any revisions, sections,     *)
(* number of windows and bounds: its types and its lock, the rollbacks,    *)
(* its safety and the refinement of the confirm window, the ledger and     *)
(* what runs.                                                              *)
(*                                                                         *)
(* The types, the lock and the rollbacks are proved whatever fails and     *)
(* crashes.  For the rest three failures that the code only logs are       *)
(* excluded (Reliable), because with them the properties do not hold: a    *)
(* state that was not saved, a config that was not restored, and a restart *)
(* with the engine switched off.  The ledger and what runs need that       *)
(* nothing crashes, too.                                                   *)
(***************************************************************************)
EXTENDS GroupsEngine, TLAPS

-----------------------------------------------------------------------------
(* The operators on the engine's state. *)

LEMMA NewLedgerType ==
  ASSUME NEW r \in Revision
  PROVE  NewLedger(r) \in SUBSET Section
BY ConstantsAssumption DEF NewLedger

LEMMA PlannedFilesType ==
  ASSUME NEW r \in Revision, TypeOK
  PROVE  PlannedFiles(r) \in [File -> Content]
<1> SUFFICES ASSUME NEW f \in File
             PROVE  [files[f] EXCEPT !.own = Rest(f) \cup Target[r][f]] \in Content
  BY DEF PlannedFiles
<1>1. files[f] \in Content /\ Rest(f) \subseteq Section
  BY DEF TypeOK, Rest, Content, State
<1>2. Target[r][f] \subseteq Section
  BY ConstantsAssumption
<1> QED
  BY <1>1, <1>2 DEF Content

LEMMA AdoptedType ==
  ASSUME NEW s \in State, NEW r \in Revision
  PROVE  Adopted(s, r) \in State
BY NewLedgerType DEF Adopted, State

LEMMA ConfirmedType ==
  ASSUME NEW s \in State, s.pending # None
  PROVE  Confirmed(s) \in State
BY DEF Confirmed, State, Pending

LEMMA RolledBackType ==
  ASSUME NEW s \in State, s.pending # None
  PROVE  RolledBack(s) \in State
<1>1. [rev |-> s.pending.rev, deadline |-> s.pending.deadline] \in TimerId
  BY DEF State, Pending, TimerId
<1> QED
  BY <1>1 DEF RolledBack, State

\* What each of them does to the window.
LEMMA PendingAfter ==
  ASSUME NEW s \in State
  PROVE  /\ \A r \in Revision : Adopted(s, r).pending = s.pending
         /\ Confirmed(s).pending = None
         /\ RolledBack(s).pending = None
BY DEF Adopted, Confirmed, RolledBack, State

LEMMA ArmedType ==
  ASSUME NEW s \in State, s.pending # None
  PROVE  Armed(s) \in TimerId
BY DEF Armed, State, Pending, TimerId

LEMMA EmptyStateType == EmptyState \in State
BY DEF EmptyState, State

-----------------------------------------------------------------------------
(* Type correctness. *)

\* What TypeOK needs to be inductive: which steps of the mutex's owner have a
\* plan, which have a pending window to work on, and that without the engine
\* nobody owns the mutex.
Shape ==
  /\ pc \in {"copy", "record", "write"} => todo # None
  /\ pc \in {"copy", "record"} => windows < MaxWindows
  /\ pc \in {"write", "reload", "restore", "reloadBack", "close"}
       => st.pending # None
  /\ up # "on" => pc = "idle"

TypeInv == TypeOK /\ Shape

LEMMA TypeInit == Init => TypeInv
<1> SUFFICES ASSUME Init PROVE TypeInv
  OBVIOUS
<1>1. NoSections \in [File -> Content]
  BY DEF NoSections, Content
<1>2. Shape
  BY DEF Init, Shape
<1> QED
  BY <1>1, <1>2, EmptyStateType, ConstantsAssumption
     DEF Init, TypeInv, TypeOK, LockTypeOK, PC, File

LEMMA TypeNext == TypeInv /\ [Next]_vars => TypeInv'
<1> SUFFICES ASSUME TypeInv, [Next]_vars
             PROVE  TypeInv'
  OBVIOUS
<1> USE ConstantsAssumption
<1>f. ASSUME NEW kind, Fails(kind)
      PROVE  failures' \in 0..MaxFailures
  BY <1>f DEF Fails, TypeInv, TypeOK
<1>p. ASSUME NEW s \in State, Persist(s)
      PROVE  st' = s /\ disk' \in State /\ failures' \in 0..MaxFailures
  BY <1>p, <1>f DEF Persist, TypeInv, TypeOK
<1>r. ASSUME NEW h \in Holder, Release(h) \/ TryAcquire(h)
      PROVE  LockTypeOK'
  BY <1>r DEF Release, TryAcquire, LockTypeOK, TypeInv, TypeOK
<1>h. "groups" \in Holder /\ "plane" \in Holder /\ "update" \in Holder
  BY DEF Holder
<1>b. ASSUME NEW reason \in Why, BeginRollback(reason)
      PROVE  /\ pc' = "restore" /\ at' \in File
             /\ why' \in Why /\ timer' = None
  BY <1>b DEF BeginRollback, File
<1>1. ASSUME NEW r \in Revision, ApplyNoop(r)
      PROVE  TypeInv'
  <2>1. Adopted(st, r) \in State /\ Adopted(st, r).pending = None
    BY <1>1, AdoptedType DEF ApplyNoop, TypeInv, TypeOK, Adopted, State
  <2>2. st' = Adopted(st, r) /\ disk' \in State /\ failures' \in 0..MaxFailures
    BY <1>1, <1>p, <2>1 DEF ApplyNoop
  <2> QED
    BY <1>1, <2>1, <2>2
       DEF ApplyNoop, Idle, TypeInv, TypeOK, LockTypeOK, Shape
<1>2. ASSUME NEW r \in Revision, ApplyBegin(r)
      PROVE  TypeInv'
  <2>1. todo' \in Planned
    BY <1>2, PlannedFilesType DEF ApplyBegin, Planned, TypeInv, TypeOK
  <2>2. LockTypeOK'
    BY <1>2, <1>r, <1>h DEF ApplyBegin
  <2> QED
    BY <1>2, <2>1, <2>2, NoneAssumption
       DEF Idle, ApplyBegin, flash, counters, TypeInv, TypeOK, Shape, PC, File
<1>3. CASE SaveCopy
  <2>1. todo \in Planned /\ todo.raw[at] \in Content
    BY <1>3 DEF SaveCopy, TypeInv, TypeOK, Shape, Planned
  <2>2. copies' \in [File -> Content \cup {None}]
    BY <1>3, <2>1 DEF SaveCopy, TypeInv, TypeOK
  <2>3. LockTypeOK' /\ failures' \in 0..MaxFailures
    BY <1>3, <1>r, <1>h, <1>f DEF SaveCopy, LockTypeOK, TypeInv, TypeOK
  <2>4. pc' \in {"copy", "record", "idle"} /\ at' \in File
    BY <1>3 DEF SaveCopy, OnBothFiles, File
  <2>5. todo' = todo \/ (todo' = None /\ pc' = "idle")
    BY <1>3 DEF SaveCopy
  <2> QED
    BY <1>3, <2>2, <2>3, <2>4, <2>5 DEF SaveCopy, TypeInv, TypeOK, Shape, PC
<1>4. CASE RecordWindow
  <2> DEFINE p == [rev |-> todo.rev, deadline |-> windows + 1,
                   ledger |-> NewLedger(todo.rev),
                   network |-> todo.new["network"] # todo.raw["network"]]
  <2> DEFINE s == [st EXCEPT !.pending = p]
  <2>1. todo \in Planned /\ windows \in Nat /\ windows < MaxWindows
    BY <1>4 DEF RecordWindow, TypeInv, TypeOK, Shape
  <2>2. p \in Pending
    BY <2>1, NewLedgerType DEF Planned, Pending, Deadline
  <2>3. s \in State /\ s.pending # None
    BY <2>2, NoneAssumption DEF State, TypeInv, TypeOK
  <2>4. Persist(s)
    BY <1>4 DEF RecordWindow
  <2>5. st' = s /\ disk' \in State /\ failures' \in 0..MaxFailures
    BY <1>p, <2>3, <2>4
  <2>6. fresh' \subseteq Revision
    BY <1>4 DEF RecordWindow, TypeInv, TypeOK
  <2> HIDE DEF s
  <2> QED
    BY <1>4, <2>1, <2>3, <2>5, <2>6
       DEF RecordWindow, TypeInv, TypeOK, LockTypeOK, Shape, PC
<1>5. CASE WriteConfig
  <2>1. todo \in Planned /\ todo.new[at] \in Content
    BY <1>5 DEF WriteConfig, TypeInv, TypeOK, Shape, Planned
  <2>2. files' \in [File -> Content]
    BY <1>5, <2>1 DEF WriteConfig, TypeInv, TypeOK
  <2>3. CASE OnBothFiles("reload") /\ UNCHANGED <<timer, why, failures>>
    BY <1>5, <2>2, <2>3
       DEF WriteConfig, OnBothFiles, TypeInv, TypeOK, LockTypeOK, Shape, PC, File
  <2>4. CASE Fails("write") /\ BeginRollback("write_failed")
    BY <1>5, <2>2, <2>4, <1>f
       DEF WriteConfig, BeginRollback, TypeInv, TypeOK, LockTypeOK, Shape, PC,
           Why, File
  <2> QED
    BY <1>5, <2>3, <2>4 DEF WriteConfig
<1>6. CASE Reload
  <2>1. Armed(st) \in TimerId
    BY <1>6, ArmedType DEF Reload, TypeInv, TypeOK, Shape
  <2>2. Loaded \in [File -> Content]
    BY DEF Loaded, TypeInv, TypeOK, File
  <2>3. CASE running' = Loaded /\ timer' = Armed(st) /\ pc' = "idle"
             /\ UNCHANGED <<at, why, failures>>
    BY <1>6, <2>1, <2>2, <2>3
       DEF Reload, flash, TypeInv, TypeOK, LockTypeOK, Shape, PC
  <2>4. CASE Fails("reload") /\ running' \in {running, Loaded}
             /\ BeginRollback("reload_failed")
    BY <1>6, <1>f, <2>2, <2>4
       DEF Reload, BeginRollback, flash, TypeInv, TypeOK, LockTypeOK, Shape, PC,
           Why, File
  <2> QED
    BY <1>6, <2>3, <2>4 DEF Reload
<1>7. ASSUME NEW r \in Revision, ConfirmKeep(r)
      PROVE  TypeInv'
  <2>1. Confirmed(st) \in State
    BY <1>7, ConfirmedType DEF ConfirmKeep, TypeInv, TypeOK
  <2>2. st' = Confirmed(st) /\ disk' \in State /\ failures' \in 0..MaxFailures
    BY <1>7, <1>p, <2>1 DEF ConfirmKeep
  <2>3. LockTypeOK'
    BY <1>7, <1>r, <1>h DEF ConfirmKeep
  <2> QED
    BY <1>7, <2>1, <2>2, <2>3
       DEF Idle, ConfirmKeep, TypeInv, TypeOK, Shape, PC, File
<1>8. CASE DropCopy
  <2>1. copies' \in [File -> Content \cup {None}]
    BY <1>8 DEF DropCopy, TypeInv, TypeOK
  <2>2. pc' \in {"drop", "idle"} /\ at' \in File
    BY <1>8 DEF DropCopy, OnBothFiles, File
  <2> QED
    BY <1>8, <2>1, <2>2
       DEF DropCopy, counters, TypeInv, TypeOK, LockTypeOK, Shape, PC
<1>9. ASSUME NEW r \in Revision, ConfirmUnsafe(r)
      PROVE  TypeInv'
  BY <1>9 DEF Idle, ConfirmUnsafe, BeginRollback, flash, counters, TypeInv, TypeOK,
              LockTypeOK, Shape, PC, Why, File
<1>10. ASSUME NEW d \in Deadline, DeadlinePasses(d)
       PROVE  TypeInv'
  BY <1>10 DEF DeadlinePasses, flash, engine, counters, TypeInv, TypeOK,
               LockTypeOK, Shape
<1>11. CASE TimerFires
  BY <1>11 DEF TimerFires, flash, counters, TypeInv, TypeOK, LockTypeOK, Shape
<1>12. ASSUME NEW c \in callbacks, TimerCallback(c)
       PROVE  TypeInv'
  <2>1. CASE StillWaits(c) /\ BeginRollback("no_confirm")
    BY <1>12, <2>1
       DEF Idle, TimerCallback, StillWaits, BeginRollback, flash, counters, TypeInv,
           TypeOK, LockTypeOK, Shape, PC, Why, File
  <2>2. CASE UNCHANGED <<timer, pc, at, why>>
    BY <1>12, <2>2
       DEF TimerCallback, flash, counters, TypeInv, TypeOK, LockTypeOK, Shape
  <2> QED
    BY <1>12, <2>1, <2>2 DEF TimerCallback
<1>13. CASE RestoreConfig
  <2>1. files' \in [File -> Content]
    BY <1>13, NoneAssumption DEF RestoreConfig, TypeInv, TypeOK
  <2>2. pc' \in {"restore", "reloadBack"} /\ at' \in File
    BY <1>13 DEF RestoreConfig, OnBothFiles, File
  <2>3. failures' \in 0..MaxFailures
    BY <1>13, <1>f DEF RestoreConfig, TypeInv, TypeOK
  <2> QED
    BY <1>13, <2>1, <2>2, <2>3
       DEF RestoreConfig, TypeInv, TypeOK, LockTypeOK, Shape, PC
<1>14. CASE ReloadBack
  <2>1. failures' \in 0..MaxFailures
    BY <1>14, <1>f DEF ReloadBack, TypeInv, TypeOK
  <2> QED
    BY <1>14, <2>1
       DEF ReloadBack, flash, TypeInv, TypeOK, LockTypeOK, Shape, PC
<1>15. CASE CloseRollback
  <2>1. RolledBack(st) \in State
    BY <1>15, RolledBackType DEF CloseRollback, TypeInv, TypeOK, Shape
  <2>2. st' = RolledBack(st) /\ disk' \in State /\ failures' \in 0..MaxFailures
    BY <1>15, <1>p, <2>1 DEF CloseRollback
  <2>3. LockTypeOK'
    BY <1>15, <1>r, <1>h DEF CloseRollback
  <2> QED
    BY <1>15, <2>1, <2>2, <2>3 DEF CloseRollback, TypeInv, TypeOK, Shape, PC
<1>16. ASSUME NEW reboot \in BOOLEAN, Crash(reboot)
       PROVE  TypeInv'
  BY <1>16, EmptyStateType
     DEF Crash, flash, TypeInv, TypeOK, LockTypeOK, Shape, PC, File
<1>17. ASSUME NEW mode \in {"on", "off"}, Restart(mode)
       PROVE  TypeInv'
  <2>1. st' \in State
    BY <1>17, EmptyStateType DEF Restart, TypeInv, TypeOK
  <2>2. LockTypeOK'
    BY <1>17, <1>h DEF Restart, LockAtStart, LockTypeOK
  <2>3. CASE st'.pending = None
    BY <1>17, <2>1, <2>2, <2>3
       DEF Restart, flash, counters, TypeInv, TypeOK, Shape
  <2>4. CASE st'.pending # None /\ BeginRollback("window_passed")
    BY <1>17, <2>1, <2>2, <2>4
       DEF Restart, EmptyState, BeginRollback, flash, counters, TypeInv, TypeOK,
           Shape, PC, Why, File
  <2>5. CASE st'.pending # None /\ timer' = Armed(st') /\ UNCHANGED <<pc, at, why>>
    <3>1. timer' \in TimerId
      BY <2>1, <2>5, ArmedType
    <3> QED
      BY <1>17, <2>1, <2>2, <2>5, <3>1
         DEF Restart, flash, counters, TypeInv, TypeOK, Shape
  <2> QED
    BY <1>17, <2>3, <2>4, <2>5 DEF Restart
<1>18. ASSUME NEW w \in {"plane", "update"}, OtherOpen(w) \/ OtherClose(w)
       PROVE  TypeInv'
  <2>1. LockTypeOK'
    BY <1>18, <1>r, <1>h DEF OtherOpen, OtherClose
  <2> QED
    BY <1>18, <2>1
       DEF OtherOpen, OtherClose, flash, engine, counters, TypeInv, TypeOK, Shape
<1>19. ASSUME NEW f \in File, PlaneWrite(f)
       PROVE  TypeInv'
  <2>0. files[f] \in Content
    BY DEF TypeInv, TypeOK
  <2>1. [files[f] EXCEPT !.other = @ + 1] \in Content
    BY <2>0 DEF Content
  <2>2. files' \in [File -> Content]
    BY <1>19, <2>1 DEF PlaneWrite, TypeInv, TypeOK
  <2>3. running' \in [File -> Content]
    BY <1>19, <2>2 DEF PlaneWrite, TypeInv, TypeOK
  <2> QED
    BY <1>19, <2>2, <2>3
       DEF PlaneWrite, engine, TypeInv, TypeOK, LockTypeOK, Shape
<1>20. CASE UNCHANGED vars
  BY <1>20 DEF vars, flash, engine, counters, TypeInv, TypeOK, LockTypeOK, Shape
<1> QED
  BY <1>1, <1>2, <1>3, <1>4, <1>5, <1>6, <1>7, <1>8, <1>9, <1>10, <1>11, <1>12,
     <1>13, <1>14, <1>15, <1>16, <1>17, <1>18, <1>19, <1>20
     DEF Next, EngineStep, Controller, Clock, Process, Others

\* The engine's state has its type in every reachable state, whatever fails
\* and whenever the daemon dies: no step reads a plan or a window that is not
\* there (engine.go's e.st.Pending and Apply's res are never nil when used).
THEOREM TypeCorrect == Spec => []TypeOK
<1>1. Spec => []TypeInv
  BY TypeInit, TypeNext, PTL DEF Spec
<1> QED
  BY <1>1, PTL DEF TypeInv

-----------------------------------------------------------------------------
(* The lock. *)

\* The engine has the lock only from the start of an apply to the end of the
\* window it opens.
LockInv ==
  lock = "groups" => pc \in {"copy", "record"} \/ st.pending # None

LEMMA LockNext == TypeInv /\ LockInv /\ [Next]_vars => LockInv'
<1> SUFFICES ASSUME TypeInv, LockInv, [Next]_vars
             PROVE  LockInv'
  OBVIOUS
<1> USE FreeAssumption DEF Holder
<1>t. st \in State
  BY DEF TypeInv, TypeOK
<1>1. ASSUME NEW r \in Revision, ApplyNoop(r) \/ ApplyBegin(r)
      PROVE  LockInv'
  BY <1>1 DEF ApplyNoop, ApplyBegin, LockInv
<1>2. CASE SaveCopy
  BY <1>2 DEF SaveCopy, OnBothFiles, Release, LockInv
<1>3. CASE RecordWindow
  <2> DEFINE p == [rev |-> todo.rev, deadline |-> windows + 1,
                   ledger |-> NewLedger(todo.rev),
                   network |-> todo.new["network"] # todo.raw["network"]]
  <2>1. p # None
    <3>1. todo \in Planned /\ windows \in Nat /\ windows < MaxWindows
      BY <1>3 DEF RecordWindow, TypeInv, TypeOK, Shape
    <3>2. p \in Pending
      BY <3>1, NewLedgerType, ConstantsAssumption
         DEF Planned, Pending, Deadline
    <3> HIDE DEF p
    <3> QED
      BY <3>2, NoneAssumption
  <2>2. st'.pending = p
    BY <1>t, <1>3 DEF RecordWindow, Persist, State
  <2> QED
    BY <2>1, <2>2 DEF LockInv
<1>4. CASE WriteConfig \/ Reload \/ RestoreConfig \/ ReloadBack
  BY <1>4 DEF WriteConfig, Reload, RestoreConfig, ReloadBack, LockInv
<1>5. ASSUME NEW r \in Revision, ConfirmKeep(r)
      PROVE  LockInv'
  BY <1>5 DEF ConfirmKeep, Release, LockInv
<1>6. CASE CloseRollback
  BY <1>6 DEF CloseRollback, Release, LockInv
<1>7. CASE DropCopy
  BY <1>7 DEF DropCopy, LockInv
<1>8. ASSUME NEW r \in Revision, ConfirmUnsafe(r)
      PROVE  LockInv'
  BY <1>8 DEF ConfirmUnsafe, LockInv
<1>9. CASE Clock
  BY <1>9 DEF Clock, DeadlinePasses, TimerFires, TimerCallback, StillWaits,
              Idle, engine, LockInv
<1>10. ASSUME NEW reboot \in BOOLEAN, Crash(reboot)
       PROVE  LockInv'
  BY <1>10 DEF Crash, LockInv
<1>11. ASSUME NEW mode \in {"on", "off"}, Restart(mode)
       PROVE  LockInv'
  BY <1>11 DEF Restart, LockAtStart, LockInv
<1>12. CASE Others
  BY <1>12 DEF Others, OtherOpen, OtherClose, PlaneWrite, TryAcquire, Release,
               engine, LockInv
<1>13. CASE UNCHANGED vars
  BY <1>13 DEF vars, engine, LockInv
<1> QED
  BY <1>1, <1>2, <1>3, <1>4, <1>5, <1>6, <1>7, <1>8, <1>9, <1>10, <1>11, <1>12,
     <1>13 DEF Next, EngineStep, Controller, Process

\* The write lock never outlives the engine's window: after any failure, and
\* whatever the other writers do, an engine at rest that holds the lock has a
\* pending apply (Apply's deferred release and releaseLocked cover every path).
THEOREM LockIsNotLeaked == Spec => []LockNotLeaked
<1>1. Init => LockInv
  BY FreeAssumption DEF Init, LockInv, Holder
<1>2. TypeInv /\ LockInv => LockNotLeaked
  BY DEF LockInv, LockNotLeaked, Idle
<1> QED
  BY TypeInit, TypeNext, LockNext, <1>1, <1>2, PTL DEF Spec

-----------------------------------------------------------------------------
(* The window's end. *)

\* A pending apply that the engine is not at work on has somebody who ends it:
\* its timer, or a function of a timer that takes it for its own.
WindowIsWatched ==
  Idle /\ st.pending # None =>
    timer = Armed(st) \/ \E c \in callbacks : StillWaits(c)

WatchInv ==
  /\ WindowIsWatched
  /\ pc \in {"copy", "record", "drop"} => st.pending = None

LEMMA WatchNext == TypeInv /\ WatchInv /\ [Next]_vars => WatchInv'
<1> SUFFICES ASSUME TypeInv, WatchInv, [Next]_vars
             PROVE  WatchInv'
  OBVIOUS
<1> USE DEF WatchInv, WindowIsWatched, Idle
<1>t. st \in State /\ disk \in State
  BY DEF TypeInv, TypeOK
<1>1. ASSUME NEW r \in Revision, ApplyNoop(r)
      PROVE  WatchInv'
  BY <1>1, <1>t, PendingAfter DEF ApplyNoop, Persist
<1>2. ASSUME NEW r \in Revision, ApplyBegin(r)
      PROVE  WatchInv'
  BY <1>2 DEF ApplyBegin
<1>3. CASE SaveCopy
  BY <1>3 DEF SaveCopy, OnBothFiles
<1>4. CASE RecordWindow \/ WriteConfig \/ RestoreConfig \/ ReloadBack
  BY <1>4 DEF RecordWindow, WriteConfig, RestoreConfig, ReloadBack, OnBothFiles,
              BeginRollback
<1>5. CASE Reload
  BY <1>5 DEF Reload, BeginRollback, Armed
<1>6. ASSUME NEW r \in Revision, ConfirmKeep(r)
      PROVE  WatchInv'
  BY <1>6, <1>t, PendingAfter DEF ConfirmKeep, Persist
<1>7. CASE DropCopy
  BY <1>7 DEF DropCopy, OnBothFiles
<1>8. ASSUME NEW r \in Revision, ConfirmUnsafe(r)
      PROVE  WatchInv'
  BY <1>8 DEF ConfirmUnsafe, BeginRollback
<1>9. ASSUME NEW d \in Deadline, DeadlinePasses(d)
      PROVE  WatchInv'
  BY <1>9 DEF DeadlinePasses, engine, Armed, StillWaits
<1>10. CASE TimerFires
  BY <1>10 DEF TimerFires, Armed, StillWaits
<1>11. ASSUME NEW c \in callbacks, TimerCallback(c)
       PROVE  WatchInv'
  BY <1>11 DEF TimerCallback, BeginRollback, Armed, StillWaits
<1>12. CASE CloseRollback
  BY <1>12, <1>t, PendingAfter DEF CloseRollback, Persist
<1>13. ASSUME NEW reboot \in BOOLEAN, Crash(reboot)
       PROVE  WatchInv'
  BY <1>13 DEF Crash
<1>14. ASSUME NEW mode \in {"on", "off"}, Restart(mode)
       PROVE  WatchInv'
  <2>1. pc = "idle"
    BY <1>14 DEF Restart, TypeInv, Shape
  <2> QED
    BY <1>14, <2>1 DEF Restart, BeginRollback, Armed
<1>15. CASE Others
  BY <1>15 DEF Others, OtherOpen, OtherClose, PlaneWrite, engine, Armed, StillWaits
<1>16. CASE UNCHANGED vars
  BY <1>16 DEF vars, engine, Armed, StillWaits
<1> QED
  BY <1>1, <1>2, <1>3, <1>4, <1>5, <1>6, <1>7, <1>8, <1>9, <1>10, <1>11, <1>12,
     <1>13, <1>14, <1>15, <1>16 DEF Next, EngineStep, Controller, Clock, Process

\* No pending apply is left without an end: whatever fails, crashes or races
\* with the timer, and with revisions used again too, the timer is armed for
\* that window, or a function it started waits for the mutex and takes the
\* window for its own.
THEOREM NoWindowIsStranded == Spec => []WindowIsWatched
<1>1. Init => WatchInv
  BY DEF Init, EmptyState, WatchInv, WindowIsWatched
<1>2. WatchInv => WindowIsWatched
  BY DEF WatchInv
<1> QED
  BY TypeInit, TypeNext, WatchNext, <1>1, <1>2, PTL DEF Spec

-----------------------------------------------------------------------------
(* The deadline.  Nothing is excluded here: neither failures, nor restarts *)
(* without the engine.                                                     *)

\* What knows a window: the states, the timer, and the functions it started.
Waiting == ({st.pending, disk.pending, timer} \ {None}) \cup callbacks

\* The timer's function goes by the revision alone: it is enough that no two
\* windows of one revision are known at the same time, because a revision that
\* may still be applied has none.
OneWindowEach == \A v, w \in Waiting : v.rev = w.rev => v.deadline = w.deadline
FreshIsUnknown == \A v \in Waiting : v.rev \notin fresh
PlansFresh == pc \in {"copy", "record"} => todo.rev \in fresh
CallbacksOverdue == \A c \in callbacks : c.deadline \in passed

OverdueInv ==
  /\ OneWindowEach /\ FreshIsUnknown /\ PlansFresh /\ CallbacksOverdue
  /\ NoEarlyRollback

\* Nothing new is known: every window that is was known before.
NothingNew ==
  /\ \A v \in Waiting' : \E w \in Waiting : v.rev = w.rev /\ v.deadline = w.deadline
  /\ UNCHANGED fresh

LEMMA KnownIsEnough ==
  ASSUME OneWindowEach, FreshIsUnknown, NothingNew
  PROVE  OneWindowEach' /\ FreshIsUnknown'
BY DEF OneWindowEach, FreshIsUnknown, NothingNew

LEMMA OverdueInit == Init => OverdueInv
BY DEF Init, EmptyState, OverdueInv, Waiting, OneWindowEach, FreshIsUnknown,
       PlansFresh, CallbacksOverdue, NoEarlyRollback

LEMMA OverdueNext ==
  ASSUME ~ReusesRevisions, TypeInv, OverdueInv, [Next]_vars
  PROVE  OverdueInv'
<1> USE DEF OverdueInv
<1>s. st \in State /\ disk \in State /\ TypeOK
  BY DEF TypeInv, TypeOK
<1>1. ASSUME NEW s \in State, Persist(s), UNCHANGED <<timer, callbacks, fresh>>,
             s.pending \in {None, st.pending}
      PROVE  NothingNew
  BY <1>1 DEF Persist, NothingNew, Waiting
<1>2. CASE RecordWindow
  <2> DEFINE w == [rev |-> todo.rev, deadline |-> windows + 1,
                   ledger |-> NewLedger(todo.rev),
                   network |-> todo.new["network"] # todo.raw["network"]]
             s == [st EXCEPT !.pending = w]
  <2>1. /\ pc = "record" /\ pc' = "write" /\ fresh' = fresh \ {todo.rev}
        /\ Persist(s) /\ UNCHANGED <<timer, callbacks, passed>>
    BY <1>2 DEF RecordWindow
  <2>2. s.pending = w /\ w.rev = todo.rev
    BY <1>s DEF State
  <2> HIDE DEF w, s
  <2>3. todo.rev \in fresh
    BY <2>1 DEF PlansFresh
  <2>4. \A v \in Waiting' : v = w \/ v \in Waiting
    BY <2>1, <2>2 DEF Persist, Waiting
  <2>5. \A v \in Waiting : v.rev # w.rev /\ v.rev \notin fresh
    BY <2>2, <2>3 DEF FreshIsUnknown
  <2>6. OneWindowEach' /\ FreshIsUnknown'
    BY <2>1, <2>2, <2>4, <2>5 DEF OneWindowEach, FreshIsUnknown
  <2> QED
    BY <2>1, <2>6 DEF PlansFresh, CallbacksOverdue, NoEarlyRollback
<1>3. ASSUME NEW r \in Revision, ApplyNoop(r)
      PROVE  OverdueInv'
  <2>1. Adopted(st, r) \in State /\ Adopted(st, r).pending = st.pending
    BY <1>s, AdoptedType, PendingAfter
  <2>2. NothingNew
    BY <1>1, <1>3, <2>1 DEF ApplyNoop
  <2> QED
    BY <1>3, <2>2, KnownIsEnough
       DEF ApplyNoop, Idle, PlansFresh, CallbacksOverdue, NoEarlyRollback
<1>4. ASSUME NEW r \in Revision, ApplyBegin(r)
      PROVE  OverdueInv'
  <2>1. Waiting' = Waiting /\ pc' = "copy" /\ todo'.rev \in fresh'
    BY <1>4 DEF ApplyBegin, Waiting, flash
  <2> QED
    BY <1>4, <2>1
       DEF ApplyBegin, OneWindowEach, FreshIsUnknown, PlansFresh,
           CallbacksOverdue, NoEarlyRollback
<1>5. CASE SaveCopy
  <2>1. Waiting' = Waiting /\ UNCHANGED <<fresh, callbacks, passed>>
    BY <1>5 DEF SaveCopy, Waiting
  <2>2. (pc' \in {"copy", "record"} /\ pc = "copy" /\ todo' = todo) \/ pc' = "idle"
    BY <1>5 DEF SaveCopy, OnBothFiles
  <2> QED
    BY <2>1, <2>2
       DEF OneWindowEach, FreshIsUnknown, PlansFresh, CallbacksOverdue,
           NoEarlyRollback
<1>6. CASE WriteConfig
  <2>1. /\ timer' \in {timer, None} /\ UNCHANGED <<st, disk, callbacks, fresh, passed>>
        /\ pc' \in {"write", "reload"} \/ (pc' = "restore" /\ why' = "write_failed")
    BY <1>6 DEF WriteConfig, OnBothFiles, BeginRollback
  <2>2. NothingNew
    BY <2>1 DEF NothingNew, Waiting
  <2> QED
    BY <2>1, <2>2, KnownIsEnough DEF PlansFresh, CallbacksOverdue, NoEarlyRollback
<1>7. CASE Reload
  <2>1. /\ timer' \in {Armed(st), None}
        /\ UNCHANGED <<st, disk, callbacks, fresh, passed>>
        /\ pc' = "idle" \/ (pc' = "restore" /\ why' = "reload_failed")
        /\ st.pending # None
    BY <1>7 DEF Reload, BeginRollback, flash, TypeInv, Shape
  <2>2. Armed(st).rev = st.pending.rev /\ Armed(st).deadline = st.pending.deadline
    BY DEF Armed
  <2>3. NothingNew
    BY <2>1, <2>2 DEF NothingNew, Waiting
  <2> QED
    BY <2>1, <2>3, KnownIsEnough DEF PlansFresh, CallbacksOverdue, NoEarlyRollback
<1>8. ASSUME NEW r \in Revision, ConfirmKeep(r)
      PROVE  OverdueInv'
  <2>1. Confirmed(st).pending = None /\ Confirmed(st) \in State /\ timer' = None
        /\ Persist(Confirmed(st)) /\ UNCHANGED <<callbacks, fresh, passed>>
        /\ pc' = "drop"
    BY <1>8, <1>s, PendingAfter, ConfirmedType DEF ConfirmKeep
  <2>2. NothingNew
    BY <2>1 DEF Persist, NothingNew, Waiting
  <2> QED
    BY <2>1, <2>2, KnownIsEnough DEF PlansFresh, CallbacksOverdue, NoEarlyRollback
<1>9. ASSUME NEW r \in Revision, ConfirmUnsafe(r)
      PROVE  OverdueInv'
  <2>1. /\ timer' = None /\ UNCHANGED <<st, disk, callbacks, fresh, passed>>
        /\ pc' = "restore" /\ why' = "unsafe"
    BY <1>9 DEF ConfirmUnsafe, BeginRollback, flash
  <2>2. NothingNew
    BY <2>1 DEF NothingNew, Waiting
  <2> QED
    BY <2>1, <2>2, KnownIsEnough DEF PlansFresh, CallbacksOverdue, NoEarlyRollback
<1>10. CASE DropCopy \/ RestoreConfig \/ ReloadBack
  <2>1. Waiting' = Waiting
        /\ UNCHANGED <<fresh, callbacks, passed, st, why>>
        /\ pc' \in {"restore", "reloadBack", "close", "drop", "idle"}
        /\ (pc' = "restore" => pc = "restore")
    BY <1>10
       DEF DropCopy, RestoreConfig, ReloadBack, OnBothFiles, Waiting, flash
  <2> QED
    BY <2>1
       DEF OneWindowEach, FreshIsUnknown, PlansFresh, CallbacksOverdue,
           NoEarlyRollback
<1>11. CASE CloseRollback
  <2>1. RolledBack(st).pending = None /\ RolledBack(st) \in State
    BY <1>11, <1>s, PendingAfter, RolledBackType
       DEF CloseRollback, TypeInv, Shape
  <2>2. NothingNew
    BY <1>1, <1>11, <2>1 DEF CloseRollback
  <2> QED
    BY <1>11, <2>2, KnownIsEnough
       DEF CloseRollback, PlansFresh, CallbacksOverdue, NoEarlyRollback
<1>12. ASSUME NEW d \in Deadline, DeadlinePasses(d)
       PROVE  OverdueInv'
  BY <1>12
     DEF DeadlinePasses, flash, engine, Waiting, OneWindowEach, FreshIsUnknown,
         PlansFresh, CallbacksOverdue, NoEarlyRollback
<1>13. CASE TimerFires
  <2>1. NothingNew
    BY <1>13 DEF TimerFires, flash, NothingNew, Waiting
  <2> QED
    BY <1>13, <2>1, KnownIsEnough
       DEF TimerFires, PlansFresh, CallbacksOverdue, NoEarlyRollback
<1>14. ASSUME NEW c \in callbacks, TimerCallback(c)
       PROVE  OverdueInv'
  <2>1. /\ callbacks' \subseteq callbacks /\ timer' \in {timer, None}
        /\ UNCHANGED <<st, disk, fresh, passed>> /\ pc' \in {"idle", "restore"}
    BY <1>14 DEF TimerCallback, Idle, BeginRollback, flash
  <2>2. NothingNew
    BY <2>1 DEF NothingNew, Waiting
  <2>3. pc' = "restore" => st.pending.deadline \in passed
    <3>1. SUFFICES ASSUME pc' = "restore" PROVE st.pending.deadline \in passed
      OBVIOUS
    <3>2. st.pending # None /\ st.pending.rev = c.rev
      BY <1>14, <3>1 DEF TimerCallback, Idle, StillWaits
    <3>3. st.pending \in Waiting /\ c \in Waiting
      BY <3>2 DEF Waiting
    <3> QED
      BY <3>2, <3>3 DEF OneWindowEach, CallbacksOverdue
  <2> QED
    BY <2>1, <2>2, <2>3, KnownIsEnough DEF PlansFresh, CallbacksOverdue, NoEarlyRollback
<1>15. ASSUME NEW reboot \in BOOLEAN, Crash(reboot)
       PROVE  OverdueInv'
  <2>1. /\ st'.pending = None /\ disk' = disk /\ timer' = None /\ callbacks' = {}
        /\ pc' = "idle" /\ fresh' = fresh
    BY <1>15 DEF Crash, EmptyState, flash
  <2>2. NothingNew
    BY <2>1 DEF NothingNew, Waiting
  <2> QED
    BY <2>1, <2>2, KnownIsEnough DEF PlansFresh, CallbacksOverdue, NoEarlyRollback
<1>16. ASSUME NEW mode \in {"on", "off"}, Restart(mode)
       PROVE  OverdueInv'
  <2>1. /\ st'.pending \in {disk.pending, None}
        /\ UNCHANGED <<disk, callbacks, fresh, passed>> /\ pc = "idle"
    BY <1>16 DEF Restart, EmptyState, flash, TypeInv, Shape
  <2>2. \/ UNCHANGED <<timer, pc>>
        \/ timer' = None /\ pc' = "restore" /\ st'.pending.deadline \in passed
        \/ timer' = Armed(st') /\ st'.pending # None /\ UNCHANGED pc
    BY <1>16 DEF Restart, BeginRollback, Overdue
  <2>3. Armed(st').rev = st'.pending.rev /\ Armed(st').deadline = st'.pending.deadline
    BY DEF Armed
  <2>4. NothingNew
    BY <2>1, <2>2, <2>3 DEF NothingNew, Waiting
  <2> QED
    BY <2>1, <2>2, <2>4, KnownIsEnough DEF PlansFresh, CallbacksOverdue, NoEarlyRollback
<1>17. CASE Others \/ UNCHANGED vars
  <2>1. UNCHANGED <<disk, st, timer, callbacks, pc, todo, why, fresh, passed>>
    BY <1>17
       DEF Others, OtherOpen, OtherClose, PlaneWrite, vars, flash, engine
  <2> QED
    BY <2>1
       DEF Waiting, OneWindowEach, FreshIsUnknown, PlansFresh, CallbacksOverdue,
           NoEarlyRollback
<1> QED
  BY <1>2, <1>3, <1>4, <1>5, <1>6, <1>7, <1>8, <1>9, <1>10, <1>11, <1>12, <1>13,
     <1>14, <1>15, <1>16, <1>17
     DEF Next, EngineStep, Controller, Clock, Process

\* The deadline rolls back only a window that is overdue, whatever fails, dies
\* or waits for the mutex meanwhile, if no revision is applied twice: the
\* timer's function compares the revision only (engine.go armLocked).
THEOREM RollbackIsDue ==
  ASSUME ~ReusesRevisions
  PROVE  Spec => []NoEarlyRollback
<1>1. TypeInv /\ OverdueInv /\ [Next]_vars => (TypeInv /\ OverdueInv)'
  BY TypeNext, OverdueNext
<1>2. OverdueInv => NoEarlyRollback
  BY DEF OverdueInv
<1> QED
  BY TypeInit, OverdueInit, <1>1, <1>2, PTL DEF Spec

-----------------------------------------------------------------------------
(* Safety. *)

Reliable == ~CanDisable /\ "persist" \notin MayFail /\ "restore" \notin MayFail

-----------------------------------------------------------------------------
(* The inductive invariant. *)

\* The engine's memory is what flash says, or the engine is not there.
Sync ==
  /\ up \in {"on", "down"}
  /\ up = "on" => st = disk
  /\ up = "down" => lock = Free

\* Who holds the lock says whose window is open, and conversely.
Locking ==
  /\ up = "on" => (lock = "groups" <=> pc \in {"copy", "record"}
                                         \/ disk.pending # None)
  /\ up = "on" => \A w \in {"plane", "update"} : lock = w <=> w \in open
  /\ WindowsNeverOverlap
  /\ pc \in {"copy", "record", "drop"} => disk.pending = None

\* How far the copies of an apply have come, and that an open window has both.
BackedUp ==
  /\ pc = "copy" /\ at = "network" =>
       copies["wireless"] = before["wireless"]
  /\ pc = "record" => \A f \in File : copies[f] = before[f]
  /\ SnapshotCoversWindow

\* What the apply found is what it plans from, and it keeps the others' part.
Planning ==
  /\ pc \in {"copy", "record"} => files = before
  /\ pc \in {"copy", "record", "write"} =>
       /\ todo.raw = before
       /\ \A f \in File : todo.new[f].other = before[f].other
  /\ disk.pending # None => \A f \in File : files[f].other = before[f].other

\* How far a rollback has come.
Restored ==
  /\ pc = "restore" /\ at = "network" =>
       files["wireless"] = before["wireless"]
  /\ pc \in {"reloadBack", "close"} => \A f \in File : files[f] = before[f]

SafetyInv == TypeInv /\ Sync /\ Locking /\ BackedUp /\ Planning /\ Restored

-----------------------------------------------------------------------------
(* The invariant's proof. *)

\* Saving does not fail: flash gets what memory gets.
LEMMA PersistSaves ==
  ASSUME Reliable, NEW s, Persist(s)
  PROVE  st' = s /\ disk' = s
BY DEF Reliable, Persist, Fails

LEMMA PlannedFilesKeepOthers ==
  ASSUME TypeOK, NEW r \in Revision
  PROVE  \A f \in File : PlannedFiles(r)[f].other = files[f].other
BY DEF PlannedFiles, TypeOK, Content

LEMMA SafetyInit == Init => SafetyInv
<1> SUFFICES ASSUME Init PROVE SafetyInv
  OBVIOUS
<1>1. disk.pending = None
  BY DEF Init, EmptyState
<1> QED
  BY <1>1, TypeInit, FreeAssumption
     DEF Init, SafetyInv, Sync, Locking, WindowsNeverOverlap, BackedUp,
         SnapshotCoversWindow, Planning, Restored, Holder

LEMMA SafetyNext ==
  ASSUME Reliable, SafetyInv, [Next]_vars
  PROVE  SafetyInv'
<1> USE Reliable, FreeAssumption DEF Holder
<1>t. TypeInv'
  BY TypeNext DEF SafetyInv
<1>s. st \in State /\ disk \in State /\ TypeOK
  BY DEF SafetyInv, TypeInv, TypeOK
<1>o. open \subseteq {"plane", "update"} /\ File = {"wireless", "network"}
  BY <1>s DEF TypeOK, File
<1>n. pc # "idle" => up = "on" /\ st = disk
  BY DEF SafetyInv, TypeInv, Shape, Sync
<1>1. ASSUME NEW r \in Revision, ApplyNoop(r)
      PROVE  SafetyInv'
  <2>1. disk' = Adopted(st, r) /\ st' = disk' /\ disk'.pending = disk.pending
    BY <1>1, <1>s, PersistSaves, PendingAfter
       DEF ApplyNoop, Idle, SafetyInv, Sync
  <2> QED
    BY <1>1, <1>t, <2>1
       DEF ApplyNoop, SafetyInv, Sync, Locking, WindowsNeverOverlap, BackedUp,
           SnapshotCoversWindow, Planning, Restored
<1>2. ASSUME NEW r \in Revision, ApplyBegin(r)
      PROVE  SafetyInv'
  <2>1. disk.pending = None /\ pc = "idle" /\ up = "on"
    BY <1>2 DEF ApplyBegin, Idle, SafetyInv, Sync
  <2>2. /\ todo'.raw = before' /\ before' = files
        /\ \A f \in File : todo'.new[f].other = before'[f].other
    BY <1>2, <1>s, PlannedFilesKeepOthers DEF ApplyBegin
  <2> QED
    BY <1>2, <1>t, <2>1, <2>2
       DEF ApplyBegin, TryAcquire, flash, SafetyInv, Sync, Locking,
           WindowsNeverOverlap, BackedUp, SnapshotCoversWindow, Planning,
           Restored
<1>3. CASE SaveCopy
  <2>1. pc = "copy" /\ disk.pending = None /\ up = "on" /\ lock = "groups"
    BY <1>3, <1>n DEF SaveCopy, SafetyInv, Locking
  <2>2. CASE copies' = [copies EXCEPT ![at] = todo.raw[at]]
             /\ OnBothFiles("record") /\ UNCHANGED <<lock, todo, failures>>
    <3>1. copies'[at] = before[at]
          /\ \A f \in File \ {at} : copies'[f] = copies[f]
      BY <1>s, <2>1, <2>2 DEF TypeOK, SafetyInv, Planning
    <3>2. pc' = "copy" /\ at' = "network" => at = "wireless"
      BY <2>2, <2>1 DEF OnBothFiles
    <3>3. pc' = "record" => at = "network"
      BY <1>s, <1>o, <2>2, <2>1 DEF OnBothFiles, TypeOK
    <3>4. pc' \in {"copy", "record"}
      BY <2>2, <2>1 DEF OnBothFiles
    <3>5. BackedUp'
      BY <1>3, <1>o, <2>1, <3>1, <3>2, <3>3
         DEF SaveCopy, SafetyInv, BackedUp, SnapshotCoversWindow
    <3> QED
      BY <1>3, <1>t, <2>1, <2>2, <3>4, <3>5
         DEF SaveCopy, SafetyInv, Sync, Locking, WindowsNeverOverlap, Planning,
             Restored
  <2>3. CASE Fails("copy") /\ Release("groups") /\ pc' = "idle"
             /\ at' = "wireless" /\ todo' = None /\ UNCHANGED copies
    BY <1>3, <1>t, <2>1, <2>3
       DEF SaveCopy, Release, SafetyInv, Sync, Locking, WindowsNeverOverlap,
           BackedUp, SnapshotCoversWindow, Planning, Restored
  <2> QED
    BY <1>3, <2>2, <2>3 DEF SaveCopy
<1>4. CASE RecordWindow
  <2>1. pc = "record" /\ pc' = "write" /\ up = "on" /\ lock = "groups"
    BY <1>4, <1>n DEF RecordWindow, SafetyInv, Locking
  <2>2. st' = disk' /\ disk'.pending # None
    <3>1. st' = disk'
      BY <1>4, PersistSaves DEF RecordWindow
    <3>2. st'.pending # None
      BY <1>t, <2>1 DEF TypeInv, Shape
    <3> QED
      BY <3>1, <3>2
  <2>3. open = {}
    BY <1>o, <2>1 DEF SafetyInv, Locking
  <2> QED
    BY <1>4, <1>t, <2>1, <2>2, <2>3
       DEF RecordWindow, SafetyInv, Sync, Locking, WindowsNeverOverlap,
           BackedUp, SnapshotCoversWindow, Planning, Restored
<1>5. CASE WriteConfig
  <2>1. pc = "write" /\ up = "on" /\ pc' \in {"write", "reload", "restore"}
    BY <1>5, <1>n DEF WriteConfig, OnBothFiles, BeginRollback
  <2>2. \A f \in File : files'[f].other = files[f].other
    BY <1>5, <1>s, <2>1, <1>n
       DEF WriteConfig, TypeOK, SafetyInv, TypeInv, Shape, Planning
  <2>3. pc' = "restore" => at' = "wireless"
    BY <1>5, <2>1 DEF WriteConfig, OnBothFiles, BeginRollback
  <2> QED
    BY <1>5, <1>t, <2>1, <2>2, <2>3
       DEF WriteConfig, SafetyInv, Sync, Locking, WindowsNeverOverlap,
           BackedUp, SnapshotCoversWindow, Planning, Restored
<1>6. CASE Reload
  <2>1. pc = "reload" /\ up = "on"
        /\ (pc' = "idle" \/ (pc' = "restore" /\ at' = "wireless"))
    BY <1>6, <1>n DEF Reload, BeginRollback
  <2> QED
    BY <1>6, <1>t, <2>1
       DEF Reload, flash, SafetyInv, Sync, Locking, WindowsNeverOverlap,
           BackedUp, SnapshotCoversWindow, Planning, Restored
<1>7. ASSUME NEW r \in Revision, ConfirmKeep(r)
      PROVE  SafetyInv'
  <2>1. /\ up = "on" /\ pc = "idle" /\ lock = "groups"
        /\ disk.pending # None /\ open = {}
    BY <1>7 DEF ConfirmKeep, Idle, SafetyInv, Sync, Locking, WindowsNeverOverlap
  <2>2. st' = disk' /\ disk'.pending = None
    BY <1>7, <1>s, PersistSaves, PendingAfter DEF ConfirmKeep
  <2>3. lock' = Free /\ pc' = "drop"
    BY <1>7, <2>1 DEF ConfirmKeep, Release
  <2> QED
    BY <1>7, <1>t, <2>1, <2>2, <2>3
       DEF ConfirmKeep, SafetyInv, Sync, Locking, WindowsNeverOverlap,
           BackedUp, SnapshotCoversWindow, Planning, Restored
<1>8. CASE DropCopy
  <2>1. pc = "drop" /\ up = "on" /\ disk.pending = None
    BY <1>8, <1>n DEF DropCopy, SafetyInv, Locking
  <2>2. pc' \in {"drop", "idle"}
    BY <1>8 DEF DropCopy, OnBothFiles
  <2> QED
    BY <1>8, <1>t, <2>1, <2>2
       DEF DropCopy, SafetyInv, Sync, Locking, WindowsNeverOverlap,
           BackedUp, SnapshotCoversWindow, Planning, Restored
<1>9. ASSUME NEW r \in Revision, ConfirmUnsafe(r)
      PROVE  SafetyInv'
  BY <1>9, <1>t
     DEF ConfirmUnsafe, Idle, BeginRollback, flash, SafetyInv, Sync, Locking,
         WindowsNeverOverlap, BackedUp, SnapshotCoversWindow, Planning, Restored
<1>10. ASSUME NEW d \in Deadline, DeadlinePasses(d)
       PROVE  SafetyInv'
  BY <1>10, <1>t
     DEF DeadlinePasses, flash, engine, SafetyInv, Sync, Locking,
         WindowsNeverOverlap, BackedUp, SnapshotCoversWindow, Planning, Restored
<1>11. CASE TimerFires
  BY <1>11, <1>t
     DEF TimerFires, flash, SafetyInv, Sync, Locking, WindowsNeverOverlap,
         BackedUp, SnapshotCoversWindow, Planning, Restored
<1>12. ASSUME NEW c \in callbacks, TimerCallback(c)
       PROVE  SafetyInv'
  BY <1>12, <1>t
     DEF TimerCallback, Idle, BeginRollback, flash, SafetyInv, Sync, Locking,
         WindowsNeverOverlap, BackedUp, SnapshotCoversWindow, Planning, Restored
<1>13. CASE RestoreConfig
  <2>1. pc = "restore" /\ up = "on" /\ disk.pending # None
    BY <1>13, <1>n DEF RestoreConfig, SafetyInv, TypeInv, Shape
  <2>2. copies[at] = before[at] /\ copies[at] # None
    BY <1>s, <2>1, NoneAssumption
       DEF TypeOK, SafetyInv, BackedUp, SnapshotCoversWindow
  <2>3. files' = [files EXCEPT ![at] = before[at]]
    BY <1>13, <2>2 DEF RestoreConfig, Reliable, Fails
  <2>4. files'[at] = before[at]
        /\ \A f \in File \ {at} : files'[f] = files[f]
    BY <1>s, <2>3 DEF TypeOK
  <2>5. pc' \in {"restore", "reloadBack"}
        /\ (pc' = "restore" /\ at' = "network" => at = "wireless")
        /\ (pc' = "reloadBack" => at = "network")
    BY <1>13, <1>s, <1>o, <2>1 DEF RestoreConfig, OnBothFiles, TypeOK
  <2>6. Restored'
    BY <1>13, <1>o, <2>1, <2>4, <2>5 DEF RestoreConfig, SafetyInv, Restored
  <2>7. \A f \in File : files'[f].other = before[f].other
    BY <1>o, <2>1, <2>4 DEF SafetyInv, Planning
  <2> QED
    BY <1>13, <1>t, <2>1, <2>5, <2>6, <2>7
       DEF RestoreConfig, SafetyInv, Sync, Locking, WindowsNeverOverlap,
           BackedUp, SnapshotCoversWindow, Planning
<1>14. CASE ReloadBack
  BY <1>14, <1>t, <1>n
     DEF ReloadBack, flash, SafetyInv, Sync, Locking, WindowsNeverOverlap,
         BackedUp, SnapshotCoversWindow, Planning, Restored
<1>15. CASE CloseRollback
  <2>1. /\ up = "on" /\ pc = "close" /\ disk.pending # None
        /\ lock = "groups" /\ open = {}
    BY <1>15, <1>n
       DEF CloseRollback, SafetyInv, TypeInv, Shape, Locking, WindowsNeverOverlap
  <2>2. st' = disk' /\ disk'.pending = None
    BY <1>15, <1>s, PersistSaves, PendingAfter DEF CloseRollback
  <2>3. lock' = Free /\ pc' = "idle"
    BY <1>15, <2>1 DEF CloseRollback, Release
  <2> QED
    BY <1>15, <1>t, <2>1, <2>2, <2>3
       DEF CloseRollback, SafetyInv, Sync, Locking, WindowsNeverOverlap,
           BackedUp, SnapshotCoversWindow, Planning, Restored
<1>16. ASSUME NEW reboot \in BOOLEAN, Crash(reboot)
       PROVE  SafetyInv'
  BY <1>16, <1>t
     DEF Crash, flash, SafetyInv, Sync, Locking, WindowsNeverOverlap, BackedUp,
         SnapshotCoversWindow, Planning, Restored
<1>17. CASE Restart("on")
  <2>1. pc = "idle" /\ st' = disk /\ disk' = disk /\ up' = "on"
    BY <1>17 DEF Restart, flash, SafetyInv, TypeInv, Shape
  <2>2. pc' = "idle" \/ (pc' = "restore" /\ at' = "wireless")
    BY <1>17, <2>1 DEF Restart, BeginRollback
  <2>3. lock' = LockAtStart(disk) /\ UNCHANGED open
    BY <1>17, <2>1 DEF Restart
  <2>4. Locking'
    BY <1>o, <2>1, <2>2, <2>3
       DEF LockAtStart, SafetyInv, Locking, WindowsNeverOverlap
  <2> QED
    BY <1>17, <1>t, <2>1, <2>2, <2>4
       DEF Restart, flash, SafetyInv, Sync, BackedUp, SnapshotCoversWindow,
           Planning, Restored
<1>18. ASSUME NEW w \in {"plane", "update"}, OtherOpen(w)
       PROVE  SafetyInv'
  <2>1. up = "on" /\ lock = Free /\ lock' = w /\ open' = open \cup {w}
    BY <1>18 DEF OtherOpen, TryAcquire, SafetyInv, Sync
  <2>2. disk.pending = None /\ pc \notin {"copy", "record"} /\ open = {}
    BY <1>o, <2>1 DEF SafetyInv, Locking
  <2> QED
    BY <1>18, <1>t, <2>1, <2>2
       DEF OtherOpen, flash, engine, SafetyInv, Sync, Locking,
           WindowsNeverOverlap, BackedUp, SnapshotCoversWindow, Planning,
           Restored
<1>19. ASSUME NEW w \in {"plane", "update"}, OtherClose(w)
       PROVE  SafetyInv'
  <2>1. up = "on" /\ w \in open /\ open' = open \ {w} /\ lock = w
    BY <1>19 DEF OtherClose, SafetyInv, Sync, Locking
  <2>2. lock' = Free /\ open = {w} /\ open' = {}
    BY <1>19, <2>1
       DEF OtherClose, Release, SafetyInv, Locking, WindowsNeverOverlap
  <2> QED
    BY <1>19, <1>t, <2>1, <2>2
       DEF OtherClose, flash, engine, SafetyInv, Sync, Locking,
           WindowsNeverOverlap, BackedUp, SnapshotCoversWindow, Planning,
           Restored
<1>20. ASSUME NEW f \in File, PlaneWrite(f)
       PROVE  SafetyInv'
  <2>1. up = "on" /\ lock = "plane" /\ disk.pending = None
    BY <1>20 DEF PlaneWrite, SafetyInv, Sync, Locking, WindowsNeverOverlap
  <2>2. pc \in {"idle", "drop"}
    BY <1>s, <1>n, <2>1
       DEF TypeOK, PC, SafetyInv, TypeInv, Shape, Locking
  <2> QED
    BY <1>20, <1>t, <2>1, <2>2
       DEF PlaneWrite, engine, SafetyInv, Sync, Locking, WindowsNeverOverlap,
           BackedUp, SnapshotCoversWindow, Planning, Restored
<1>21. CASE UNCHANGED vars
  BY <1>21, <1>t
     DEF vars, flash, engine, counters, SafetyInv, Sync, Locking,
         WindowsNeverOverlap, BackedUp, SnapshotCoversWindow, Planning, Restored
<1> QED
  BY <1>1, <1>2, <1>3, <1>4, <1>5, <1>6, <1>7, <1>8, <1>9, <1>10, <1>11, <1>12,
     <1>13, <1>14, <1>15, <1>16, <1>17, <1>18, <1>19, <1>20, <1>21
     DEF Next, EngineStep, Controller, Clock, Process, Others, Reliable
-----------------------------------------------------------------------------
(* What follows from it. *)

LEMMA SafetyHolds ==
  ASSUME Reliable
  PROVE  Spec => []SafetyInv
<1>1. SafetyInv /\ [Next]_vars => SafetyInv'
  BY SafetyNext
<1> QED
  BY SafetyInit, <1>1, PTL DEF Spec

\* While an apply waits for its confirm the lock is the engine's: no other
\* writer gets in between, across restarts (engine.go Apply, Start).
THEOREM PendingHoldsLock ==
  ASSUME Reliable
  PROVE  Spec => []LockHeldWhilePending
<1>1. SafetyInv => LockHeldWhilePending
  BY DEF SafetyInv, Sync, Locking, LockHeldWhilePending
<1> QED
  BY SafetyHolds, <1>1, PTL

\* Two writers never have a window at the same time, whatever crashes in
\* between: what applylock's package comment promises.
THEOREM OneWindow ==
  ASSUME Reliable
  PROVE  Spec => []WindowsNeverOverlap
<1>1. SafetyInv => WindowsNeverOverlap
  BY DEF SafetyInv, Locking
<1> QED
  BY SafetyHolds, <1>1, PTL

\* A recorded window always has the two copies that undo it, exact: the order
\* copies, record, write of Apply and record, remove of Confirm is enough.
THEOREM CopiesCoverWindow ==
  ASSUME Reliable
  PROVE  Spec => []SnapshotCoversWindow
<1>1. SafetyInv => SnapshotCoversWindow
  BY DEF SafetyInv, BackedUp
<1> QED
  BY SafetyHolds, <1>1, PTL

\* A rollback, begun by the timer, a failed step, an unsafe confirm or a
\* restart, and cut short by any number of crashes, closes its window over
\* the files the apply found.
THEOREM RollbackIsExact ==
  ASSUME Reliable
  PROVE  Spec => []RollbackRestores
<1>1. SafetyInv => RollbackRestores
  BY DEF SafetyInv, Restored, RollbackRestores
<1> QED
  BY SafetyHolds, <1>1, PTL

\* The engine never takes back what another writer wrote, although a rollback
\* replaces whole files.
THEOREM OthersAreSafe ==
  ASSUME Reliable
  PROVE  Spec => OthersWritesSurvive
<1>1. SafetyInv /\ [Next]_vars =>
        [\A f \in File : files'[f].other >= files[f].other]_files
  <2> SUFFICES ASSUME SafetyInv, Next, files' # files
               PROVE  \A f \in File : files'[f].other >= files[f].other
    BY DEF vars, flash
  <2> USE Reliable
  <2>0. files \in [File -> [own : SUBSET Section, other : Nat]]
    BY DEF SafetyInv, TypeInv, TypeOK, Content
  <2>1. CASE WriteConfig
    <3>1. files' = [files EXCEPT ![at] = todo.new[at]] /\ pc = "write"
      BY <2>1 DEF WriteConfig
    <3>2. disk.pending # None
      BY <3>1 DEF SafetyInv, TypeInv, Shape, Sync
    <3>3. \A f \in File : files'[f].other = files[f].other
      BY <2>0, <3>1, <3>2 DEF SafetyInv, TypeInv, TypeOK, Planning
    <3> QED
      BY <2>0, <3>3
  <2>2. CASE RestoreConfig
    <3>1. files' = [files EXCEPT ![at] = copies[at]] /\ pc = "restore"
      BY <2>2 DEF RestoreConfig
    <3>2. disk.pending # None
      BY <3>1 DEF SafetyInv, TypeInv, Shape, Sync
    <3>3. \A f \in File : files'[f].other = files[f].other
      BY <2>0, <3>1, <3>2
         DEF SafetyInv, TypeInv, TypeOK, BackedUp, SnapshotCoversWindow, Planning
    <3> QED
      BY <2>0, <3>3
  <2>3. ASSUME NEW f \in File, PlaneWrite(f)
        PROVE  \A g \in File : files'[g].other >= files[g].other
    <3>1. files' = [files EXCEPT ![f].other = @ + 1]
      BY <2>3 DEF PlaneWrite
    <3>2. \A g \in File : files[g].other \in Nat
      BY <2>0
    <3>3. \A g \in File : files'[g].other \in {files[g].other, files[g].other + 1}
      BY <2>0, <3>1
    <3> QED
      BY <3>2, <3>3
  <2>4. WriteConfig \/ RestoreConfig \/ \E f \in File : PlaneWrite(f)
    BY DEF Next, EngineStep, Controller, Clock, Process, Others, ApplyNoop,
           ApplyBegin, SaveCopy, RecordWindow, Reload, ConfirmKeep, DropCopy,
           ConfirmUnsafe, DeadlinePasses, TimerFires, TimerCallback,
           ReloadBack, CloseRollback, Crash, Restart, OtherOpen, OtherClose,
           flash
  <2> QED
    BY <2>1, <2>2, <2>3, <2>4
<1>2. Spec => [][Next]_vars
  BY PTL DEF Spec
<1> QED
  BY SafetyHolds, <1>1, <1>2, PTL DEF OthersWritesSurvive

-----------------------------------------------------------------------------
(* The refinement. *)

LEMMA WindowInit == Init => Window!Init
BY DEF Init, EmptyState, Window!Init

LEMMA WindowStep ==
  ASSUME Reliable, SafetyInv, [Next]_vars
  PROVE  [Window!Next]_<<files, copies, disk.pending, disk.applied,
                         disk.lastRollback>>
<1> USE Reliable
<1>s. st \in State /\ disk \in State /\ TypeOK
  BY DEF SafetyInv, TypeInv, TypeOK
<1>n. pc # "idle" => up = "on" /\ st = disk
  BY DEF SafetyInv, TypeInv, Shape, Sync
<1>1. ASSUME NEW r \in Revision, ApplyNoop(r)
      PROVE  Window!Adopt
  <2>1. disk' = Adopted(disk, r) /\ disk.pending = None
    BY <1>1, PersistSaves DEF ApplyNoop, Idle, SafetyInv, Sync
  <2>2. disk'.pending = disk.pending /\ disk'.lastRollback = disk.lastRollback
    BY <1>s, <2>1 DEF Adopted, State
  <2> QED
    BY <1>1, <2>1, <2>2 DEF ApplyNoop, Window!Adopt
<1>2. CASE SaveCopy \/ DropCopy
  <2>1. disk.pending = None /\ UNCHANGED <<files, disk>>
    BY <1>2, <1>n DEF SaveCopy, DropCopy, SafetyInv, Locking
  <2> QED
    BY <2>1 DEF Window!Next, Window!Prepare
<1>3. CASE RecordWindow
  <2>1. pc = "record" /\ disk.pending = None
    BY <1>3, <1>n DEF RecordWindow, SafetyInv, Locking
  <2>2. disk'.pending # None
    <3>1. TypeInv'
      BY TypeNext DEF SafetyInv
    <3> QED
      BY <1>3, <3>1, PersistSaves DEF RecordWindow, TypeInv, Shape
  <2>3. UNCHANGED <<disk.applied, disk.lastRollback>>
    BY <1>3, <1>s, <1>n, <2>1, PersistSaves DEF RecordWindow, State
  <2>4. \A f \in File : copies[f] = files[f]
    BY <2>1 DEF SafetyInv, BackedUp, Planning
  <2>5. Window!Open
    BY <1>3, <2>1, <2>2, <2>3, <2>4 DEF RecordWindow, Window!Open
  <2> QED
    BY <2>5 DEF Window!Next
<1>4. CASE WriteConfig
  <2>1. pc = "write" /\ disk.pending # None
    BY <1>4, <1>n DEF WriteConfig, SafetyInv, TypeInv, Shape
  <2>2. \A f \in File : files'[f].other = files[f].other
    BY <1>4, <1>s, <2>1 DEF WriteConfig, TypeOK, SafetyInv, Planning
  <2>3. Window!Change
    BY <1>4, <2>1, <2>2 DEF WriteConfig, Window!Change
  <2> QED
    BY <2>3 DEF Window!Next
<1>5. CASE RestoreConfig
  <2>1. pc = "restore" /\ disk.pending # None
    BY <1>5, <1>n DEF RestoreConfig, SafetyInv, TypeInv, Shape
  <2>2. \A f \in File : files'[f].other = files[f].other
    BY <1>5, <1>s, <2>1
       DEF RestoreConfig, TypeOK, SafetyInv, BackedUp, SnapshotCoversWindow,
           Planning
  <2>3. Window!Change
    BY <1>5, <2>1, <2>2 DEF RestoreConfig, Window!Change
  <2> QED
    BY <2>3 DEF Window!Next
<1>6. ASSUME NEW r \in Revision, ConfirmKeep(r)
      PROVE  Window!Keep
  <2>1. disk' = Confirmed(disk) /\ disk.pending # None
    BY <1>6, PersistSaves DEF ConfirmKeep, Idle, SafetyInv, Sync
  <2>2. disk'.pending = None /\ disk'.applied = disk.pending.rev
        /\ disk'.lastRollback = disk.lastRollback
    BY <1>s, <2>1 DEF Confirmed, State
  <2> QED
    BY <1>6, <2>1, <2>2 DEF ConfirmKeep, Window!Keep
<1>7. CASE CloseRollback
  <2>1. disk' = RolledBack(disk) /\ disk.pending # None /\ pc = "close"
    BY <1>7, <1>n, PersistSaves DEF CloseRollback, SafetyInv, TypeInv, Shape
  <2>2. /\ disk'.pending = None /\ disk'.applied = disk.applied
        /\ disk'.lastRollback = [rev |-> disk.pending.rev,
                                 deadline |-> disk.pending.deadline]
    BY <1>s, <2>1 DEF RolledBack, State
  <2>3. \A f \in File : files[f] = copies[f]
    BY <2>1 DEF SafetyInv, Restored, BackedUp, SnapshotCoversWindow
  <2>4. Window!Restore
    BY <1>7, <2>1, <2>2, <2>3 DEF CloseRollback, Window!Restore
  <2> QED
    BY <2>4 DEF Window!Next
<1>8. ASSUME NEW f \in File, PlaneWrite(f)
      PROVE  Window!OtherWriter
  <2>1. disk.pending = None
    BY <1>8 DEF PlaneWrite, SafetyInv, Locking, WindowsNeverOverlap
  <2>2. \A g \in File : files'[g].own = files[g].own
    BY <1>8, <1>s DEF PlaneWrite, TypeOK, Content
  <2> QED
    BY <1>8, <2>1, <2>2 DEF PlaneWrite, Window!OtherWriter
<1>9. CASE UNCHANGED flash
  BY <1>9 DEF flash
<1>10. \/ SaveCopy \/ DropCopy \/ RecordWindow \/ WriteConfig
       \/ RestoreConfig \/ CloseRollback
       \/ \E r \in Revision : ApplyNoop(r) \/ ConfirmKeep(r)
       \/ \E f \in File : PlaneWrite(f)
       \/ UNCHANGED flash
  BY DEF vars, Next, EngineStep, Controller, Clock, Process, Others, ApplyBegin,
         Reload, ConfirmUnsafe, DeadlinePasses, TimerFires, TimerCallback,
         ReloadBack, Crash, Restart, OtherOpen, OtherClose, flash
<1> QED
  BY <1>1, <1>2, <1>3, <1>4, <1>5, <1>6, <1>7, <1>8, <1>9, <1>10 DEF Window!Next

\* The engine implements the confirm window: over its snapshots of flash it
\* only ever opens a window over an exact copy, keeps it, or restores it.
THEOREM EngineImplementsWindow ==
  ASSUME Reliable
  PROVE  Spec => ImplementsWindow
<1>1. SafetyInv /\ [Next]_vars =>
        [Window!Next]_<<files, copies, disk.pending, disk.applied,
                        disk.lastRollback>>
  BY WindowStep
<1>2. Spec => []SafetyInv /\ [][Next]_vars
  BY SafetyHolds, PTL DEF Spec
<1> QED
  BY WindowInit, <1>1, <1>2, PTL
     DEF Spec, ImplementsWindow, Window!Spec, Window!wvars
-----------------------------------------------------------------------------
(* The ledger and what runs, without a crash: one between the two writes   *)
(* of an apply leaves sections of the apply before in no ledger.           *)

NoCrash == Reliable /\ MaxCrashes = 0

\* How far the writes of an apply have come, and what a pending one left.
Written ==
  /\ pc \in {"copy", "record", "write", "reload"} =>
       \A f \in File : todo.new[f].own = Target[todo.rev][f]
  /\ pc = "record" => at = "wireless"
  /\ pc \in {"write", "reload"} => st.pending.rev = todo.rev
  /\ pc = "write" /\ at = "network" => files["wireless"] = todo.new["wireless"]
  /\ pc = "reload" => \A f \in File : files[f] = todo.new[f]
  /\ pc = "idle" /\ st.pending # None =>
       \A f \in File : files[f].own = Target[st.pending.rev][f]

\* The ledger has what the files had before the pending apply, which has its own.
Covered ==
  /\ st.pending # None => st.pending.ledger = NewLedger(st.pending.rev)
  /\ st.pending = None /\ st.listed => \A f \in File : files[f].own \subseteq st.ledger
  /\ st.pending # None /\ st.listed => \A f \in File : before[f].own \subseteq st.ledger

LedgerInv == up = "on" /\ Written /\ Covered

LEMMA TargetIsRecorded ==
  ASSUME NEW r \in Revision, NEW f \in File
  PROVE  Target[r][f] \subseteq NewLedger(r)
BY DEF NewLedger

\* What the ledger covers is dropped whole: the plan has the revision's alone.
LEMMA PlannedIsTarget ==
  ASSUME TypeInv, Covered, st.pending = None, NEW r \in Revision
  PROVE  \A f \in File : PlannedFiles(r)[f].own = Target[r][f]
<1> SUFFICES ASSUME NEW f \in File
             PROVE  PlannedFiles(r)[f].own = Target[r][f]
  OBVIOUS
<1>1. Rest(f) = {}
  BY DEF Covered, Rest
<1>2. files[f] \in Content
  BY DEF TypeInv, TypeOK
<1> QED
  BY <1>1, <1>2 DEF PlannedFiles, Content

LEMMA LedgerInit == Init => LedgerInv
BY DEF Init, EmptyState, LedgerInv, Written, Covered

LEMMA LedgerNext ==
  ASSUME NoCrash, SafetyInv, LedgerInv, [Next]_vars
  PROVE  LedgerInv'
<1> USE DEF LedgerInv, NoCrash
<1>s. st \in State /\ disk \in State /\ TypeOK /\ File = {"wireless", "network"}
  BY DEF SafetyInv, TypeInv, TypeOK, File
<1>t. TypeInv /\ st = disk
  BY DEF SafetyInv, Sync
<1>1. ASSUME NEW r \in Revision, ApplyNoop(r)
      PROVE  LedgerInv'
  <2>1. /\ st' = Adopted(st, r) /\ st.pending = None /\ files' = files
        /\ PlannedFiles(r) = files /\ pc = "idle" /\ pc' = pc /\ up' = up
    BY <1>1, PersistSaves DEF ApplyNoop, Idle
  <2>2. st'.pending = None /\ st'.ledger = NewLedger(r)
    BY <1>s, <2>1 DEF Adopted, State
  <2>3. \A f \in File : files[f].own \subseteq NewLedger(r)
    BY <1>t, <2>1, PlannedIsTarget, TargetIsRecorded
  <2> QED
    BY <2>1, <2>2, <2>3 DEF Written, Covered
<1>2. ASSUME NEW r \in Revision, ApplyBegin(r)
      PROVE  LedgerInv'
  <2>1. /\ todo'.new = PlannedFiles(r) /\ todo'.rev = r /\ pc' = "copy"
        /\ st.pending = None /\ UNCHANGED <<up, st, files>>
    BY <1>2 DEF ApplyBegin, flash
  <2> QED
    BY <1>t, <2>1, PlannedIsTarget DEF Written, Covered
<1>3. CASE SaveCopy
  <2>1. /\ pc = "copy" /\ UNCHANGED <<up, st, files>> /\ st.pending = None
        /\ \/ pc' \in {"copy", "record"} /\ todo' = todo
           \/ pc' = "idle"
        /\ pc' = "record" => at' = "wireless"
    BY <1>3, <1>s, <1>t DEF SaveCopy, OnBothFiles, SafetyInv, Locking
  <2> QED
    BY <2>1 DEF Written, Covered
<1>4. CASE RecordWindow
  <2> DEFINE w == [rev |-> todo.rev, deadline |-> windows + 1,
                   ledger |-> NewLedger(todo.rev),
                   network |-> todo.new["network"] # todo.raw["network"]]
  <2>1. /\ pc = "record" /\ pc' = "write" /\ st' = [st EXCEPT !.pending = w]
        /\ UNCHANGED <<up, files, todo, at, before>>
    BY <1>4, PersistSaves DEF RecordWindow
  <2>2. /\ st'.pending = w /\ w.rev = todo.rev /\ w.ledger = NewLedger(todo.rev)
        /\ st'.listed = st.listed /\ st'.ledger = st.ledger
    BY <1>s, <2>1 DEF State
  <2>3. st'.pending # None
    <3>1. TypeInv'
      BY <1>t, TypeNext
    <3> QED
      BY <2>1, <3>1 DEF TypeInv, Shape
  <2> HIDE DEF w
  <2>4. files = before /\ at = "wireless" /\ st.pending = None
    BY <1>t, <2>1 DEF SafetyInv, Planning, Locking, Written
  <2> QED
    BY <2>1, <2>2, <2>3, <2>4 DEF Written, Covered
<1>5. CASE WriteConfig
  <2>1. /\ pc = "write" /\ st.pending # None
        /\ UNCHANGED <<up, st, todo, before>>
    BY <1>5, <1>t DEF WriteConfig, TypeInv, Shape
  <2>2. CASE pc' = "restore"
    BY <2>1, <2>2 DEF Written, Covered
  <2>3. CASE pc' # "restore"
    <3>1. files' = [files EXCEPT ![at] = todo.new[at]] /\ OnBothFiles("reload")
      BY <1>5, <2>3 DEF WriteConfig, BeginRollback
    <3>2. files'[at] = todo.new[at] /\ \A f \in File \ {at} : files'[f] = files[f]
      BY <1>s, <3>1 DEF TypeOK
    <3>3. \/ at = "wireless" /\ at' = "network" /\ pc' = "write"
          \/ at = "network" /\ at' = "wireless" /\ pc' = "reload"
      BY <1>s, <2>1, <3>1 DEF OnBothFiles, TypeOK
    <3> QED
      BY <1>s, <2>1, <3>2, <3>3 DEF Written, Covered
  <2> QED
    BY <2>2, <2>3
<1>6. CASE Reload
  <2>1. /\ pc = "reload" /\ pc' \in {"idle", "restore"} /\ st.pending # None
        /\ UNCHANGED <<up, st, files, before>>
    BY <1>6, <1>t DEF Reload, BeginRollback, flash, TypeInv, Shape
  <2> QED
    BY <2>1 DEF Written, Covered
<1>7. ASSUME NEW r \in Revision, ConfirmKeep(r)
      PROVE  LedgerInv'
  <2>1. /\ st' = Confirmed(st) /\ st.pending # None /\ pc = "idle" /\ pc' = "drop"
        /\ UNCHANGED <<up, files>>
    BY <1>7, PersistSaves DEF ConfirmKeep, Idle
  <2>2. st'.pending = None /\ st'.ledger = NewLedger(st.pending.rev)
    BY <1>s, <2>1 DEF Confirmed, State, Covered
  <2>3. st.pending.rev \in Revision
    BY <1>s, <2>1 DEF State, Pending
  <2>4. \A f \in File : files[f].own \subseteq NewLedger(st.pending.rev)
    BY <2>1, <2>3, TargetIsRecorded DEF Written
  <2> QED
    BY <2>1, <2>2, <2>4 DEF Written, Covered
<1>8. CASE DropCopy
  <2>1. pc = "drop" /\ st.pending = None /\ pc' \in {"drop", "idle"}
        /\ UNCHANGED <<up, st, files>>
    BY <1>8, <1>t DEF DropCopy, OnBothFiles, SafetyInv, Locking
  <2> QED
    BY <2>1 DEF Written, Covered
<1>9. CASE \/ \E r \in Revision : ConfirmUnsafe(r)
           \/ \E c \in callbacks : TimerCallback(c)
  <2>1. pc = "idle" /\ pc' \in {"idle", "restore"} /\ UNCHANGED <<up, st, files, before>>
    BY <1>9 DEF ConfirmUnsafe, TimerCallback, Idle, BeginRollback, flash
  <2> QED
    BY <2>1 DEF Written, Covered
<1>10. CASE RestoreConfig \/ ReloadBack
  <2>1. /\ pc \in {"restore", "reloadBack"} /\ pc' \in {"restore", "reloadBack", "close"}
        /\ UNCHANGED <<up, st, before>> /\ st.pending # None
    BY <1>10, <1>t
       DEF RestoreConfig, ReloadBack, OnBothFiles, flash, TypeInv, Shape
  <2> QED
    BY <2>1 DEF Written, Covered
<1>11. CASE CloseRollback
  <2>1. /\ pc = "close" /\ pc' = "idle" /\ st' = RolledBack(st) /\ st.pending # None
        /\ UNCHANGED <<up, files>>
    BY <1>11, <1>t, PersistSaves DEF CloseRollback, TypeInv, Shape
  <2>2. st'.pending = None /\ st'.listed = st.listed /\ st'.ledger = st.ledger
    BY <1>s, <2>1 DEF RolledBack, State
  <2>3. \A f \in File : files[f] = before[f]
    BY <2>1 DEF SafetyInv, Restored
  <2> QED
    BY <2>1, <2>2, <2>3 DEF Written, Covered
<1>12. ASSUME NEW f \in File, PlaneWrite(f)
       PROVE  LedgerInv'
  <2>1. st.pending = None /\ UNCHANGED <<up, st, pc, todo>>
    BY <1>12, <1>t DEF PlaneWrite, engine, SafetyInv, Locking, WindowsNeverOverlap
  <2>2. \A g \in File : files'[g].own = files[g].own
    BY <1>12, <1>s DEF PlaneWrite, TypeOK, Content
  <2>3. pc \in {"idle", "drop"}
    BY <1>12, <1>s, <2>1
       DEF PlaneWrite, TypeOK, PC, SafetyInv, TypeInv, Shape, Sync, Locking
  <2> QED
    BY <2>1, <2>2, <2>3 DEF Written, Covered
<1>13. CASE \/ \E d \in Deadline : DeadlinePasses(d)
            \/ TimerFires
            \/ \E w \in {"plane", "update"} : OtherOpen(w) \/ OtherClose(w)
            \/ UNCHANGED vars
  <2>1. UNCHANGED <<up, st, pc, at, todo, files, before>>
    BY <1>13
       DEF DeadlinePasses, TimerFires, OtherOpen, OtherClose, vars, flash, engine
  <2> QED
    BY <2>1 DEF Written, Covered
<1>14. ~(\E reboot \in BOOLEAN : Crash(reboot))
       /\ ~(\E mode \in {"on", "off"} : Restart(mode))
  BY <1>s DEF Crash, Restart, TypeOK
<1> QED
  BY <1>1, <1>2, <1>3, <1>4, <1>5, <1>6, <1>7, <1>8, <1>9, <1>10, <1>11, <1>12,
     <1>13, <1>14
     DEF Next, EngineStep, Controller, Clock, Process, Others

LEMMA LedgerHolds ==
  ASSUME NoCrash
  PROVE  Spec => [](SafetyInv /\ LedgerInv)
<1>1. SafetyInv /\ LedgerInv /\ [Next]_vars => (SafetyInv /\ LedgerInv)'
  BY SafetyNext, LedgerNext DEF NoCrash
<1> QED
  BY SafetyInit, LedgerInit, <1>1, PTL DEF Spec

\* Between operations the ledger, with the pending apply's, names every section
\* of the groups in the files, over any history of applies, failed applies,
\* rollbacks and confirms: the next apply removes it.
THEOREM LedgerCovers ==
  ASSUME NoCrash
  PROVE  Spec => []LedgerCoversFiles
<1>1. SafetyInv /\ LedgerInv => LedgerCoversFiles
  <2> SUFFICES ASSUME SafetyInv, LedgerInv, Idle, st.listed, NEW f \in File
               PROVE  files[f].own \subseteq st.ledger \cup
                        (IF st.pending = None THEN {} ELSE st.pending.ledger)
    BY DEF LedgerCoversFiles
  <2>1. CASE st.pending = None
    BY <2>1 DEF LedgerInv, Covered
  <2>2. CASE st.pending # None
    <3>1. st.pending.rev \in Revision
      BY <2>2 DEF SafetyInv, TypeInv, TypeOK, State, Pending
    <3> QED
      BY <2>2, <3>1, TargetIsRecorded DEF Idle, LedgerInv, Written, Covered
  <2> QED
    BY <2>1, <2>2
<1> QED
  BY LedgerHolds, <1>1, PTL

\* What runs is what the files say, but between an apply's writes and its
\* reload; the network is left out of that only if its file did not change.
Running ==
  /\ pc \in {"idle", "copy", "record", "drop", "close"} => running = files
  /\ pc \in {"write", "reload"} =>
       /\ running = before
       /\ st.pending.network = (todo.new["network"] # before["network"])
  /\ pc = "write" => files["network"] = before["network"]
  /\ pc = "write" /\ at = "wireless" => files["wireless"] = before["wireless"]

LEMMA RunningNext ==
  ASSUME NoCrash, "reloadBack" \notin MayFail, SafetyInv, LedgerInv, Running,
         [Next]_vars
  PROVE  Running'
<1> USE DEF NoCrash
<1>s. st \in State /\ TypeOK /\ File = {"wireless", "network"}
  BY DEF SafetyInv, TypeInv, TypeOK, File
<1>t. TypeInv /\ st = disk
  BY DEF SafetyInv, LedgerInv, Sync
<1>1. CASE \/ \E r \in Revision : ApplyNoop(r) \/ ApplyBegin(r) \/ ConfirmKeep(r)
           \/ SaveCopy \/ DropCopy
  <2>1. /\ pc \in {"idle", "copy", "drop"}
        /\ pc' \in {"idle", "copy", "record", "drop"}
        /\ UNCHANGED <<running, files>>
    BY <1>1
       DEF ApplyNoop, ApplyBegin, ConfirmKeep, SaveCopy, DropCopy, Idle,
           OnBothFiles, flash
  <2> QED
    BY <2>1 DEF Running
<1>2. CASE RecordWindow
  <2> DEFINE w == [rev |-> todo.rev, deadline |-> windows + 1,
                   ledger |-> NewLedger(todo.rev),
                   network |-> todo.new["network"] # todo.raw["network"]]
  <2>1. /\ pc = "record" /\ pc' = "write" /\ st' = [st EXCEPT !.pending = w]
        /\ UNCHANGED <<running, files, todo, at, before>>
    BY <1>2, PersistSaves DEF RecordWindow
  <2>2. st'.pending.network = (todo.new["network"] # todo.raw["network"])
    BY <1>s, <2>1 DEF State
  <2> HIDE DEF w
  <2>3. files = before /\ todo.raw = before
    BY <2>1 DEF SafetyInv, Planning
  <2> QED
    BY <2>1, <2>2, <2>3 DEF Running
<1>3. CASE WriteConfig
  <2>1. pc = "write" /\ UNCHANGED <<running, st, todo, before>>
    BY <1>3 DEF WriteConfig
  <2>2. CASE pc' = "restore"
    BY <2>2 DEF Running
  <2>3. CASE pc' # "restore"
    <3>1. files' = [files EXCEPT ![at] = todo.new[at]] /\ OnBothFiles("reload")
      BY <1>3, <2>3 DEF WriteConfig, BeginRollback
    <3>2. \A f \in File \ {at} : files'[f] = files[f]
      BY <1>s, <3>1 DEF TypeOK
    <3>3. \/ at = "wireless" /\ at' = "network" /\ pc' = "write"
          \/ at = "network" /\ pc' = "reload"
      BY <1>s, <2>1, <3>1 DEF OnBothFiles, TypeOK
    <3> QED
      BY <1>s, <2>1, <3>2, <3>3 DEF Running
  <2> QED
    BY <2>2, <2>3
<1>4. CASE Reload
  <2>1. /\ pc = "reload" /\ UNCHANGED files
        /\ (pc' = "idle" /\ running' = Loaded) \/ pc' = "restore"
    BY <1>4 DEF Reload, BeginRollback, flash
  <2>2. Loaded = files
    <3>1. CASE st.pending.network
      BY <3>1 DEF Loaded
    <3>2. CASE ~st.pending.network
      <4>1. running \in [File -> Content] /\ files \in [File -> Content]
        BY <1>s DEF TypeOK
      <4>2. running["network"] = files["network"]
        <5>1. running = before /\ files["network"] = todo.new["network"]
          BY <1>s, <2>1 DEF Running, LedgerInv, Written
        <5>2. st.pending.network = (todo.new["network"] # before["network"])
          BY <2>1 DEF Running
        <5>3. todo.new["network"] = before["network"]
          BY <3>2, <5>2, Zenon
        <5> QED
          BY <5>1, <5>3
      <4>3. Loaded = [running EXCEPT !["wireless"] = files["wireless"]]
        BY <3>2 DEF Loaded
      <4> QED
        BY <1>s, <4>1, <4>2, <4>3
    <3> QED
      BY <3>1, <3>2
  <2> QED
    BY <2>1, <2>2 DEF Running
<1>5. CASE \/ \E r \in Revision : ConfirmUnsafe(r)
           \/ \E c \in callbacks : TimerCallback(c)
           \/ RestoreConfig
  <2>1. \/ pc = "idle" /\ pc' = "idle" /\ UNCHANGED <<running, files>>
        \/ pc' \in {"restore", "reloadBack"}
    BY <1>5
       DEF ConfirmUnsafe, TimerCallback, RestoreConfig, Idle, BeginRollback,
           OnBothFiles, flash
  <2> QED
    BY <2>1 DEF Running
<1>6. CASE ReloadBack
  BY <1>6 DEF ReloadBack, Fails, flash, Running
<1>7. CASE CloseRollback
  BY <1>7 DEF CloseRollback, Running
<1>8. ASSUME NEW f \in File, PlaneWrite(f)
      PROVE  Running'
  <2>1. pc \in {"idle", "drop"} /\ pc' = pc
    BY <1>8, <1>s, <1>t
       DEF PlaneWrite, engine, TypeOK, PC, SafetyInv, TypeInv, Shape, Sync,
           Locking, WindowsNeverOverlap
  <2>2. running' = files'
    BY <1>8, <1>s, <2>1 DEF PlaneWrite, TypeOK, Running
  <2> QED
    BY <2>1, <2>2 DEF Running
<1>9. CASE \/ \E d \in Deadline : DeadlinePasses(d)
           \/ TimerFires
           \/ \E w \in {"plane", "update"} : OtherOpen(w) \/ OtherClose(w)
           \/ UNCHANGED vars
  <2>1. UNCHANGED <<st, pc, at, todo, files, running, before>>
    BY <1>9
       DEF DeadlinePasses, TimerFires, OtherOpen, OtherClose, vars, flash, engine
  <2> QED
    BY <2>1 DEF Running
<1>10. ~(\E reboot \in BOOLEAN : Crash(reboot))
       /\ ~(\E mode \in {"on", "off"} : Restart(mode))
  BY <1>s DEF Crash, Restart, TypeOK, LedgerInv
<1> QED
  BY <1>1, <1>2, <1>3, <1>4, <1>5, <1>6, <1>7, <1>8, <1>9, <1>10
     DEF Next, EngineStep, Controller, Clock, Process, Others

\* What a confirm keeps has been loaded as it stands, although a reload is told
\* to leave the network out when its file did not change (engine.go reload),
\* and although a failed apply, or another writer, came before.
THEOREM ConfirmedRuns ==
  ASSUME NoCrash, "reloadBack" \notin MayFail
  PROVE  Spec => ConfirmedIsRunning
<1>1. Init => Running
  BY DEF Init, Running
<1>2. SafetyInv /\ LedgerInv /\ Running /\ [Next]_vars => Running'
  BY RunningNext
<1>3. SafetyInv /\ LedgerInv /\ Running =>
        [\A r \in Revision : ConfirmKeep(r) =>
           /\ running = files
           /\ \A f \in File : Target[r][f] \subseteq files[f].own]_vars
  BY DEF ConfirmKeep, Idle, Running, LedgerInv, Written
<1>4. Spec => [][Next]_vars /\ Init
  BY PTL DEF Spec
<1> QED
  BY LedgerHolds, <1>1, <1>2, <1>3, <1>4, PTL DEF ConfirmedIsRunning

-----------------------------------------------------------------------------
(* What the access point has, when nothing is pending. *)

\* The revision applied before is what an open window can go back to.
AppliedInv ==
  /\ st.pending = None => \A f \in File : files[f].own = Wanted(st.applied, f)
  /\ st.pending # None => \A f \in File : before[f].own = Wanted(st.applied, f)

LEMMA AppliedNext ==
  ASSUME NoCrash, SafetyInv, LedgerInv, AppliedInv, [Next]_vars
  PROVE  AppliedInv'
<1> USE DEF NoCrash, AppliedInv
<1>s. st \in State /\ TypeOK /\ File = {"wireless", "network"}
  BY DEF SafetyInv, TypeInv, TypeOK, File
<1>t. TypeInv /\ st = disk
  BY DEF SafetyInv, LedgerInv, Sync
<1>1. ASSUME NEW r \in Revision, ApplyNoop(r)
      PROVE  AppliedInv'
  <2>1. /\ st' = Adopted(st, r) /\ st.pending = None /\ UNCHANGED files
        /\ PlannedFiles(r) = files
    BY <1>1, PersistSaves DEF ApplyNoop
  <2>2. st'.pending = None /\ st'.applied = r /\ r # None
    BY <1>s, <2>1, NoneAssumption DEF Adopted, State
  <2> QED
    BY <1>t, <2>1, <2>2, PlannedIsTarget DEF LedgerInv, Wanted
<1>2. CASE \/ \E r \in Revision : ApplyBegin(r) \/ ConfirmUnsafe(r)
           \/ SaveCopy \/ Reload \/ DropCopy \/ ReloadBack
  <2>1. /\ UNCHANGED <<st, files>>
        /\ st.pending = None \/ UNCHANGED before
    BY <1>2
       DEF ApplyBegin, ConfirmUnsafe, SaveCopy, Reload, DropCopy, ReloadBack, flash
  <2> QED
    BY <2>1 DEF Wanted
<1>3. CASE RecordWindow
  <2> DEFINE w == [rev |-> todo.rev, deadline |-> windows + 1,
                   ledger |-> NewLedger(todo.rev),
                   network |-> todo.new["network"] # todo.raw["network"]]
  <2>1. /\ pc = "record" /\ st' = [st EXCEPT !.pending = w]
        /\ UNCHANGED <<files, before>>
    BY <1>3, PersistSaves DEF RecordWindow
  <2> HIDE DEF w
  <2>2. st'.applied = st.applied
    BY <1>s, <2>1 DEF State
  <2>3. files = before /\ st.pending = None
    BY <1>t, <2>1 DEF SafetyInv, Planning, Locking
  <2> QED
    BY <2>1, <2>2, <2>3 DEF Wanted
<1>4. CASE WriteConfig \/ RestoreConfig
  <2>1. pc \in {"write", "restore"} /\ UNCHANGED <<st, before>>
    BY <1>4 DEF WriteConfig, RestoreConfig
  <2>2. st.pending # None
    BY <1>t, <2>1 DEF TypeInv, Shape
  <2> QED
    BY <2>1, <2>2 DEF Wanted
<1>5. ASSUME NEW r \in Revision, ConfirmKeep(r)
      PROVE  AppliedInv'
  <2>1. /\ pc = "idle" /\ st.pending # None /\ st.pending.rev = r
        /\ st' = Confirmed(st) /\ UNCHANGED files
    BY <1>5, PersistSaves DEF ConfirmKeep, Idle
  <2>2. st'.pending = None /\ st'.applied = r /\ r # None
    BY <1>s, <2>1, NoneAssumption DEF Confirmed, State
  <2>3. \A f \in File : files[f].own = Target[r][f]
    BY <2>1 DEF LedgerInv, Written
  <2> QED
    BY <2>1, <2>2, <2>3 DEF Wanted
<1>6. CASE CloseRollback
  <2>1. pc = "close" /\ st' = RolledBack(st) /\ UNCHANGED <<files, before>>
    BY <1>6, PersistSaves DEF CloseRollback
  <2>2. st.pending # None /\ \A f \in File : files[f] = before[f]
    BY <1>t, <2>1 DEF TypeInv, Shape, SafetyInv, Restored
  <2>3. st'.pending = None /\ st'.applied = st.applied
    BY <1>s, <2>1 DEF RolledBack, State
  <2> QED
    BY <2>1, <2>2, <2>3 DEF Wanted
<1>7. ASSUME NEW g \in File, PlaneWrite(g)
      PROVE  AppliedInv'
  <2>1. UNCHANGED <<st, before>>
    BY <1>7 DEF PlaneWrite, engine
  <2>2. \A f \in File : files'[f].own = files[f].own
    BY <1>7, <1>s DEF PlaneWrite, TypeOK, Content
  <2> QED
    BY <2>1, <2>2 DEF Wanted
<1>8. CASE Clock \/ (\E w \in {"plane", "update"} : OtherOpen(w) \/ OtherClose(w))
           \/ UNCHANGED vars
  <2>1. UNCHANGED <<st, files, before>>
    BY <1>8
       DEF Clock, DeadlinePasses, TimerFires, TimerCallback, OtherOpen, OtherClose,
           vars, flash, engine
  <2> QED
    BY <2>1 DEF Wanted
<1>9. ~(\E reboot \in BOOLEAN : Crash(reboot))
      /\ ~(\E mode \in {"on", "off"} : Restart(mode))
  BY <1>s DEF Crash, Restart, TypeOK, LedgerInv
<1> QED
  BY <1>1, <1>2, <1>3, <1>4, <1>5, <1>6, <1>7, <1>8, <1>9
     DEF Next, EngineStep, Controller, Process, Others

\* After any history of applies, refusals, failed writes and reloads, rollbacks
\* and confirms, and whatever the other writers did meanwhile, an engine with
\* nothing pending has exactly the sections of the last confirmed revision, in
\* both files and in what the services loaded.
THEOREM AppliedStays ==
  ASSUME NoCrash, "reloadBack" \notin MayFail
  PROVE  Spec => []AppliedIsThere
<1>1. Init => Running /\ AppliedInv
  BY DEF Init, Running, AppliedInv, EmptyState, NoSections, Wanted
<1>2. SafetyInv /\ LedgerInv /\ Running /\ AppliedInv /\ [Next]_vars
        => Running' /\ AppliedInv'
  BY RunningNext, AppliedNext
<1>3. Running /\ AppliedInv => AppliedIsThere
  BY DEF Running, AppliedInv, AppliedIsThere, Idle
<1>4. Spec => [][Next]_vars /\ Init
  BY PTL DEF Spec
<1> QED
  BY LedgerHolds, <1>1, <1>2, <1>3, <1>4, PTL
=============================================================================
