------------------------------ MODULE ApplyLock ------------------------------
(***************************************************************************)
(* The access point's one write lock (internal/applylock).  It lives in    *)
(* the daemon's memory: one cell, free or naming the writer whose window   *)
(* is open.  A Hold of the code is modelled by the name of its writer: a   *)
(* writer never has two holds (TryAcquire refuses the holder itself too).  *)
(***************************************************************************)

CONSTANT Free          \* the lock has no holder (Lock.cur = nil)

VARIABLE lock          \* Lock.cur: Free, or the writer that holds it

\* The three writers whose changes end in a confirm or a rollback.
Holder == {"groups", "plane", "update"}

ASSUME FreeAssumption == Free \notin Holder

LockTypeOK == lock \in Holder \cup {Free}

\* Variants with a defect, one for the properties to catch each.
TryAcquireNotReentrant(h) == lock # h /\ lock' = h
ReleaseForgotten(h) == UNCHANGED lock

\* Never waits: the only way in is that nobody, not even h, holds the lock.
TryAcquire(h) == lock = Free /\ lock' = h

\* A hold that no longer holds the lock releases nothing.
Release(h) == lock' = IF lock = h THEN Free ELSE lock
=============================================================================
