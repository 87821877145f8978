---------------------------- MODULE PlaneService ----------------------------
(***************************************************************************)
(* The service around the Wi-Fi config plane (internal/wifiplane): it      *)
(* screens every apply before the agentkit's plane sees it, gives the      *)
(* plane the write lock, and keeps the boot guard in place, the init       *)
(* script that undoes an unconfirmed change before the network starts.     *)
(*                                                                         *)
(* The device groups are here as far as the screen reads them: the names   *)
(* they hold (Owned) change under the lock, the screen reads them without. *)
(* The plane itself, its window and the guard's effect are the agentkit's. *)
(***************************************************************************)
EXTENDS ApplyLock, FiniteSets

CONSTANTS
  GroupsName,          \* the names the groups create (OwnedName)
  FreeName             \* other names of sections

VARIABLES
  guard,               \* the boot guard: its script, may it run, is it enabled
  apply,               \* a wifi.config.apply under way, and what it touches
  open,                \* the writers whose window is recorded on flash
  touched,             \* the sections the open window of the plane changed
  ledger, wanted,      \* the sections of the groups: confirmed, and pending
  loaded,              \* what the network runs: the confirmed files or not
  tampered             \* history: a person took the guard away

planeVars == <<guard, apply, open, touched, ledger, wanted, loaded, tampered>>

Name == GroupsName \cup FreeName

ASSUME NamesAssumption == GroupsName \cap FreeName = {}

-----------------------------------------------------------------------------
(* The boot guard. *)

\* The package's script, of this version or an older one, or the one the
\* daemon writes.
Script == {"none", "package", "package_old", "self", "self_old"}
Guard == [script : Script, exec : BOOLEAN, link : BOOLEAN]

\* What the boot makes of it.
RunsAtBoot(g) == g.script # "none" /\ g.exec /\ g.link

SelfInstalled(g) == g.script \in {"self", "self_old"}

\* A variant with a defect, for the properties to catch.
GuardMissingNoScript(g) == g.script = "none"

GuardMissing(g) == g.script = "none" \/ ~g.exec \/ ~g.link

\* EnsureGuard: writes the script when there is none, or an old one of its
\* own, and enables it.  A package's is left as it is.
EnsureGuard(g) ==
  [script |-> IF g.script \in {"none", "self_old"} THEN "self" ELSE g.script,
   exec |-> TRUE, link |-> TRUE]

\* What the updater would have there; the kit writes it with a plan.
GuardContent(g) == IF g.script = "package" THEN "package" ELSE "self"

\* perch-apd install: leaves a script as it is, whatever it is.
InstallGuard(g) ==
  [script |-> IF g.script = "none" THEN "self" ELSE g.script,
   exec |-> g.exec \/ g.script = "none", link |-> TRUE]

\* What wp.Start makes of it with write access; the write, or the link after
\* it, can fail.
GuardEnsured ==
  guard' \in {guard, EnsureGuard(guard),
             [EnsureGuard(guard) EXCEPT !.link = guard.link]}

\* A person disables it.
GuardTampered ==
  /\ guard.link
  /\ guard' = [guard EXCEPT !.link = FALSE] /\ tampered' = TRUE
  /\ UNCHANGED <<lock, apply, open, touched, ledger, wanted, loaded>>

\* perch-apd uninstall takes away the one the daemon wrote.
UninstallGuard(g) ==
  IF SelfInstalled(g) THEN [g EXCEPT !.script = "none", !.link = FALSE] ELSE g

-----------------------------------------------------------------------------
(* The device groups' side. *)

\* Engine.Owned: what was confirmed and what waits for its confirm.
Owned == ledger \cup wanted

GroupsOpen(names) ==
  /\ TryAcquire("groups")
  /\ open' = open \cup {"groups"} /\ wanted' = names
  /\ UNCHANGED <<guard, apply, touched, ledger, loaded, tampered>>

GroupsEnd(kept) ==
  /\ "groups" \in open /\ lock = "groups"
  /\ open' = open \ {"groups"} /\ wanted' = {}
  /\ ledger' = IF kept THEN wanted ELSE ledger
  /\ Release("groups")
  /\ UNCHANGED <<guard, apply, touched, loaded, tampered>>

-----------------------------------------------------------------------------
(* wifi.config.apply. *)

NoApply == [pc |-> "none", names |-> {}]

\* Variants with a defect: only the names the groups hold now.
GroupsNameHeldNow(n) == n \in Owned

\* A section the groups hold now, or a name they create.
GroupsNameOf(n) == n \in Owned \/ n \in GroupsName

\* The names of every operation and of the ledger are screened, and the guard
\* must be there.
ScreenPasses(names) ==
  (\A n \in names : ~GroupsNameOf(n)) /\ ~GuardMissing(guard)

ScreenApply(names) ==
  /\ apply.pc = "none" /\ ScreenPasses(names)
  /\ apply' = [pc |-> "screened", names |-> names]
  /\ UNCHANGED <<lock, guard, open, touched, ledger, wanted, loaded, tampered>>

\* planeLock.Acquire says no: busy.
ApplyRefused ==
  /\ apply.pc = "screened" /\ lock # Free
  /\ apply' = NoApply
  /\ UNCHANGED <<lock, guard, open, touched, ledger, wanted, loaded, tampered>>

\* It says yes: the window is recorded, the files are written and loaded.
ApplyOpens ==
  /\ apply.pc = "screened" /\ apply' = NoApply
  /\ TryAcquire("plane")
  /\ open' = open \cup {"plane"} /\ touched' = apply.names
  /\ loaded' = FALSE
  /\ UNCHANGED <<guard, ledger, wanted, tampered>>

\* Confirmed, or rolled back: by the controller, the health check, the clock.
ApplyEnds ==
  /\ "plane" \in open /\ lock = "plane"
  /\ open' = open \ {"plane"} /\ touched' = {} /\ loaded' = TRUE
  /\ Release("plane")
  /\ UNCHANGED <<guard, apply, ledger, wanted, tampered>>

-----------------------------------------------------------------------------
(* The restart of a window, and the boot. *)

\* The guard puts the files back before the network loads them; without it the
\* network comes up with the change, and the window is found by the daemon.
Booted ==
  /\ open' = IF RunsAtBoot(guard) THEN open \ {"plane"} ELSE open
  /\ touched' = IF RunsAtBoot(guard) THEN {} ELSE touched
  /\ loaded' = ("plane" \notin open')

PlaneInit ==
  /\ guard \in Guard
  /\ apply = NoApply /\ open = {} /\ touched = {}
  /\ ledger = {} /\ wanted = {}
  /\ loaded = TRUE /\ tampered = FALSE

PlaneTypeOK ==
  /\ LockTypeOK
  /\ guard \in Guard
  /\ apply \in [pc : {"none", "screened"}, names : SUBSET Name]
  /\ open \subseteq {"groups", "plane"} /\ touched \subseteq Name
  /\ ledger \subseteq GroupsName /\ wanted \subseteq GroupsName
  /\ loaded \in BOOLEAN /\ tampered \in BOOLEAN
=============================================================================
