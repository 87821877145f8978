# A verification project for perch-apd

perch-apd is the agent that runs on an OpenWrt access point: it keeps a session
with its controller, answers its calls, and changes the access point's
configuration for it. Whatever it changes can cut it off from the controller,
so every change is a *window*: what was there is saved, the change is made, and
unless the controller confirms in time the agent puts the old files back. The
window has to survive the daemon's death and the access point's reboot, and
several parts of the agent have windows of their own over the same files. That
is what these modules are about first.

Paths below are under `src/`; the definitions' own lines are in
`PROJECT.json` ("map").

## 1. Inventory

| Component | State it keeps | Operations | What is hard | What makes it correct |
|---|---|---|---|---|
| Write lock `internal/applylock` | one cell: free, or the writer | TryAcquire, Release | three writers, every failure path, restarts (the lock is in memory only) | no two windows overlap; the lock never outlives its window |
| Device-groups engine `internal/groups/engine.go` | `state.json` (applied revision, ledger, pending window, last rollback), the rollback copies, the timer | groups.apply, groups.confirm, the timer, rollback, New, Start | a crash between any two file operations, failed steps, a timer function that waits for the mutex, the clock against a confirm | a window always has its copies; a rollback restores exactly; nobody else's write is lost; the ledger names what was created; a window ends |
| Device-groups planner `internal/groups/plan.go` | none (a function of the files, the desired state and the ledger) | Plan, undo | sequences of applies over files that others change; bridge conversion kept or undone | what Plan adds the next Plan removes; nothing else is touched |
| LED locator `internal/leds` | the saved settings, in memory and in a file on tmpfs; generation, timer | locate.start, locate.stop, timeout, RecoverStale | a crash mid-blink, a timer against a restart, LEDs that refuse | every LED is put back exactly |
| Agent session `internal/agent` | credentials, session number and challenge, the current session, the redial flag | join, dial, session end, Reconnect, Send | sessions that end while the next begins; refused or replaced credentials; a failed save | one session at a time; an end never clears a newer session; it always dials again |
| Config and credentials `internal/config`, `internal/uci`, `internal/install` | `/etc/config/perch-apd`, and a copy in the daemon's memory | Load, SaveCredentials, `perch-apd join` | two processes edit one file; a crash, a lost reply, a failed save around a join | a secret goes to the controller that gave it; a restart finds credentials or a token that is not spent |
| Wi-Fi plane service `internal/wifiplane` | access, ownership marks, session; the windows themselves are the agentkit's plane | Configure, apply screen, Serve, EndSession | the groups and the plane on the same files; the screen reads before the lock | never touches a groups section; what was not confirmed does not outlive a reboot |
| Health check and monitor `wifiplane/health.go`, `monitor.go` | the debounce state of the notification | healthCheck, healthBefore, monitorTick | radar waits; a look spans the end of a session | a change is kept if it broke nothing; every session is told what lasts, once |
| Boot guard `wifiplane/guard.go` | a script on flash | EnsureGuard, GuardStatus; the package, an update and `perch-apd install` write it too | four writers, versions, a person who disables it | it is there whenever a window is open |
| Self-update `internal/update` | its hold on the write lock; the plan is the watchdog's | Install, Startup, watcher, WaitProbation | the new process must take the lock of a plan under way | the lock is held exactly while a plan is in progress |
| Daemon `cmd/perch-apd/main.go` | - | start order, shutdown | who takes the lock first after a restart | as above |
| RPC handlers | - | one per method | - | - |
| Interfaces and clients `internal/wireless`, `nl80211`, client.kick, clients.list | netifd's status, cached, an error too | Inventory, Clients, FindClient | the cache is older than the interfaces; requests share it; a client roams | a client that stays is found; an error is not for ever |
| Collectors, sysinfo, wificaps, prom, packaging | none that matters | reads, parsers | - | - |

How they interact: handlers call the engine, the locator, the updater and the
plane, each in the goroutine of its request. Timer functions run in goroutines
of their own and take the component's mutex. The engine, the plane and the
updater share one write lock. The engine and the plane share the files
`/etc/config/wireless` and `network`. The session loop tells the plane and the
updater when a session opens and ends.

## 2. What is modelled

| Module | Models |
|---|---|
| `ApplyLock` | the write lock: `Holder`, `TryAcquire`, `Release` |
| `ConfirmWindow` | abstract: what the engine promises about the two files |
| `GroupsEngine` | the engine, the process it lives in, and the two other writers |
| `MCGroupsEngine` | the revisions TLC uses |
| `GroupsEngineProofs` | its types, the lock, the rollbacks, the safety invariant and its consequences, the refinement, the ledger, what runs, what stays applied |
| `Locator` | locate, with every write of an LED a step |
| `MCLocator` | the LED settings TLC uses |
| `LocatorProofs` | type correctness, the LEDs come back, the stale timer, that every blink has one |
| `GroupsPlan` | the planner and its ledger, over sequences of applies and others' edits |
| `MCGroupsPlan` | others' sections with the groups' names, and symmetry, for TLC |
| `GroupsPlanProofs` | that the ledger always leads back, the same again is a noop, the VLANs, the interfaces' traffic |
| `AgentSession` | the session loop and the goroutines around it |
| `AgentSessionProofs` | its types, the current session, no spinning, the dial after a Reconnect |
| `HealthCheck` | the health check of a Wi-Fi apply, and what runs |
| `MCHealthCheck` | the configs and expectations TLC uses |
| `HealthCheckProofs` | its three properties, and the monitor's |
| `Monitor` | the health monitor, across sessions and windows |
| `UciFile` | a config file as lines: lookup, EnsureSection, Set |
| `JoinCredentials` | the daemon, `perch-apd join` and the controllers around one config file |
| `MCJoinCredentials` | the files TLC starts from, and the tokens' issuers |
| `JoinCredentialsProofs` | what an edit of a file does, whose secret it holds, and that the access point can come back |
| `UpdateHold` | self-update as a holder of the lock, against the plan and its watchdog |
| `PlaneService` | the Wi-Fi plane's screen, lock and boot guard |
| `Writers` | both, with the groups' windows, in one daemon that dies and restarts |
| `MCWriters` | the section names TLC uses |
| `WritersProofs` | who has the lock, the screen, the guard, the lock over every window |
| `WirelessSource` | the cached status, the inventory, and the search for a client |
| `MCWirelessSource` | the callers and interfaces TLC uses |
| `WirelessSourceProofs` | a client that stays is found |

### GroupsEngine

The engine's mutex is held for the whole of an Apply, a Confirm, a rollback or
a Start, so nothing inside the engine interleaves with it; but the daemon can
die between any two file operations, the other writers go on (they do not know
that mutex), and so does time. Therefore every file operation is an action, and
`pc`, `at` say where the mutex's owner stands and at which of the two files.

- `files` are the two configs: `own` the sections the engine creates, `other` a
  counter of the other writers' writes. `copies` is the rollback directory,
  `disk` is `state.json`, `st` the same in memory. `running` is what netifd and
  hostapd last loaded.
- `lock` is the write lock, `open` the other writers whose window is recorded
  on flash. The plane's and the updater's own recovery is the agentkit's: here
  they take the lock, may write, and free it; after a crash the updater is
  first to take it again, then the engine, then the plane, as `runDaemon` does.
- A deadline is the number of its window; `passed` holds the deadlines in the
  past. The length of a window does not matter to any property.
- `timer` is the armed timer; when it fires its function joins `callbacks` and
  waits for the mutex, out of `Stop`'s reach, as `time.AfterFunc` functions are.
- `todo` is Apply's plan: the files as read and as they are to be.
- `before` is history: the files as the last apply found them.
- A crash may reboot the whole access point, which then loads the files as they
  are. The atomic write (temporary file, fsync, rename) is one step: the file is
  the old or the new one.

Abstracted: a section is a name; what a revision wants in each file is the
constant `Target`. The ledger is the set of names, with `listed` for a ledger
that has the list (`Owned` is not nil). `PlannedFiles` is Plan's effect on the
names: all that the ledger names is dropped, all that the revision wants is
added, a name that is taken refuses. `dynamic_vlan` and the bridge conversion are
in `GroupsPlan`. The PSK check of a confirm is a
choice (`ConfirmUnsafe`) for a revision with a binding. Refusals that change
nothing are no step. The stored result of an apply is not modelled.

### GroupsPlan

Where `GroupsEngine` says how an apply is written, this module says what is
written. A step `Apply` is an apply that was confirmed: `Undo` by the ledger, then
the plan made from what is left. `ApplyNothing` is the apply without VLANs. The
other actions are the router's owner and the Wi-Fi config plane, editing the same
configs; each edit is done to `base` too, the configs had there been no groups.

- `files` are the two configs: the sections the groups and the plane create, by
  name (with a bridge-vlan's bridge and id), each interface's device, and each
  access point's `dynamic_vlan`. A name is a tuple: `<<"bv", 7>>` is
  `perch_bv7`. `shortName` is taken to be injective.
- `ledger` is `Ledger`: `listed` is "Owned is not nil", `dyn` and `conv` what was
  changed in others' sections.
- A desired state is its VLANs, the access points its SSIDs select, the number of
  `wifi-station` sections that makes, and the trunk: a port of some bridge, a port
  of its own, or one that is not found. The trunk may change from one apply to the
  next. Refusals change nothing and are only guards; that a bridge has no ports
  (`bridge_empty`) is left out, and so are bad parameters.
- What is taken of the others: they do not delete or edit the groups' sections,
  do not rely on the VLAN a conversion made (`MoveIface`), and do not set
  `dynamic_vlan` where the groups have (`SetDyn`): undo would overwrite it. They may
  use a name of the groups (`Foreign`), but in the run that passes only after the
  first apply, and in the file the groups use it in. The first condition is the
  first of the known divergences (below); the second is needed because `undo` drops the
  ledger's names from both files and the check for a taken name looks at one.

### Locator

The locator's mutex is held for a whole start, end or recovery; again the
daemon can die between any two writes. Each LED is written in two steps, the
trigger (which resets the settings) and then the settings. The state file is
written in place, so it can be torn. `refuses` are the LEDs that do not take the
timer trigger. `Stop` reads the generation and gives the mutex back before it
calls `finish`, so both a stop and a timeout are a call that waits in `calls`.
After a reboot the system sets the LEDs, and tmpfs is empty. Not modelled: the
system or a person changing an LED while it blinks (the old setting comes back).
A shutdown is a `Stop`, then the end of the process, which is `Crash`.

### AgentSession

One goroutine runs `Run`; `pc` says where it is. The agent's mutex is held for
single assignments only, so the actions are those, and everything interleaves.

- `gen`, `cur`, `redialNow` and `sess` are the fields of `Agent`; a challenge is
  its session's number. `joined` and `token` are the configuration in memory.
- `opening` and `pushing` are the OnOpen goroutines before and after
  `setSession`. A dial takes a round trip, so an OnOpen is taken to start before
  the next session is open. It is not taken to have returned: it may be in the
  middle of a push, and `clearSession`'s comment allows for it.
- `closing` are the goroutines `Reconnect` starts, whose `Close` waits for the
  controller. `asked` is a request between the two halves of `SessionRef`.
- `end` and `wait` are classes: what Run's switch tells apart, and the waits it
  may choose. The ladder's rungs are one class; `fast` is "2 s at most".
- `grants` is history: how many more dials may come without a wait.
- The plane's `RedialFast` may change at any time. link.Run, the WebSocket and
  the controller are outside: a dial or a session may end in any way.
- Not modelled: the push schedule, a process that is killed (it starts again in the
  initial state). The file behind the configuration is in `JoinCredentials`.

### HealthCheck

A Wi-Fi apply calls the plane's hooks in order: `healthBefore` when the files are
saved (`Save`), `healthCheck` again and again after the commit (`CheckPasses`,
`CheckFails`). In between, and during the wait, radios and BSSes change as they
like, and `ubus` may or may not tell. The window is the agentkit's: of it only the
commit, the end of the wait, the deadline and the close are modelled.

- `run` is what netifd and hostapd report, by classes: what `evaluate` and
  `healthBefore` tell apart. `wrong` is a BSS that beacons another SSID; `radar`
  one whose radar check has seconds left; `starting` stands for the transient
  statuses, `off` for the others. A radio is not up for one of four reasons, of
  which `failed` (`retry_setup_failed`) counts even if nothing is expected on it.
- `cfg` is the committed config: the enabled radios, the interfaces, the enabled
  ones. A deleted interface is in no `section`; a BSS only the controller names is
  in `expect`. Its file loads, is absent, or is bad; an apply does not change that.
- `was` is history: what ran and was committed when the files were saved.
- A verdict is a step: when an answer is pending the window asks again, and
  `CheckFails` is the answer still pending when the time is up. An extension
  (`Extends`) holds that step back; how long it lasts has no length here, and
  `Deadline`, the confirm's, may come first.

Abstracted: `evaluate` reports one radar problem per radio but counts every BSS, so
the sets of failing BSSes give the same verdict. A BSS is on one radio
(multi-link BSSes are not modelled). The report's `ok` and `pending` are for readers.
Two exceptions of `NeverForOld` are the code's: if netifd did not answer at the
save nothing is on record, and a config that does not load never passes.

### Monitor

`monitorTick` holds its mutex twice, for a decision and for a record. In between it
asks netifd and hostapd, asks for the session's number, and writes a notification,
and each is a step: `look` is where it stands and what it has read. `mon` is
`monitorState`; `since` is `age`, in ticks of the clock. `link`, `cur`, `watched` are
the session loop as far as the monitor sees it: the number is given before the dial
(`BeginSession`), it is 0 between sessions, and the mode is off from the end of a
session to the next `agent.configure`. The steady end of an OnOpen is taken to be part
of the session's opening (`SetSession`; `AgentSession` has it in detail). `told`
is history. A look that began in one session may write into the next: the next is then
told twice, which `TellsNews` excepts. That the state it was told is right when
it is told is not claimed: it was right when the look read it.

### JoinCredentials and UciFile

`UciFile` gives a file as the sequence of its lines, what `Parse` makes of each: a
header, an option, anything else. `Get` reads the first line of an option in the first
section of the name; `Set` replaces that line or inserts one after the section's last
line that says something. An edit (`Update`) ensures the section and then sets the
options of `Put`, each if it has a value to write, in the order of their names, as
`config.Update` does. Quoting is left out.

What a file may hold is named: `Name` are the names of sections and options, `Line` a
line, `Cfg` what `Load` makes of a file. `ValuesAssumption` keeps the model values
apart. `InitialAssumption` says what the files to start from are: made of lines, with
both halves of a credential or neither; credentials there are the first that their
controller gave; and where there are none but an address, there is a token of that
controller.

- `file` is the config on flash, `daemon` the process with its configuration in memory
  (`cfg`), what a join gave it (`got`) and the copy it is editing (`copy`); `cli` is one
  `perch-apd install` or `join`. `valid`, `unspent` and `issued` are the controllers'.
- An edit is two steps, the read of the file and its atomic replacement: each process
  may die, and the other may edit, in between.
- A secret is `[ctl, n]`: the controller that issued it and a number; `SecretStaysHome`
  compares that with the address next to it.
- A join is accepted, refused, not reached, or its reply is lost; the token is spent
  when it is accepted.
- `causes` is history: what of the things that `ComesBack` and `KeepsConnecting`
  except has happened. `lost`: an accepted join's credentials never reached the file.
  `forgotten`: the admin forgot the agent. `bad_token`: the person gave one that was
  refused. `overlap`: two edits overlapped.
- Abstracted: `NormalizeControllerURL` is an address or a broken one; the options that
  are no part of a join are left out; prompts and `--yes` give the same values.

### UpdateHold, PlaneService, Writers

`UpdateHold` has the updater's three goroutines (Startup and WaitProbation in the
daemon's start, the install, the watcher) and the plan they read, which the agentkit's
watchdog writes: `Watchdog...` are its steps, as far as PROTOCOL.md 2.6 and the code's
use of the kit tell them, and nothing is assumed about when or whether they come.
`PlaneService` has the screen of an apply, which looks at the names and the guard,
and only then asks for the lock; the window; and the guard in its four versions.
`Writers` is both in one daemon, with the groups reduced to their windows
(`GroupsEngine` has them in detail): `proc` says how far `runDaemon` has come, `Crash`
and `Reboot` end it, `Uninstall` and `Install` are the person's commands.

- `proc.updater` is the guard script its updater was built with (`guardContent` is read
  once): an update writes that script again. `none` is a daemon without an updater.
- `open` are the windows recorded on flash, `loaded` whether the network runs the
  confirmed files.
- `off` and `tampered` are history, and name what two properties except: a restart
  without an updater (no HTTP client could be built), which does not take the lock of a
  plan in progress; and a person who takes the guard away.
- Taken of the kit: the watchdog stops the service before it changes the program, and
  starts it again; a plan is over for good; the boot guard's update step puts the
  old program back.
- Taken of the device: it has write access (`option wifi_config 'write'`).

### WirelessSource

A request is `call[k]`: it dumps the interfaces, takes the status from the cache or
from ubus (holding the mutex, `StatusAsks` to `StatusAnswers`), asks once more if an
interface is unknown to it (`Invalidates`), and goes through the stations of one
interface after the other. Interfaces appear in the kernel and in netifd at
different times, ubus fails and comes back, a client roams. `stayed` is history: the
client was on one interface, in both, for the whole of the request (kept for requests
that look for clients). A client that
roams between two of a request's dumps can be missed or listed twice; the property does
not speak of it. An interface that netifd never has is left out of a list while netifd
answers, and makes every request ask ubus again.

## 3. What each run checks

| Run | Question | Bounds |
|---|---|---|
| `groups_crash` | is the window safe, does it close, and is it the abstract one, with crashes, reboots, failed copies, writes and reloads, and the other writers | 2 revisions, 2 windows, 2 crashes, 1 failure, 1 foreign write |
| `groups_no_crash` | without crashes, over a longer history that reuses revisions: the ledger, and that exactly what was confirmed last is there and runs | 3 revisions, 4 windows, 2 failures, 1 foreign write |
| `groups_failures` | with every kind of failure, and a restart without the engine: types, lock, and that a pending apply ends | 2 revisions, 2 windows, 1 crash, 2 failures |
| `locate` | do the LEDs come back, and only when the last timer says so | 2 LEDs, 2 settings, 3 starts, 2 crashes |
| `plan` | over sequences of applies and edits: does the ledger lead back, is the same state again a noop, does every interface keep its traffic, is no VLAN doubled | 2 bridges, 3 VLAN ids, 1 interface, 1 access point, 2 edits, any number of applies |
| `session` | does the agent know its session, dial again, at once when asked to, and never without a reason | 3 sessions, 2 Reconnects |
| `session_ref` | violated: a request is told another session's number | 2 sessions |
| `health` | is a change kept only if it broke nothing, taken back only for what it broke, and a radar check waited for | 2 radios, 2 BSSes, 5 configs, 3 changes of what runs |
| `monitor` | is every watching session told a state that lasts, and only once | 2 problems (one that passes), 2 sessions, any number of looks, windows and changes |
| `credentials` | does a secret stay with its controller, and does the access point come back | 2 controllers, a token of each, 2 commands, 1 crash; 3 initial files |
| `writers` | one window at a time and the lock with it, after any death; the screen; the guard; no wait for ever | 2 updates, 2 crashes or reboots, 1 section of the groups and 1 other, any guard at the start |
| `clients` | is a client that stays found, and an error forgotten | 2 requests, 2 interfaces, 2 changes around them, a status as old as one tick |

Why the bounds are enough: two windows make a second apply meet the leftovers of
the first (its copies, its ledger, its timer function). Two crashes let one hit
the recovery from the other. Revision 1 and 2 share a section and a VLAN, so an
apply both keeps and changes sections, and one changes `wireless` alone, which
reloads less. The two configs are all there are. Three sessions let an OnOpen and
a flag of the first meet the third; two Reconnects may hit one session twice. Three VLAN ids are the least
in which a conversion's old id is used again while a smaller one is free, and in
which the groups can take every id; two edits add a VLAN to a converted bridge and
move an interface there, or take it away again. No interface and no access point
depends on another one in the planner, so one of each is enough. Three changes of what runs break a
radio before the save, repair it after, and break another BSS; the configs enable,
disable, delete and switch off. Two
sessions let a look begin in one and write into the other, and a lasting problem that
comes and goes makes a state follow another, and itself. In `credentials` one crash hits any
of the three processes' edits, two commands change the controller and change it back;
the first of them also makes the file with a token beside the credentials. In `writers` two updates let the
guard and the watcher of one meet the next, and two crashes let one hit the restart
from the other. In `clients` two requests are the least that share the cache: one
refills it while the other asks for the second time. The safety properties that the
proofs cover hold for any bound.

### Known divergences

`session_ref` is violated by the code as it is: its finding in `PROJECT.json` quotes
the comment it disagrees with. Other places where the code does not do what its
documents say came up while modelling; the passing runs exclude them by a constant or an
exception, and changing it shows them:

- A timer function that waited for the mutex while its window was rolled back, and the
  same revision was applied again, rolls the new window back before its deadline:
  `engine.go:196` compares only the revision, and PROTOCOL.md:322 says "unless the
  controller confirms in time". `GroupsCrash.cfg` with `ReusesRevisions = TRUE` violates
  `NoEarlyRollback`.
- A crash between the two config writes of an apply leaves the previous revision's
  sections in the network config; the restart re-arms the window and a confirm keeps
  them, in no ledger. PROTOCOL.md:306: "its state records which ones it created".
  `GroupsNoCrash.cfg` with a crash violates `LedgerCoversFiles` and `AppliedIsThere`.
- With the groups switched off at a restart a pending window stays on flash without its
  lock (main.go:458), and another writer may open a second one; applylock.go:9: "their
  windows must never overlap". `GroupsCrash.cfg` with `CanDisable = TRUE` violates
  `WindowsNeverOverlap`.
- On an access point where the groups were never applied, `plan.go:555` takes another's
  section with one of the groups' names for its own, and the first apply removes it;
  PROTOCOL.md:306-312 says it refuses with `name_taken`. `Plan.cfg` with
  `EarlyForeign = TRUE`, and `OthersSectionsStay` as an invariant, is violated.
- PROTOCOL.md:90 says a join token "is only ever needed again after the admin forgets
  the agent"; a crash or a lost reply between the controller's answer and the stored
  credentials needs one too (`causes` "lost").
- `perch-apd join` and the daemon may edit the config at the same time, and the later
  replacement undoes the earlier edit (`causes` "overlap"): credentials of one
  controller may then stand beside the other's address.
- `perch-apd uninstall` removes the self-installed guard without undoing a window that
  is pending; the package's prerm (`Makefile`) does.

Fairness (`Fairness` in the modules): the scheduler runs the goroutine that
has the mutex and the functions that wait for it, time passes, the runtime fires
a due timer, and procd starts a dead daemon again (`respawn 3600 5 0` in the
init script: without a limit). Nothing is assumed of the controller, of a
person, of the other writers, or of the update's watchdog. A ticker ticks. In
`WirelessSource` a request is strongly fair: its step may wait for the mutex, which Go
gives to a waiter in the end (a starving waiter is served first after 1 ms). In the session loop a dial, a sleep and a close
end: each has a time limit. Crashes are bounded by a constant, so the
liveness runs say that a window ends once the crashes do.

## 4. What is proved

TLAPS checks, for every value of the constants:

- `TypeCorrect`, `LockIsNotLeaked` (`GroupsEngineProofs`), with every failure
  and with restarts without the engine. Type correctness needs `Shape`: which
  steps have a plan and which a pending window. The lock needs `LockInv`: it is
  the engine's only from the start of an apply to the end of its window.
- `RollbackIsDue` (`GroupsEngineProofs`): no rollback on the clock before its window's
  deadline, with every failure, crash and restart, if no revision is applied twice
  (`~ReusesRevisions`; with reuse the code does not keep it, see above). The timer's
  function compares only the revision, so `OverdueInv` says of everything that knows a
  window (both states, the timer, the functions it started) that windows of one
  revision are one window, and that none is of a revision that may still come.
- `PendingHoldsLock`, `OneWindow`, `CopiesCoverWindow`, `RollbackIsExact`,
  `OthersAreSafe` and `EngineImplementsWindow` (`GroupsEngineProofs`), under
  `Reliable`: saves of the state and restores do not fail (the code only logs
  it when they do), and the engine is not switched off. The invariant is
  `SafetyInv`: memory is what flash says (`Sync`); the lock's holder is the
  writer whose window is open (`Locking`); how far the copies (`BackedUp`) and a
  rollback (`Restored`) have come; and that the plan was made from the files as
  they still are (`Planning`). None of the properties is inductive alone: that a
  rollback restores exactly depends on the copies, these on the files not having
  changed since they were read, and that on the lock. The refinement follows
  from it: each engine step is a step of `ConfirmWindow` over flash, or a
  stutter.
- `LedgerCovers`, under `Reliable` and without crashes (a crash between the two writes
  breaks it, see above), and `ConfirmedRuns`, which also needs that the reload after a
  rollback does not fail. Neither follows from the files and the ledger alone. `LedgerInv`
  says how far the writes of an apply have come (`Written`), and that before the window
  is over the old ledger has what the files *had*, while the pending one has what they
  get (`Covered`): a rollback goes back to the one, a confirm on to the other. `Running`
  says when what runs is the files, and when what the apply found: between the first
  write and the reload; and that an apply that reloads only the Wi-Fi left the network
  config as it was.
- `AppliedStays` puts these together: without crashes, with nothing pending the files and
  what runs have exactly the sections of the revision the state names. It needs
  `AppliedInv`: while a window is open, the revision applied before it is what `before`
  holds, so a rollback (exact, by `Restored`) comes back to it, and a confirm goes on to
  what was written (`Written`); and that a plan drops all of the revision before
  (`PlannedIsTarget`).
- `NoWindowIsStranded`, with every failure, crash, restart and with revisions used again:
  a pending apply that the engine is not at work on has its timer armed, or a started
  function of a timer that takes the window for its own. This is what fairness then needs
  to end the window (`PendingEnds`): no interleaving of confirm, rollback, timer and
  restart loses the last thing that would.
- `LocatorTypes`, `LedsComeBack`, `FileIsEnough`, `RestartIsKept`
  (`LocatorProofs`), from `LocatorInv`: from the snapshot on, what is saved is
  what the LEDs were, and from the first written LED on, so is the file.
- `EveryBlinkIsTimed` (`LocatorProofs`): while LEDs blink and nobody is at work, the timer
  of this generation is armed or its call of `finish` is under way. The generation test
  drops calls of timers before it, and never this one: the safety half of `BlinkEnds`.

- `SessionTypes`, `NewerIsKept`, `LoopNeverSpins` and `FreshSessionAtOnce`
  (`AgentSessionProofs`), from `SessionInv`: nothing refers to a session that has
  not begun (`Known`), a session that a Reconnect closes has the flag set until
  its end is seen (`Flagged`), and who may dial without a wait has a grant for it
  (`Granted`).

- `PlanTypes`, `LedgerIsEnough` and `OthersAreSafe` (`GroupsPlanProofs`), for any
  number of applies and edits, under `OthersBehave` (the two conditions on others'
  use of the groups' names, above). The invariant adds to `UndoGivesBase` that
  every name of the ledger is a section that is there (`OwnedPresent`), that such
  sections are in their own file (`FilesRight`), and that a conversion's bridge-vlan
  is in the ledger (`ConvOwned`): without them an edit could be taken for the
  groups' own work, or a kept conversion be forgotten.
- `SameAgainIsNoop` (`GroupsPlanProofs`), under `OthersBehave`: a plan of any desired
  state, made again from what it planned, is not refused and gives the same configs and the
  same ledger, so the engine answers `noop` and reloads nothing. The undo of what was just
  planned gives what the plan started from, and keeps a conversion exactly if it was kept
  before (`UndoneAgain`); and the plan made with the new ledger gives a conversion the
  VLAN id it got (`PlannedAgain`).
- `NothingIsLeft` (`GroupsPlanProofs`): the apply without VLANs gives the configs had there
  never been groups and an empty ledger, unless others need the conversion.
- `VLANsStaySingle` (`GroupsPlanProofs`), without any condition on the others: no step
  of the agent gives a bridge that has a VLAN at most once a second one of it. It is a
  matter of one apply: what it adds is not among what the undo leaves.
- `TrafficIsKept` (`GroupsPlanProofs`), under `OthersBehave`: no step of the agent takes
  an interface's traffic away. What an undo leaves of an interface is one of three
  things (`WorksAfterUndo`: on a bridge without VLANs, on somebody else's VLAN, in the
  VLAN of a conversion that is kept), and the new plan works with each. That needs that
  the bridge-vlan of a conversion's name is the recorded one (`ConvSection`).

- `KeptHealthy`, `NeverOld` and `RadarWaits` (`HealthCheckProofs`): the invariant
  is that the record is what was broken when the files were saved (`Recorded`);
  that the record and the verdict agree on what is broken is then a matter of the
  two operators (`OnRecordWasBroken`, `BrokenIsOnRecord`).

- `OnlyNewsIsTold` and `NothingIsHeldBack` (`HealthCheckProofs`, of the monitor; the first
  is `TellsNews`), for any problems, debounce and number of sessions. A look reads the
  Wi-Fi in one session, asks for the session's number in a second, may send in a third and
  records in a fourth. `Looking` orders these numbers; `OnRecord` says that what a session
  was told by a look of its own is on record, or about to be, and `Truthful` the converse:
  what is on record as told to this session, it was told. So it is told nothing twice, and
  nothing is kept from it because another session was told it: the safety half of
  `SteadyIsTold`.

- `UpdateHoldsItsLock`, `PlaneKeepsOff` and `RebootUndoesTheChange` (`WritersProofs`),
  for any names, updates, crashes and reboots. The first from `HoldInv`: of the install
  and the watcher only one is responsible for the hold. The second from `NamesInv`:
  what is screened is off every name the groups could create, not only those they hold,
  so it does not matter that the screen looks before the plane has the lock. The third
  from `GuardInv`: while an apply is screened or its window open, the guard runs, and
  whoever writes it (the daemon's start, an update, an install) leaves one that does;
  that a plan's guard has a script needs that only a daemon with an updater makes one.
- `LockCovers` (`WritersProofs`), with the exception the property names (`off`: a daemon
  that came up without an updater). The lock is in memory: after a death each writer
  takes it again for a window it finds, in the order of the starts. `WindowInv` says how
  that is never too late: at most one window was open when the daemon died (`Apart`),
  and at each stage of the start the lock is free or with who had it (`Regained`), so
  that the plane, which is last, cannot open a window beside one not yet found.

- `TypesHold`, `SecretsStay` and `CanComeBack` (`JoinCredentialsProofs`), for any
  controllers, tokens, calls and crashes, and any files to start from that
  `InitialAssumption` allows, whatever else is in them. They rest on lemmas about files
  of any length: that `Set` changes the option it names and no other (`SetSets`),
  wherever the line is replaced or inserted; that `EnsureSection` changes none; and what
  follows for an edit (`UpdateGets`). For the secrets the invariant (`Home`) says of each
  process what it will write, and that the file is still the one it decided from; it
  holds as long as no two edits overlapped, and so does the property. `CanComeBack` needs
  `Fine`: credentials that are only in a process's memory are the newest of their
  controller and the token behind them is spent, so nobody else can use it and the file
  has older ones or none; or an edit came between (`Doomed`), and then the process that
  still has them cannot write without an overlap. To say "newest" the invariant orders
  credentials by `Age`.

- `WhoStaysIsFound` (`WirelessSourceProofs`), for any number of requests, interfaces and
  changes and any age of the cache. `FindInv` follows a request: the client's interface is
  in its dump, then among those to scan, then found, once. The cache need not know the
  interface; but once the request has asked again (`refreshed`) everything remembered, and
  every answer another request is about to remember, does (`Known`): the second question
  is put after the first was invalidated, and netifd has had the interface since.

The assumptions on the constants are named in the modules and evaluated by TLC.
Only model-checked, and out of the prover's reach, is liveness: `WindowCloses`,
`PendingEnds`, `BlinkEnds`, `DialsAgain`, `KeepsConnecting`,
`NobodyWaitsForever`, `NamesComeBack`, `SteadyIsTold`. For five of them (`PendingEnds`,
`BlinkEnds`, `SteadyIsTold`, `KeepsConnecting`, `NobodyWaitsForever`) a theorem says that
what has to come next is not lost (`NoWindowIsStranded`, `EveryBlinkIsTimed`,
`NothingIsHeldBack`, `CanComeBack`, `UpdateHoldsItsLock`); that it does come is what the
runs show.

Two definitions were corrected while they were proved about. `EnsureSection` was a CASE
whose guards overlapped, which leaves its value open (TLC takes the first that holds);
it is now the code's order of tests. The planner's `NoDuplicateVLAN` spoke of cardinalities;
it is now said of any two sections, for each bridge and VLAN by itself.

## 5. Plan

In this order; each module with its runs and, where marked, proofs.

1. Done: the lock, the engine, its abstract specification, the planner, the
   locator, the session loop, the health check, the monitor, the credentials, the
   self-update and the plane in one daemon, the interfaces and clients.
2. Done: the proofs of every invariant and of every action property that a run checks.
3. Left, for who extends it: the health check across the planes' windows (`HealthCheck`
   and `PlaneService` composed), and the refusals that only check parameters.

## 6. Not modelled

- The agentkit (the plane, the update's watchdog, the WebSocket link, the RPC
  dispatcher) is another repository: it appears as external actions, as the code here
  uses it.
- Metrics collectors, `sysinfo`, `wificaps`, `prom`, and the decoding of netlink
  messages: reads that are rendered or parsed, without state.
- `checkWireless` (an apply may not add radios or reorder interfaces), the
  normalisation of a controller's address, the checks of parameters: functions of their
  input.
- Multi-link BSSes in the health check; `dynamic_vlan` set by others where the groups
  have set it, which undo overwrites.
- The push schedule of a session, the lengths of its waits.
- Packaging, flags, logging.
