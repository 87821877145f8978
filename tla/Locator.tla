------------------------------- MODULE Locator -------------------------------
(***************************************************************************)
(* "Locate" (internal/leds): every LED of the access point blinks for a    *)
(* while, then each is put back as it was.  The settings to go back to are *)
(* kept in a file on tmpfs before the first LED is touched, so that a      *)
(* daemon that died during the blink restores them when it starts again.   *)
(*                                                                         *)
(* The mutex is held for a whole start, end or recovery; the daemon can    *)
(* die between any two writes.  Writing a trigger resets its settings, so  *)
(* every LED is written in two steps: the trigger, then its settings.      *)
(***************************************************************************)
EXTENDS Naturals

CONSTANTS
  Led,                 \* the LEDs of the device
  OwnSetting,          \* the settings the system may give an LED
  MaxStarts,           \* bound on locate.start
  MaxCrashes,          \* bound on crashes and reboots
  None, Torn           \* no value; a state file that was cut short

VARIABLES
  refuses,             \* the LEDs that do not take the timer trigger
  led,                 \* in the kernel: each LED's trigger and settings
  own,                 \* history: what the system last set each LED to
  file,                \* the state file: none, torn, or settings
  up,                  \* the daemon runs
  saved,               \* the settings to go back to
  active,              \* Locator.active
  gen,                 \* Locator.gen
  timer,               \* the armed timer, by its generation
  calls,               \* calls of finish that wait for the mutex
  pc, todo, half,      \* the mutex owner's phase, the LEDs left, and the LED
                       \* whose trigger alone is written
  reason,              \* why the blink ends
  expired,             \* the generations whose time is over
  starts, crashes

kernel == <<refuses, led, own>>
memory == <<saved, active, gen, timer, calls, pc, todo, half, reason>>
counters == <<starts, crashes>>
vars == <<kernel, file, up, memory, expired, counters>>

Setting == [trigger : {s.trigger : s \in OwnSetting} \cup {"timer"},
            attrs : {s.attrs : s \in OwnSetting} \cup {"200", "default"}]

Blinking == [trigger |-> "timer", attrs |-> "200"]

ASSUME LocatorAssumption ==
  /\ Led # {}
  /\ \A s \in OwnSetting : s = [trigger |-> s.trigger, attrs |-> s.attrs]
  /\ Blinking \notin OwnSetting
  /\ MaxStarts \in Nat /\ MaxCrashes \in Nat
  /\ None \notin Led /\ None \notin Nat
  /\ None \notin {"timeout", "stopped"}
  /\ None \notin [Led -> OwnSetting] /\ None # Torn
  /\ Torn \notin [Led -> OwnSetting]

Generation == 1..MaxStarts
Call == [gen : 0..MaxStarts, reason : {"timeout", "stopped"}]

TypeOK ==
  /\ refuses \subseteq Led
  /\ own \in [Led -> OwnSetting] /\ led \in [Led -> Setting]
  /\ file \in [Led -> OwnSetting] \cup {None, Torn}
  /\ saved \in [Led -> OwnSetting] \cup {None}
  /\ up \in BOOLEAN /\ active \in BOOLEAN
  /\ gen \in 0..MaxStarts /\ timer \in Generation \cup {None}
  /\ calls \subseteq Call
  /\ pc \in {"idle", "persist", "save", "blink", "restore"}
  /\ todo \subseteq Led /\ half \in Led \cup {None}
  /\ reason \in {"timeout", "stopped", None}
  /\ expired \subseteq Generation
  /\ starts \in 0..MaxStarts /\ crashes \in 0..MaxCrashes

\* Variants with a defect, for the properties to catch.
SettledTriggerOnly(l) ==
  IF pc = "blink" THEN [led EXCEPT ![l] = Blinking] ELSE led
EndsNowAnyGeneration(c) == active
EndsNowOtherGeneration(c) == active /\ c.gen # gen

-----------------------------------------------------------------------------
Idle == up /\ pc = "idle"

\* The LED l right after its trigger was written.
WithTrigger(l, t) == [led EXCEPT ![l] = [trigger |-> t, attrs |-> "default"]]

\* The LED l after its settings are written as well: as saved, or blinking.
Settled(l) ==
  [led EXCEPT ![l] = IF pc = "blink" /\ l \notin refuses THEN Blinking
                                                        ELSE saved[l]]

\* finish does its work only for the blink it was meant for.
EndsNow(c) == active /\ c.gen = gen

-----------------------------------------------------------------------------
(* Start. *)

\* Not blinking yet: the snapshot.
Snapshot ==
  /\ Idle /\ ~active /\ starts < MaxStarts
  /\ starts' = starts + 1
  /\ saved' = led
  /\ pc' = "persist"
  /\ UNCHANGED <<kernel, file, up, active, gen, timer, calls, todo, half,
                 reason, expired, crashes>>

\* The state file is written in place: first it is empty.
PersistBegins ==
  /\ pc = "persist"
  /\ file' = Torn
  /\ pc' = "save"
  /\ UNCHANGED <<kernel, up, saved, active, gen, timer, calls, todo, half,
                 reason, expired, counters>>

\* A failed write refuses the start, with no LED touched.
PersistEnds ==
  /\ pc = "save"
  /\ \/ file' = saved /\ pc' = "blink" /\ todo' = Led /\ UNCHANGED saved
     \/ pc' = "idle" /\ saved' = None /\ UNCHANGED <<file, todo>>
  /\ UNCHANGED <<kernel, up, active, gen, timer, calls, half, reason,
                 expired, counters>>

\* An LED's trigger; one that refuses the timer gets its own again.
WriteTrigger(l) ==
  /\ pc \in {"blink", "restore"} /\ half = None /\ l \in todo
  /\ led' = WithTrigger(l, IF pc = "blink" /\ l \notin refuses
                           THEN "timer" ELSE saved[l].trigger)
  /\ half' = l /\ todo' = todo \ {l}
  /\ UNCHANGED <<refuses, own, file, up, saved, active, gen, timer, calls, pc,
                 reason, expired, counters>>

WriteSettings ==
  /\ half # None
  /\ led' = Settled(half)
  /\ half' = None
  /\ UNCHANGED <<refuses, own, file, up, saved, active, gen, timer, calls, pc,
                 todo, reason, expired, counters>>

\* The blink's time starts, or starts anew.
Arm ==
  gen' = gen + 1 /\ timer' = gen + 1

Blinks ==
  /\ pc = "blink" /\ todo = {} /\ half = None
  /\ Led # refuses
  /\ active' = TRUE
  /\ Arm
  /\ pc' = "idle"
  /\ UNCHANGED <<kernel, file, up, saved, calls, todo, half, reason, expired,
                 counters>>

\* No LED took the timer.
NoLedBlinks ==
  /\ pc = "blink" /\ todo = {} /\ half = None
  /\ Led = refuses
  /\ file' = None /\ saved' = None
  /\ pc' = "idle"
  /\ UNCHANGED <<kernel, up, active, gen, timer, calls, todo, half, reason,
                 expired, counters>>

\* Blinking already: only the timer is restarted.
Extend ==
  /\ Idle /\ active /\ starts < MaxStarts
  /\ starts' = starts + 1
  /\ Arm
  /\ UNCHANGED <<kernel, file, up, saved, active, calls, pc, todo, half,
                 reason, expired, crashes>>

-----------------------------------------------------------------------------
(* The end. *)

\* The runtime starts the timer's function: it calls finish.
TimerFires ==
  /\ timer # None
  /\ expired' = expired \cup {timer}
  /\ calls' = calls \cup {[gen |-> timer, reason |-> "timeout"]}
  /\ timer' = None
  /\ UNCHANGED <<kernel, file, up, saved, active, gen, pc, todo, half, reason,
                 counters>>

\* Stop reads the generation and gives the mutex back before it calls finish.
Stop ==
  /\ Idle
  /\ calls' = calls \cup {[gen |-> gen, reason |-> "stopped"]}
  /\ UNCHANGED <<kernel, file, up, saved, active, gen, timer, pc, todo, half,
                 reason, expired, counters>>

\* finish has the mutex.
Finish(c) ==
  /\ Idle /\ c \in calls
  /\ calls' = calls \ {c}
  /\ IF EndsNow(c)
     THEN pc' = "restore" /\ todo' = Led /\ timer' = None /\ reason' = c.reason
     ELSE UNCHANGED <<pc, todo, timer, reason>>
  /\ UNCHANGED <<kernel, file, up, saved, active, gen, half, expired,
                 counters>>

\* Every LED is back: the file goes (after finish and after RecoverStale).
Restored ==
  /\ pc = "restore" /\ todo = {} /\ half = None
  /\ file' = None /\ saved' = None /\ active' = FALSE
  /\ reason' = None
  /\ pc' = "idle"
  /\ UNCHANGED <<kernel, up, gen, timer, calls, todo, half, expired, counters>>

-----------------------------------------------------------------------------
(* The process and its surroundings. *)

\* The daemon dies; with the whole device, the system sets the LEDs at boot
\* and tmpfs is empty.
Crash(reboot) ==
  /\ up /\ crashes < MaxCrashes
  /\ crashes' = crashes + 1
  /\ up' = FALSE
  /\ IF reboot THEN led' = own /\ file' = None ELSE UNCHANGED <<led, file>>
  /\ saved' = None /\ active' = FALSE /\ timer' = None /\ calls' = {}
  /\ gen' = 0 /\ expired' = {}
  /\ pc' = "idle" /\ todo' = {} /\ half' = None
  /\ reason' = None
  /\ UNCHANGED <<refuses, own, starts>>

\* RecoverStale, before anything can call Start; a torn file is removed.
Restart ==
  /\ ~up
  /\ up' = TRUE
  /\ IF file \in {None, Torn}
     THEN file' = None /\ UNCHANGED <<saved, pc, todo>>
     ELSE saved' = file /\ pc' = "restore" /\ todo' = Led /\ UNCHANGED file
  /\ UNCHANGED <<kernel, active, gen, timer, calls, half, reason,
                 expired, counters>>

\* The system gives an LED another setting, between blinks.
Configure(l, s) ==
  /\ pc = "idle" /\ ~active /\ led = own /\ file = None
  /\ own' = [own EXCEPT ![l] = s] /\ led' = own'
  /\ UNCHANGED <<refuses, file, up, memory, expired, counters>>

Init ==
  /\ refuses \in SUBSET Led
  /\ own \in [Led -> OwnSetting] /\ led = own
  /\ file = None /\ up = TRUE
  /\ saved = None /\ active = FALSE /\ gen = 0 /\ timer = None /\ calls = {}
  /\ pc = "idle" /\ todo = {} /\ half = None
  /\ reason = None /\ expired = {}
  /\ starts = 0 /\ crashes = 0

\* The mutex's owner goes on.
OwnerStep ==
  \/ PersistBegins \/ PersistEnds
  \/ \E l \in Led : WriteTrigger(l)
  \/ WriteSettings \/ Blinks \/ NoLedBlinks \/ Restored

Next ==
  \/ OwnerStep
  \/ Snapshot \/ Extend \/ Stop \/ TimerFires
  \/ \E c \in calls : Finish(c)
  \/ \E reboot \in BOOLEAN : Crash(reboot)
  \/ Restart
  \/ \E l \in Led, s \in OwnSetting : Configure(l, s)

Spec == Init /\ [][Next]_vars

\* The scheduler runs the mutex's owner and every finish that waits for it,
\* the runtime fires the timer, procd starts a dead daemon again.
Fairness ==
  /\ WF_vars(OwnerStep)
  /\ WF_vars(TimerFires)
  /\ \A c \in Call : WF_vars(Finish(c))
  /\ WF_vars(Restart)

FairSpec == Spec /\ Fairness

-----------------------------------------------------------------------------
(* Properties. *)

\* When nothing blinks and nobody is at work every LED is exactly as the
\* system set it: after a timeout, a stop, a start no LED took, a start that
\* could not save, and after the recovery that follows a crash at any write.
AsItWas ==
  Idle /\ ~active => led = own

\* An LED that is not as it was is one a crash leaves to the next start: the
\* state file then holds every LED's own setting, whole.
FileCoversBlink ==
  led # own => file = own

\* A restarted blink lasts for its new time: a timer that fired before the
\* restart, and only then gets the mutex, does not end it.
NoEarlyEnd ==
  reason = "timeout" => gen \in expired

\* LEDs that blink stop, and are put back, although nobody stops them and
\* however often the daemon dies.
BlinkEnds == led # own ~> led = own
=============================================================================
