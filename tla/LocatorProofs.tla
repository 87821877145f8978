---------------------------- MODULE LocatorProofs ----------------------------
(***************************************************************************)
(* Proofs about locate, for any LEDs and settings and any number of        *)
(* starts, crashes and reboots.                                            *)
(***************************************************************************)
EXTENDS Locator, TLAPS

\* Every blink has a start of its own: the generation never overtakes them.
Counting ==
  /\ gen <= starts
  /\ pc \in {"persist", "save", "blink"} => gen < starts

\* The mutex's owner is a live daemon, and works on LEDs in two phases only.
Phases ==
  /\ ~up => pc = "idle" /\ ~active
  /\ active => pc \in {"idle", "restore"}
  /\ half # None => pc \in {"blink", "restore"}

\* From the snapshot on, what is saved is what the LEDs were; from the first
\* written LED on, the file holds it too.
Saving ==
  /\ file \in {None, Torn, own}
  /\ pc \in {"persist", "save"} => saved = own
  /\ pc \in {"blink", "restore"} \/ active => saved = own /\ file = own

\* Which LEDs are as they were.
Progress ==
  /\ pc \in {"persist", "save"} => led = own
  /\ pc = "blink" =>
       \A l \in refuses : l \in todo \/ l = half \/ led[l] = own[l]
  /\ pc = "restore" =>
       \A l \in Led : l \in todo \/ l = half \/ led[l] = own[l]

LocatorInv ==
  TypeOK /\ Counting /\ Phases /\ Saving /\ Progress /\ AsItWas
    /\ FileCoversBlink

LEMMA OwnIsSetting == OwnSetting \subseteq Setting /\ Blinking \in Setting
<1>1. ASSUME NEW s \in OwnSetting
      PROVE  s \in Setting
  BY LocatorAssumption DEF Setting
<1>2. Blinking \in Setting
  BY DEF Blinking, Setting
<1> QED
  BY <1>1, <1>2

LEMMA LocatorInit == Init => LocatorInv
<1> SUFFICES ASSUME Init PROVE LocatorInv
  OBVIOUS
<1>1. led \in [Led -> Setting] /\ own \in [Led -> Setting]
  BY OwnIsSetting DEF Init
<1>2. up \in BOOLEAN /\ active \in BOOLEAN
  BY DEF Init
<1>3. TypeOK
  BY <1>1, <1>2, LocatorAssumption DEF Init, TypeOK
<1>4. Counting /\ Phases /\ Saving /\ Progress /\ AsItWas /\ FileCoversBlink
  BY DEF Init, Counting, Phases, Saving, Progress, AsItWas, FileCoversBlink
<1> QED
  BY <1>3, <1>4 DEF LocatorInv

\* An LED whose settings were written: only it changes, and where the saved
\* setting is due it has it.
LEMMA SettledLed ==
  ASSUME LocatorInv, half # None, led' = Settled(half)
  PROVE  /\ led' \in [Led -> Setting]
         /\ \A l \in Led : l # half => led'[l] = led[l]
         /\ pc = "restore" \/ half \in refuses => led'[half] = own[half]
<1>1. saved = own /\ half \in Led /\ own[half] \in OwnSetting
  BY DEF LocatorInv, TypeOK, Phases, Saving
<1> QED
  BY <1>1, OwnIsSetting DEF Settled, LocatorInv, TypeOK

LEMMA LocatorNext == LocatorInv /\ [Next]_vars => LocatorInv'
<1> SUFFICES ASSUME LocatorInv, [Next]_vars
             PROVE  LocatorInv'
  OBVIOUS
<1> USE LocatorAssumption
<1>t. TypeOK
  BY DEF LocatorInv
<1>1. CASE Snapshot
  <2>1. led = own
    BY <1>1 DEF Snapshot, LocatorInv, AsItWas
  <2> QED
    BY <1>1, <2>1
       DEF Snapshot, kernel, Idle, LocatorInv, TypeOK, Counting, Phases, Saving,
           Progress, AsItWas, FileCoversBlink
<1>2. CASE PersistBegins \/ PersistEnds
  BY <1>2
     DEF PersistBegins, PersistEnds, kernel, counters, Idle, LocatorInv, TypeOK,
         Counting, Phases, Saving, Progress, AsItWas, FileCoversBlink
<1>3. ASSUME NEW l \in Led, WriteTrigger(l)
      PROVE  LocatorInv'
  <2>1. saved = own /\ file = own /\ own[l] \in OwnSetting
    BY <1>3, <1>t DEF WriteTrigger, TypeOK, LocatorInv, Saving
  <2>2. led' \in [Led -> Setting]
    <3>1. own[l].trigger \in {s.trigger : s \in OwnSetting}
      BY <2>1
    <3>2. \A t \in {"timer", own[l].trigger} :
            [trigger |-> t, attrs |-> "default"] \in Setting
      BY <3>1 DEF Setting
    <3> QED
      BY <1>3, <1>t, <2>1, <3>2 DEF WriteTrigger, WithTrigger, TypeOK
  <2>3. \A k \in Led : k # l => led'[k] = led[k]
    BY <1>3, <1>t DEF WriteTrigger, WithTrigger, TypeOK
  <2>4. Progress'
    BY <1>3, <1>t, <2>3 DEF WriteTrigger, TypeOK, LocatorInv, Progress
  <2> QED
    BY <1>3, <2>1, <2>2, <2>4
       DEF WriteTrigger, counters, Idle, LocatorInv, TypeOK, Counting, Phases,
           Saving, AsItWas, FileCoversBlink
<1>4. CASE WriteSettings
  <2>1. pc \in {"blink", "restore"} /\ file = own
    BY <1>4 DEF WriteSettings, LocatorInv, Phases, Saving
  <2>2. /\ led' \in [Led -> Setting]
        /\ \A l \in Led : l # half => led'[l] = led[l]
        /\ pc = "restore" \/ half \in refuses => led'[half] = own[half]
    BY <1>4, SettledLed DEF WriteSettings
  <2>3. Progress'
    BY <1>4, <1>t, <2>1, <2>2 DEF WriteSettings, TypeOK, LocatorInv, Progress
  <2> QED
    BY <1>4, <2>1, <2>2, <2>3
       DEF WriteSettings, counters, Idle, LocatorInv, TypeOK, Counting, Phases,
           Saving, AsItWas, FileCoversBlink
<1>5. CASE Blinks \/ Extend
  <2>1. gen < starts'
    BY <1>5, <1>t DEF Blinks, Extend, counters, TypeOK, LocatorInv, Counting
  <2>2. gen' \in Generation /\ timer' = gen'
    BY <1>5, <1>t, <2>1
       DEF Blinks, Extend, Arm, counters, Generation, TypeOK
  <2>3. active' /\ active' \in BOOLEAN
    BY <1>5, <1>t DEF Blinks, Extend, TypeOK
  <2>4. starts' \in 0..MaxStarts /\ gen' \in 0..MaxStarts /\ gen' <= starts'
    BY <1>5, <1>t, <2>1, <2>2 DEF Blinks, Extend, Arm, counters, Generation, TypeOK
  <2>5. /\ up /\ pc' = "idle" /\ half' = None /\ todo' \subseteq Led
        /\ saved = own /\ file = own
    BY <1>5, <1>t
       DEF Blinks, Extend, Idle, TypeOK, LocatorInv, Phases, Saving
  <2>6. UNCHANGED <<kernel, file, up, saved, calls, reason, expired, crashes>>
    BY <1>5 DEF Blinks, Extend, counters
  <2>7. TypeOK'
    BY <1>t, <2>2, <2>3, <2>4, <2>5, <2>6 DEF kernel, TypeOK
  <2> QED
    BY <2>3, <2>4, <2>5, <2>6, <2>7
       DEF kernel, Idle, LocatorInv, Counting, Phases, Saving, Progress,
           AsItWas, FileCoversBlink
<1>6. CASE NoLedBlinks \/ Restored
  <2>1. \A l \in Led : led[l] = own[l]
    BY <1>6, <1>t
       DEF NoLedBlinks, Restored, TypeOK, LocatorInv, Progress
  <2>2. led = own
    BY <1>t, <2>1 DEF TypeOK
  <2>3. active' \in BOOLEAN /\ ~active'
    <3>1. CASE NoLedBlinks
      BY <1>t, <3>1 DEF NoLedBlinks, TypeOK, LocatorInv, Phases
    <3>2. CASE Restored
      BY <3>2 DEF Restored
    <3> QED
      BY <1>6, <3>1, <3>2
  <2>4. /\ file' = None /\ saved' = None /\ pc' = "idle" /\ half' = None
        /\ reason' \in {reason, None}
        /\ UNCHANGED <<kernel, up, gen, timer, calls, todo, expired, counters>>
    BY <1>6 DEF NoLedBlinks, Restored
  <2>5. TypeOK'
    BY <1>t, <2>3, <2>4 DEF kernel, counters, TypeOK
  <2>6. Counting' /\ Saving' /\ Progress'
    BY <2>3, <2>4 DEF counters, LocatorInv, Counting, Saving, Progress
  <2>7. Phases' /\ AsItWas' /\ FileCoversBlink'
    BY <2>2, <2>3, <2>4 DEF kernel, Phases, AsItWas, FileCoversBlink
  <2> QED
    BY <2>5, <2>6, <2>7 DEF LocatorInv
<1>7. CASE TimerFires \/ Stop
  <2>1. calls' \subseteq Call /\ expired' \subseteq Generation
        /\ timer' \in Generation \cup {None}
    BY <1>7, <1>t DEF TimerFires, Stop, TypeOK, Call, Generation
  <2> QED
    BY <1>7, <2>1
       DEF TimerFires, Stop, kernel, counters, Idle, LocatorInv, TypeOK,
           Counting, Phases, Saving, Progress, AsItWas, FileCoversBlink
<1>8. ASSUME NEW c \in calls, Finish(c)
      PROVE  LocatorInv'
  BY <1>8
     DEF Finish, EndsNow, Call, kernel, counters, Idle, LocatorInv, TypeOK,
         Counting, Phases, Saving, Progress, AsItWas, FileCoversBlink
<1>9. ASSUME NEW reboot \in BOOLEAN, Crash(reboot)
      PROVE  LocatorInv'
  <2>1. own \in [Led -> Setting]
    BY <1>t, OwnIsSetting DEF TypeOK
  <2>2. up' \in BOOLEAN /\ active' \in BOOLEAN /\ ~up' /\ ~active'
    BY <1>9 DEF Crash
  <2>3. UNCHANGED own /\ ((led' = own /\ file' = None) \/ UNCHANGED <<led, file>>)
    BY <1>9 DEF Crash
  <2>4. TypeOK'
    BY <1>9, <1>t, <2>1, <2>2, <2>3 DEF Crash, TypeOK
  <2> QED
    BY <1>9, <1>t, <2>2, <2>3, <2>4
       DEF Crash, Idle, LocatorInv, TypeOK, Counting, Phases, Saving, Progress,
           AsItWas, FileCoversBlink
<1>10. CASE Restart
  <2>1. own # None /\ own # Torn
    BY <1>t DEF TypeOK
  <2> QED
    BY <1>10, <2>1
       DEF Restart, kernel, counters, Idle, LocatorInv, TypeOK, Counting,
           Phases, Saving, Progress, AsItWas, FileCoversBlink
<1>11. ASSUME NEW l \in Led, NEW s \in OwnSetting, Configure(l, s)
       PROVE  LocatorInv'
  <2>1. own' \in [Led -> OwnSetting] /\ led' = own' /\ led' \in [Led -> Setting]
    BY <1>11, <1>t, OwnIsSetting DEF Configure, TypeOK
  <2> QED
    BY <1>11, <2>1
       DEF Configure, memory, counters, Idle, LocatorInv, TypeOK, Counting,
           Phases, Saving, Progress, AsItWas, FileCoversBlink
<1>12. CASE UNCHANGED vars
  BY <1>12
     DEF vars, kernel, memory, counters, Idle, LocatorInv, TypeOK, Counting,
         Phases, Saving, Progress, AsItWas, FileCoversBlink
<1> QED
  BY <1>1, <1>2, <1>3, <1>4, <1>5, <1>6, <1>7, <1>8, <1>9, <1>10, <1>11, <1>12
     DEF Next, OwnerStep

LEMMA LocatorHolds == Spec => []LocatorInv
BY LocatorInit, LocatorNext, PTL DEF Spec

\* The locator's state has its type: no step reads a snapshot that is not
\* there.
THEOREM LocatorTypes == Spec => []TypeOK
<1>1. LocatorInv => TypeOK
  BY DEF LocatorInv
<1> QED
  BY LocatorHolds, <1>1, PTL

\* Whatever ended the blink, and wherever the daemon died in it, a locator at
\* rest has left every LED as the system had set it (the package comment's
\* "put each LED back exactly as it was").
THEOREM LedsComeBack == Spec => []AsItWas
<1>1. LocatorInv => AsItWas
  BY DEF LocatorInv
<1> QED
  BY LocatorHolds, <1>1, PTL

\* At every single write the state file is enough to put back what is changed.
THEOREM FileIsEnough == Spec => []FileCoversBlink
<1>1. LocatorInv => FileCoversBlink
  BY DEF LocatorInv
<1> QED
  BY LocatorHolds, <1>1, PTL
-----------------------------------------------------------------------------
(* Stale timers. *)

\* A timeout that waits for the mutex is that of an expired generation; one
\* that is being carried out is that of the last generation.
Expiry ==
  /\ \A c \in calls : c.reason = "timeout" => c.gen \in expired
  /\ reason = "timeout" => pc = "restore" /\ gen \in expired

LEMMA ExpiryNext == LocatorInv /\ Expiry /\ [Next]_vars => Expiry'
<1> SUFFICES ASSUME LocatorInv, Expiry, [Next]_vars
             PROVE  Expiry'
  OBVIOUS
<1> USE DEF Expiry
<1>0. CASE Restart
  <2>1. reason # "timeout"
    BY <1>0 DEF Restart, LocatorInv, Phases
  <2>2. UNCHANGED <<calls, reason, gen, expired>>
    BY <1>0 DEF Restart
  <2> QED
    BY <2>1, <2>2
<1>1. CASE Snapshot \/ PersistBegins \/ PersistEnds \/ WriteSettings
  BY <1>1 DEF Snapshot, PersistBegins, PersistEnds, WriteSettings, Idle
<1>9. CASE UNCHANGED vars
  BY <1>9 DEF vars, memory
<1>2. ASSUME NEW l \in Led, WriteTrigger(l)
      PROVE  Expiry'
  BY <1>2 DEF WriteTrigger
<1>3. CASE Blinks \/ Extend \/ NoLedBlinks
  BY <1>3 DEF Blinks, Extend, NoLedBlinks, Idle
<1>4. CASE Restored
  BY <1>4, LocatorAssumption DEF Restored, LocatorInv, TypeOK
<1>5. CASE TimerFires \/ Stop
  BY <1>5 DEF TimerFires, Stop, Idle
<1>6. ASSUME NEW c \in calls, Finish(c)
      PROVE  Expiry'
  BY <1>6 DEF Finish, EndsNow, Idle
<1>7. ASSUME NEW reboot \in BOOLEAN, Crash(reboot)
      PROVE  Expiry'
  BY <1>7, LocatorAssumption DEF Crash
<1>8. ASSUME NEW l \in Led, NEW s \in OwnSetting, Configure(l, s)
      PROVE  Expiry'
  BY <1>8 DEF Configure, memory
<1> QED
  BY <1>0, <1>1, <1>2, <1>3, <1>4, <1>5, <1>6, <1>7, <1>8, <1>9
     DEF Next, OwnerStep

\* A blink that was restarted is not ended by the timer it had before: the
\* generation test of finish is enough, however the two race.
THEOREM RestartIsKept == Spec => []NoEarlyEnd
<1>1. Init => Expiry
  BY LocatorAssumption DEF Init, Expiry
<1>2. Expiry => NoEarlyEnd
  BY DEF Expiry, NoEarlyEnd
<1> QED
  BY LocatorInit, LocatorNext, ExpiryNext, <1>1, <1>2, PTL DEF Spec
-----------------------------------------------------------------------------
(* The blink's time. *)

\* LEDs that blink while nobody is at work are to be stopped: the timer of the
\* blink is armed, or its call waits for the mutex.
BlinkHasAnEnd ==
  Idle /\ active => timer = gen \/ [gen |-> gen, reason |-> "timeout"] \in calls

LEMMA BlinkNext ==
  LocatorInv /\ BlinkHasAnEnd /\ [Next]_vars => BlinkHasAnEnd'
<1> SUFFICES ASSUME LocatorInv, BlinkHasAnEnd, [Next]_vars
             PROVE  BlinkHasAnEnd'
  OBVIOUS
<1> USE DEF BlinkHasAnEnd, Idle
<1>1. CASE Snapshot \/ PersistBegins \/ WriteSettings
  BY <1>1 DEF Snapshot, PersistBegins, WriteSettings, LocatorInv, Phases
<1>2. CASE PersistEnds \/ NoLedBlinks \/ Restored
  BY <1>2 DEF PersistEnds, NoLedBlinks, Restored, LocatorInv, Phases
<1>3. ASSUME NEW l \in Led, WriteTrigger(l)
      PROVE  BlinkHasAnEnd'
  BY <1>3 DEF WriteTrigger
<1>4. CASE Blinks \/ Extend
  BY <1>4 DEF Blinks, Extend, Arm
<1>5. CASE TimerFires
  BY <1>5 DEF TimerFires
<1>6. CASE Stop
  BY <1>6 DEF Stop
<1>7. ASSUME NEW c \in calls, Finish(c)
      PROVE  BlinkHasAnEnd'
  BY <1>7 DEF Finish, EndsNow
<1>8. ASSUME NEW reboot \in BOOLEAN, Crash(reboot)
      PROVE  BlinkHasAnEnd'
  BY <1>8 DEF Crash
<1>9. CASE Restart
  BY <1>9 DEF Restart, LocatorInv, Phases
<1>10. ASSUME NEW l \in Led, NEW s \in OwnSetting, Configure(l, s)
       PROVE  BlinkHasAnEnd'
  BY <1>10 DEF Configure, memory
<1>11. CASE UNCHANGED vars
  BY <1>11 DEF vars, memory
<1> QED
  BY <1>1, <1>2, <1>3, <1>4, <1>5, <1>6, <1>7, <1>8, <1>9, <1>10, <1>11
     DEF Next, OwnerStep

\* No blink is left without an end: however starts, stops and timers race, a
\* blink has its timer, or that timer's call of finish under way (the
\* generation test of finish never drops the last one).
THEOREM EveryBlinkIsTimed == Spec => []BlinkHasAnEnd
<1>1. Init => BlinkHasAnEnd
  BY DEF Init, BlinkHasAnEnd
<1> QED
  BY LocatorInit, LocatorNext, BlinkNext, <1>1, PTL DEF Spec
=============================================================================
