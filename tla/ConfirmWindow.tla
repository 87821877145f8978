---------------------------- MODULE ConfirmWindow ----------------------------
(***************************************************************************)
(* What the device-groups engine promises about the access point's two     *)
(* config files, without saying how: the groups' sections change only      *)
(* inside a window; a window is opened over an exact copy of the files; it *)
(* ends either by keeping what is there, and then its revision is the      *)
(* applied one, or by having put the copy back, and then it is reported as *)
(* rolled back; other writers change their own sections, and only between  *)
(* windows.                                                                *)
(***************************************************************************)

CONSTANTS
  File,                \* the config files
  None                 \* no window is open

VARIABLES
  config,              \* config[f].own: the groups' sections, .other: the rest
  saved,               \* the copy a rollback puts back
  window,              \* the open window, or None
  applied,             \* the revision last kept
  reported             \* the window last reported as rolled back

wvars == <<config, saved, window, applied, reported>>

Init == window = None /\ reported = None

\* Between windows the copy may be written or removed.
Prepare ==
  /\ window = None
  /\ UNCHANGED <<config, window, applied, reported>>

\* The desired state is what the files hold already: nothing to confirm.
Adopt ==
  /\ window = None
  /\ UNCHANGED <<config, saved, window, reported>>

Open ==
  /\ window = None /\ window' # None
  /\ \A f \in File : saved[f] = config[f]
  /\ UNCHANGED <<config, saved, applied, reported>>

\* Inside the window the groups' sections move, and nothing else does.
Change ==
  /\ window # None
  /\ \A f \in File : config'[f].other = config[f].other
  /\ UNCHANGED <<saved, window, applied, reported>>

Keep ==
  /\ window # None /\ window' = None
  /\ applied' = window.rev
  /\ UNCHANGED <<config, saved, reported>>

Restore ==
  /\ window # None /\ window' = None
  /\ \A f \in File : config[f] = saved[f]
  /\ reported' = [rev |-> window.rev, deadline |-> window.deadline]
  /\ UNCHANGED <<config, saved, applied>>

OtherWriter ==
  /\ window = None
  /\ \A f \in File : config'[f].own = config[f].own
  /\ UNCHANGED <<saved, window, applied, reported>>

Next ==
  Prepare \/ Adopt \/ Open \/ Change \/ Keep \/ Restore \/ OtherWriter

Spec == Init /\ [][Next]_wvars
=============================================================================
