----------------------------- MODULE MCHealthCheck -----------------------------
(* Configs and expectations for TLC. *)
EXTENDS HealthCheck

CONSTANTS r1, r2, b1, b2

\* Both BSSes are on one radio; the other is a stale section.
MCRadioOf == [b \in Bss |-> r1]

Loaded(on, section, enabled) ==
  [file |-> "loads", on |-> on, section |-> section, enabled |-> enabled]

\* A BSS is enabled, disabled, deleted; the radio is switched off; no file.
MCConfigs ==
  {Loaded({r1}, {b1, b2}, {b1}), Loaded({r1}, {b1, b2}, {b1, b2}),
   Loaded({r1, r2}, {b1}, {b1}), Loaded({}, {b1, b2}, {b1, b2}),
   [file |-> "absent", on |-> {}, section |-> {}, enabled |-> {}]}

MCExpects ==
  {Nothing, [radio |-> {r2}, bss |-> {}], [radio |-> {}, bss |-> {b2}]}
=============================================================================
