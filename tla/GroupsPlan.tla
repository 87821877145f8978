------------------------------ MODULE GroupsPlan ------------------------------
(***************************************************************************)
(* The planner of the device groups (internal/groups/plan.go): the ledger  *)
(* of what the groups created and changed, and the plans made one after    *)
(* the other from it, while people and the Wi-Fi config plane edit the     *)
(* same two files.                                                         *)
(*                                                                         *)
(* A step of Apply is an apply that was confirmed; how it is written,      *)
(* rolled back or lost is GroupsEngine's.  The sections' contents are left *)
(* out, except what the planner decides by: a bridge-vlan's bridge and id, *)
(* an interface's device, an access point's dynamic_vlan.                  *)
(***************************************************************************)
EXTENDS Naturals

CONSTANTS
  Bridge,              \* the bridge devices
  MaxVid,              \* the largest VLAN id (4094)
  Iface,               \* the network's interface sections
  Ap,                  \* the access points (wifi-iface) with a passphrase
  MaxStation,          \* bound on the wifi-station sections of a plan
  Foreign,             \* sections of others with names the groups use
  EarlyForeign,        \* whether one may be there before the first apply
  MaxEdits,            \* bound on the others' edits
  Alone, Unknown,      \* a trunk outside every bridge; one not found
  None, NotRecorded

VARIABLES
  files,               \* the two configs
  ledger,              \* state.json's ledger, of the last confirmed apply
  base,                \* history: the configs had there been no groups
  edits
vars == <<files, ledger, base, edits>>

Vid == 1..MaxVid
Dyn == {"", "1", "2"}                       \* "": no dynamic_vlan option
Device == [bridge : Bridge, vid : Vid \cup {None}]
Bare(b) == [bridge |-> b, vid |-> None]
Tagged(b, v) == [bridge |-> b, vid |-> v]

\* The names the groups give (OwnedName), and those others give VLANs.
EngineName ==
  {<<"bvu">>} \cup ({"v", "bv", "dv", "bd"} \X Vid)
    \cup ({"ws"} \X (0..MaxStation)) \cup ({"wv"} \X Vid \X Ap)
OthersName == {"nbv"} \X Bridge \X Vid

\* A section; dev and vid are a bridge-vlan's.
Section(cfg, name) == [cfg |-> cfg, name |-> name, dev |-> None, vid |-> None]
BridgeVLAN(name, b, v) ==
  [cfg |-> "network", name |-> name, dev |-> b, vid |-> v]
OthersVLAN(b, v) == BridgeVLAN(<<"nbv", b, v>>, b, v)
SectionSet == [cfg : {"wireless", "network"}, name : EngineName \cup OthersName,
               dev : Bridge \cup {None}, vid : Vid \cup {None}]

ASSUME PlanAssumption ==
  /\ MaxVid \in Nat \ {0} /\ MaxStation \in Nat /\ MaxEdits \in Nat
  /\ EarlyForeign \in BOOLEAN
  /\ Foreign \subseteq [cfg : {"wireless", "network"}, name : EngineName,
                        dev : Bridge \cup {None}, vid : Vid \cup {None}]
  /\ None \notin Bridge \cup Nat \cup [bridge : Bridge, vid : Vid, moved : SUBSET Iface]
  /\ NotRecorded \notin {"", "1", "2"}
  /\ Alone \notin Bridge /\ Unknown \notin Bridge /\ Alone # Unknown

FilesSet == [sections : SUBSET SectionSet, dev : [Iface -> Device], dyn : [Ap -> Dyn]]
Conversion == [bridge : Bridge, vid : Vid, moved : SUBSET Iface]
LedgerSet == [listed : BOOLEAN, owned : SUBSET EngineName,
              dyn : [Ap -> Dyn \cup {NotRecorded}],
              conv : Conversion \cup {None}]
Desired == [vids : SUBSET Vid, aps : SUBSET Ap, stations : 0..MaxStation,
            trunk : Bridge \cup {Alone, Unknown}]

TypeOK ==
  /\ files \in FilesSet /\ base \in FilesSet
  /\ ledger \in LedgerSet
  /\ edits \in 0..MaxEdits

-----------------------------------------------------------------------------
(* What the last apply left is taken back first. *)

\* The bridge-vlan sections of a bridge.
BridgeVLANs(f, b) == {s \in f.sections : s.dev = b}

\* What the engine created: by the ledger, else by the names' pattern.
OwnedSet(f, l) ==
  IF l.listed THEN l.owned
  ELSE {s.name : s \in f.sections} \cap EngineName

\* Mutant of Kept: a conversion is always undone.
KeptNever(f, l) == FALSE

\* A conversion stays while its bridge carries a VLAN that is not the groups'.
Kept(f, l) ==
  /\ l.conv # None
  /\ \E s \in BridgeVLANs(f, l.conv.bridge) : s.name \notin OwnedSet(f, l)

\* Mutant of RestoredDev: it goes back wherever it is.
RestoredDevBlindly(f, l, i) ==
  IF i \in l.conv.moved THEN Bare(l.conv.bridge) ELSE f.dev[i]

\* An interface goes back only if it still is where the conversion put it.
RestoredDev(f, l, i) ==
  IF i \in l.conv.moved /\ f.dev[i] = Tagged(l.conv.bridge, l.conv.vid)
  THEN Bare(l.conv.bridge) ELSE f.dev[i]

RestoredDyn(f, l, a) == IF l.dyn[a] # NotRecorded THEN l.dyn[a] ELSE f.dyn[a]

\* undo, when the conversion is kept and when it is not.
Undone(f, l, kept) ==
  LET gone == IF kept THEN OwnedSet(f, l) \ {<<"bvu">>} ELSE OwnedSet(f, l)
  IN  [sections |-> {s \in f.sections : s.name \notin gone},
       dyn |-> [a \in Ap |-> RestoredDyn(f, l, a)],
       dev |-> [i \in Iface |-> IF l.conv = None \/ kept THEN f.dev[i]
                                ELSE RestoredDev(f, l, i)]]
Undo(f, l) == Undone(f, l, Kept(f, l))

-----------------------------------------------------------------------------
(* Then the plan is made from what is left: f is what undo returned. *)

\* The VLAN of a converted bridge's untagged traffic: the one it had before,
\* else the smallest the groups do not use.
Free(d) == (1..(MaxVid + 1)) \ d.vids
Untagged(d, l) ==
  IF l.conv # None /\ l.conv.bridge = d.trunk /\ l.conv.vid \notin d.vids
  THEN l.conv.vid
  ELSE CHOOSE v \in Free(d) : \A u \in Free(d) : v <= u

KeptOn(d, l, kept) == kept /\ l.conv.bridge = d.trunk

Converts(d, f, l, kept) ==
  /\ d.trunk \in Bridge
  /\ ~KeptOn(d, l, kept)
  /\ BridgeVLANs(f, d.trunk) = {}

\* Mutant of RouterVLAN: the engine always adds its own.
RouterVLANNever(f, b, v) == FALSE

\* Somebody else carries the VLAN on the bridge: it is used as it is.
RouterVLAN(f, b, v) == \E s \in BridgeVLANs(f, b) : s.vid = v

BridgeSections(d, f) ==
  {BridgeVLAN(<<"bv", v>>, d.trunk, v) : v \in {u \in d.vids : ~RouterVLAN(f, d.trunk, u)}}

Created(d, f, l, kept) ==
  (IF d.trunk \in Bridge THEN BridgeSections(d, f)
   ELSE {Section("network", n) : n \in {"dv", "bd"} \X d.vids})
  \cup (IF Converts(d, f, l, kept)
        THEN {BridgeVLAN(<<"bvu">>, d.trunk, Untagged(d, l))} ELSE {})
  \cup {Section("network", <<"v", v>>) : v \in d.vids}
  \cup {Section("wireless", n) : n \in {"wv"} \X d.vids \X d.aps}
  \cup {Section("wireless", <<"ws", k>>) : k \in {j \in 0..MaxStation : j < d.stations}}

\* Another section of that file has a name the plan needs.
Taken(created, f) ==
  \E c \in created, s \in f.sections : s.cfg = c.cfg /\ s.name = c.name

\* Mutant of Refused: the search for a free VLAN id has no end.
RefusedNotFull(d, f, l, kept) ==
  /\ d.vids # {}
  /\ \/ d.aps = {} \/ d.trunk = Unknown
     \/ KeptOn(d, l, kept) /\ l.conv.vid \in d.vids
     \/ Converts(d, f, l, kept) /\ kept
     \/ Taken(Created(d, f, l, kept), f)

Refused(d, f, l, kept) ==
  /\ d.vids # {}
  /\ \/ d.aps = {}                                       \* no_managed_iface
     \/ d.trunk = Unknown                                \* trunk_unknown
     \/ KeptOn(d, l, kept) /\ l.conv.vid \in d.vids      \* untagged_vlan_conflict
     \/ Converts(d, f, l, kept) /\ kept                  \* conversion_conflict
     \/ Converts(d, f, l, kept) /\ Untagged(d, l) > MaxVid  \* no_untagged_vlan
     \/ Taken(Created(d, f, l, kept), f)                 \* name_taken

\* The interfaces a conversion moves off the bare bridge.
Moves(d, f) == {i \in Iface : f.dev[i] = Bare(d.trunk)}

\* The configs and the ledger of a plan with VLANs.
Planned(d, f, l, kept) ==
  LET converts == Converts(d, f, l, kept)
  IN  [sections |-> f.sections \cup Created(d, f, l, kept),
       dyn |-> [a \in Ap |-> IF a \in d.aps THEN "1" ELSE f.dyn[a]],
       dev |-> [i \in Iface |-> IF converts /\ i \in Moves(d, f)
                                THEN Tagged(d.trunk, Untagged(d, l)) ELSE f.dev[i]]]

\* Mutant of OwnedNames: only the wireless sections go into the ledger.
OwnedOfWireless(created, kept) ==
  {s.name : s \in {t \in created : t.cfg = "wireless"}}
    \cup (IF kept THEN {<<"bvu">>} ELSE {})

OwnedNames(created, kept) ==
  {s.name : s \in created} \cup (IF kept THEN {<<"bvu">>} ELSE {})
NewLedger(d, f, l, kept) ==
  [listed |-> TRUE, owned |-> OwnedNames(Created(d, f, l, kept), kept),
   dyn |-> [a \in Ap |-> IF a \in d.aps /\ f.dyn[a] # "1" THEN f.dyn[a] ELSE NotRecorded],
   conv |-> IF kept THEN l.conv
            ELSE IF Converts(d, f, l, kept)
            THEN [bridge |-> d.trunk, vid |-> Untagged(d, l), moved |-> Moves(d, f)]
            ELSE None]

\* No VLANs: nothing is created, and only a conversion others need stays.
EmptyLedger(l, kept) ==
  [listed |-> TRUE, owned |-> OwnedNames({}, kept), dyn |-> [a \in Ap |-> NotRecorded],
   conv |-> IF kept THEN l.conv ELSE None]

-----------------------------------------------------------------------------
Init ==
  /\ files \in [sections : {{}}, dev : [Iface -> {Bare(b) : b \in Bridge}],
                dyn : [Ap -> Dyn]]
  /\ base = files
  /\ ledger = [listed |-> FALSE, owned |-> {}, dyn |-> [a \in Ap |-> NotRecorded], conv |-> None]
  /\ edits = 0

\* groups.apply with VLANs, confirmed.
ApplyTo(left, kept) ==
  \E d \in Desired :
    /\ d.vids # {}
    /\ ~Refused(d, left, ledger, kept)
    /\ files' = Planned(d, left, ledger, kept)
    /\ ledger' = NewLedger(d, left, ledger, kept)
Apply ==
  /\ ApplyTo(Undo(files, ledger), Kept(files, ledger))
  /\ UNCHANGED <<base, edits>>

\* groups.apply without VLANs, confirmed: the groups are removed.
ApplyNothing ==
  /\ files' = Undo(files, ledger)
  /\ ledger' = EmptyLedger(ledger, Kept(files, ledger))
  /\ UNCHANGED <<base, edits>>

-----------------------------------------------------------------------------
(* The others: the router's owner and the Wi-Fi config plane. *)

Edit == edits < MaxEdits /\ edits' = edits + 1 /\ UNCHANGED ledger

AddSection(s) ==
  /\ \A t \in files.sections : t.cfg = s.cfg => t.name # s.name
  /\ files' = [files EXCEPT !.sections = @ \cup {s}]
  /\ base' = [base EXCEPT !.sections = @ \cup {s}]
  /\ Edit

AddForeign(s) == (EarlyForeign \/ ledger.listed) /\ AddSection(s)

DeleteSection(s) ==
  /\ s \in base.sections
  /\ files' = [files EXCEPT !.sections = @ \ {s}]
  /\ base' = [base EXCEPT !.sections = @ \ {s}]
  /\ Edit

\* An interface is put on a bare bridge or on a VLAN of the others' own; that
\* the groups have put a bridge's traffic in a VLAN is not theirs to rely on.
MoveIface(i, device) ==
  /\ device.vid # None =>
       /\ OthersVLAN(device.bridge, device.vid) \in base.sections
       /\ ledger.conv # None =>
            device # Tagged(ledger.conv.bridge, ledger.conv.vid)
  /\ device # files.dev[i]
  /\ files' = [files EXCEPT !.dev[i] = device]
  /\ base' = [base EXCEPT !.dev[i] = device]
  /\ Edit

\* dynamic_vlan is set on an access point the groups have not taken over.
SetDyn(a, value) ==
  /\ ledger.dyn[a] = NotRecorded /\ value # files.dyn[a]
  /\ files' = [files EXCEPT !.dyn[a] = value]
  /\ base' = [base EXCEPT !.dyn[a] = value]
  /\ Edit

Next ==
  \/ Apply
  \/ ApplyNothing
  \/ \E b \in Bridge, v \in Vid : AddSection(OthersVLAN(b, v))
  \/ \E s \in Foreign : AddForeign(s)
  \/ \E s \in base.sections : DeleteSection(s)
  \/ \E i \in Iface, device \in Device : MoveIface(i, device)
  \/ \E a \in Ap, value \in Dyn : SetDyn(a, value)

Spec == Init /\ [][Next]_vars

-----------------------------------------------------------------------------
\* Taking back what the ledger recorded, the conversion too, always gives the
\* configs as they would be had there never been groups: after any applies,
\* refusals and conversions kept, moved and redone, and any edits of others
\* (plan.go undo, Ledger).
UndoGivesBase == Undone(files, ledger, FALSE) = base

\* Undo, and the plan of d from what it left, end where they began.
Repeats(d, f, l) ==
  LET kept == Kept(f, l)
      left == Undo(f, l)
  IN  /\ ~Refused(d, left, l, kept)
      /\ Planned(d, left, l, kept) = f
      /\ NewLedger(d, left, l, kept) = l

\* The same desired state again changes nothing, and is not refused: the engine
\* finds that the files hold it, and reloads nothing ("not idempotent" in
\* plan_test.go; Apply's noop).
ReapplyIsNoop ==
  LET kept == Kept(files, ledger)
      left == Undo(files, ledger)
  IN  \A d \in Desired :
        d.vids # {} /\ ~Refused(d, left, ledger, kept) =>
          Repeats(d, Planned(d, left, ledger, kept), NewLedger(d, left, ledger, kept))

\* No section of somebody else is ever removed: a section of one of the groups'
\* names that the groups did not create refuses the apply (PROTOCOL.md).
OthersSectionsStay == base.sections \subseteq files.sections

\* An interface has its traffic: on a bare bridge without VLANs, on a VLAN
\* somebody else carries, or where a conversion put it.
Works(f, l, i) ==
  LET b == f.dev[i].bridge
      carriers == {s \in BridgeVLANs(f, b) : s.vid = f.dev[i].vid}
  IN  \/ f.dev[i] = Bare(b) /\ BridgeVLANs(f, b) = {}
      \/ \E s \in carriers : s.name \notin OwnedSet(f, l)
      \/ /\ l.conv # None /\ i \in l.conv.moved
         /\ \E s \in carriers : s.name = <<"bvu">>

\* No apply takes an interface's traffic away: converting a bridge, keeping the
\* conversion and undoing it (plan.go convert, undo).
KeepsWorking ==
  [][edits' = edits => \A i \in Iface : Works(files, ledger, i) => Works(files', ledger', i)]_vars

Once(f, b, v) == \A s, t \in BridgeVLANs(f, b) : s.vid = v /\ t.vid = v => s = t

\* No apply puts a VLAN on a bridge a second time (plan.go routerVLAN, and the
\* choice of the untagged VLAN).
NoDuplicateVLAN ==
  [][edits' = edits => \A b \in Bridge, v \in Vid :
       Once(files, b, v) => Once(files', b, v)]_vars
=============================================================================
