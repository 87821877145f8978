--------------------------- MODULE GroupsPlanProofs ---------------------------
(***************************************************************************)
(* What the ledger of the device groups guarantees, for any bridges,       *)
(* interfaces, access points and VLAN ids, and any number of applies and   *)
(* edits: what it recorded always takes the configs back to what they      *)
(* would be had there been no groups; no VLAN is made twice, and every     *)
(* interface keeps its traffic.                                            *)
(*                                                                         *)
(* Two things are assumed of the others' sections.  Those with a name of   *)
(* the groups come after the first apply (the first one takes every such   *)
(* name for its own) and are in the file the groups use the name in (the   *)
(* ledger does not say which file a name is of).                           *)
(***************************************************************************)
EXTENDS GroupsPlan, WellFoundedInduction, TLAPS

WirelessName == ({"ws"} \X (0..MaxStation)) \cup ({"wv"} \X Vid \X Ap)
InItsFile(s) == s.cfg = IF s.name \in WirelessName THEN "wireless" ELSE "network"

OthersBehave ==
  /\ ~EarlyForeign
  /\ \A s \in Foreign : InItsFile(s)

-----------------------------------------------------------------------------
(* The names. *)

LEMMA NamesApart == OthersName \cap EngineName = {}
<1> SUFFICES ASSUME NEW n \in OthersName PROVE n \notin EngineName
  OBVIOUS
<1>1. PICK b \in Bridge, v \in Vid : n = <<"nbv", b, v>>
  BY DEF OthersName
<1>2. n # <<"bvu">>
  BY <1>1
<1>3. n \notin {"v", "bv", "dv", "bd"} \X Vid
  BY <1>1
<1>4. n \notin {"ws"} \X (0..MaxStation)
  BY <1>1
<1>5. n \notin {"wv"} \X Vid \X Ap
  BY <1>1
<1> QED BY <1>2, <1>3, <1>4, <1>5 DEF EngineName

LEMMA WirelessNames ==
  /\ WirelessName \subseteq EngineName
  /\ <<"bvu">> \in EngineName /\ <<"bvu">> \notin WirelessName
  /\ \A k \in {"v", "bv", "dv", "bd"}, v \in Vid :
       <<k, v>> \in EngineName /\ <<k, v>> \notin WirelessName
<1>1. <<"bvu">> \notin WirelessName
  BY DEF WirelessName
<1>2. \A k \in {"v", "bv", "dv", "bd"}, v \in Vid : <<k, v>> \notin WirelessName
  BY DEF WirelessName
<1> QED BY <1>1, <1>2 DEF EngineName, WirelessName

-----------------------------------------------------------------------------
(* The untagged VLAN of a conversion. *)

LEMMA FreeHasLeast ==
  ASSUME NEW d \in Desired
  PROVE  \E v \in Free(d) : \A u \in Free(d) : v <= u
<1>1. Free(d) \subseteq Nat /\ MaxVid + 1 \in Free(d)
  <2>1. MaxVid \in Nat /\ d.vids \subseteq Vid
    BY PlanAssumption DEF Desired
  <2> QED BY <2>1 DEF Free, Vid
<1>2. PICK v \in Free(d) : \A u \in Free(d) : <<u, v>> \notin OpToRel(<, Nat)
  BY <1>1, NatLessThanWellFounded, WFMin
<1>3. \A u \in Free(d) : ~(u < v)
  BY <1>1, <1>2 DEF OpToRel
<1> QED BY <1>1, <1>3

LEMMA UntaggedType ==
  ASSUME NEW d \in Desired, NEW l \in LedgerSet, ~(Untagged(d, l) > MaxVid)
  PROVE  Untagged(d, l) \in Vid
<1>1. CASE l.conv # None /\ l.conv.bridge = d.trunk /\ l.conv.vid \notin d.vids
  <2>1. l.conv \in Conversion
    BY <1>1 DEF LedgerSet
  <2> QED BY <1>1, <2>1 DEF Untagged, Conversion
<1>2. CASE ~(l.conv # None /\ l.conv.bridge = d.trunk /\ l.conv.vid \notin d.vids)
  <2>1. Untagged(d, l) \in Free(d)
    BY <1>2, FreeHasLeast DEF Untagged
  <2>2. MaxVid \in Nat /\ Untagged(d, l) \in 1..(MaxVid + 1)
    BY <2>1, PlanAssumption DEF Free
  <2> QED BY <2>2 DEF Vid
<1> QED BY <1>1, <1>2

-----------------------------------------------------------------------------
(* What undo gives, part by part. *)

SectionsBack(f, l, b) ==
  \A s \in SectionSet :
    s \in b.sections <=> s \in f.sections /\ s.name \notin OwnedSet(f, l)
DynBack(f, l, b) == \A a \in Ap : b.dyn[a] = RestoredDyn(f, l, a)
DevBack(f, l, b) ==
  \A i \in Iface :
    b.dev[i] = IF l.conv = None THEN f.dev[i] ELSE RestoredDev(f, l, i)

LEMMA BackIsBase ==
  ASSUME NEW f \in FilesSet, NEW b \in FilesSet, NEW l \in LedgerSet
  PROVE  Undone(f, l, FALSE) = b
           <=> SectionsBack(f, l, b) /\ DynBack(f, l, b) /\ DevBack(f, l, b)
<1> DEFINE u == Undone(f, l, FALSE)
<1>1. u = [sections |-> {s \in f.sections : s.name \notin OwnedSet(f, l)},
           dyn |-> [a \in Ap |-> RestoredDyn(f, l, a)],
           dev |-> [i \in Iface |-> IF l.conv = None THEN f.dev[i]
                                    ELSE RestoredDev(f, l, i)]]
  BY DEF Undone
<1>2. /\ b = [sections |-> b.sections, dyn |-> b.dyn, dev |-> b.dev]
      /\ b.sections \subseteq SectionSet /\ f.sections \subseteq SectionSet
      /\ b.dyn = [a \in Ap |-> b.dyn[a]]
      /\ b.dev = [i \in Iface |-> b.dev[i]]
  BY DEF FilesSet
<1>3. u = b <=> u.sections = b.sections /\ u.dyn = b.dyn /\ u.dev = b.dev
  BY <1>1, <1>2
<1> HIDE DEF u
<1>4. u.sections = b.sections <=> SectionsBack(f, l, b)
  BY <1>1, <1>2 DEF SectionsBack
<1>5. u.dyn = b.dyn <=> DynBack(f, l, b)
  BY <1>1, <1>2 DEF DynBack
<1>6. u.dev = b.dev <=> DevBack(f, l, b)
  BY <1>1, <1>2 DEF DevBack
<1> QED BY <1>3, <1>4, <1>5, <1>6 DEF u

LEMMA OwnedIs ==
  ASSUME NEW f, NEW l, NEW s \in f.sections
  PROVE  s.name \in OwnedSet(f, l)
           <=> IF l.listed THEN s.name \in l.owned ELSE s.name \in EngineName
BY DEF OwnedSet

LEMMA CreatedType ==
  ASSUME NEW d \in Desired, NEW f \in FilesSet, NEW l \in LedgerSet,
         NEW kept \in BOOLEAN, d.vids # {}, ~Refused(d, f, l, kept),
         NEW c \in Created(d, f, l, kept)
  PROVE  c \in SectionSet /\ c.name \in EngineName /\ InItsFile(c)
<1> USE DEF InItsFile, SectionSet, Section, BridgeVLAN
<1>1. CASE d.trunk \in Bridge /\ c \in BridgeSections(d, f)
  <2>1. PICK v \in d.vids : c = BridgeVLAN(<<"bv", v>>, d.trunk, v)
    BY <1>1 DEF BridgeSections
  <2>2. v \in Vid
    BY DEF Desired
  <2> QED BY <1>1, <2>1, <2>2, WirelessNames
<1>2. CASE \E n \in {"dv", "bd"} \X d.vids : c = Section("network", n)
  <2>1. PICK k \in {"dv", "bd"}, v \in d.vids : c = Section("network", <<k, v>>)
    BY <1>2
  <2>2. v \in Vid
    BY DEF Desired
  <2> QED BY <2>1, <2>2, WirelessNames
<1>3. CASE Converts(d, f, l, kept) /\ c = BridgeVLAN(<<"bvu">>, d.trunk, Untagged(d, l))
  <2>1. Untagged(d, l) \in Vid
    BY <1>3, UntaggedType DEF Refused
  <2>2. d.trunk \in Bridge
    BY <1>3 DEF Converts
  <2> QED BY <1>3, <2>1, <2>2, WirelessNames
<1>4. CASE \E v \in d.vids : c = Section("network", <<"v", v>>)
  <2>1. PICK v \in d.vids : c = Section("network", <<"v", v>>)
    BY <1>4
  <2>2. v \in Vid
    BY DEF Desired
  <2> QED BY <2>1, <2>2, WirelessNames
<1>5. CASE \E n \in {"wv"} \X d.vids \X d.aps : c = Section("wireless", n)
  <2>1. PICK n \in {"wv"} \X d.vids \X d.aps : c = Section("wireless", n)
    BY <1>5
  <2>2. n \in {"wv"} \X Vid \X Ap
    BY <2>1 DEF Desired
  <2> QED BY <2>1, <2>2, WirelessNames DEF WirelessName
<1>6. CASE \E k \in 0..MaxStation : c = Section("wireless", <<"ws", k>>)
  <2>1. PICK k \in 0..MaxStation : c = Section("wireless", <<"ws", k>>)
    BY <1>6
  <2> QED BY <2>1, WirelessNames DEF WirelessName
<1> QED BY <1>1, <1>2, <1>3, <1>4, <1>5, <1>6 DEF Created

-----------------------------------------------------------------------------
(* The invariant. *)

FilesRight == \A s \in files.sections : s.name \in EngineName => InItsFile(s)
OwnedPresent ==
  ledger.listed =>
    \A n \in ledger.owned : \E s \in files.sections : s.name = n
ConvOwned == ledger.conv # None => ledger.listed /\ <<"bvu">> \in ledger.owned
Back ==
  /\ SectionsBack(files, ledger, base)
  /\ DynBack(files, ledger, base)
  /\ DevBack(files, ledger, base)

IInv == TypeOK /\ Back /\ FilesRight /\ OwnedPresent /\ ConvOwned

LEMMA InitIInv == Init => IInv
<1> SUFFICES ASSUME Init PROVE IInv
  OBVIOUS
<1>1. files.sections = {} /\ base = files
  BY DEF Init
<1>2. /\ files.dev \in [Iface -> {Bare(b) : b \in Bridge}]
      /\ files.dyn \in [Ap -> Dyn]
      /\ files = [sections |-> {}, dev |-> files.dev, dyn |-> files.dyn]
  BY DEF Init
<1>3. {Bare(b) : b \in Bridge} \subseteq Device
  BY DEF Bare, Device
<1>4. files \in FilesSet /\ base \in FilesSet
  BY <1>1, <1>2, <1>3 DEF FilesSet
<1>5. /\ ledger = [listed |-> FALSE, owned |-> {}, dyn |-> [a \in Ap |-> NotRecorded],
                   conv |-> None]
      /\ edits = 0
  BY DEF Init
<1>6. TypeOK
  <2>1. ledger \in LedgerSet
    BY <1>5 DEF LedgerSet
  <2>2. edits \in 0..MaxEdits
    <3>1. MaxEdits \in Nat
      BY PlanAssumption
    <3> QED BY <1>5, <3>1
  <2> QED BY <1>4, <2>1, <2>2 DEF TypeOK
<1>7. SectionsBack(files, ledger, base)
  BY <1>1 DEF SectionsBack
<1>8. DynBack(files, ledger, base)
  BY <1>1, <1>5 DEF DynBack, RestoredDyn
<1>9. DevBack(files, ledger, base)
  BY <1>1, <1>5 DEF DevBack
<1> QED BY <1>1, <1>5, <1>6, <1>7, <1>8, <1>9
        DEF IInv, Back, FilesRight, OwnedPresent, ConvOwned

-----------------------------------------------------------------------------
(* Undo, on the configs there are. *)

LEMMA UndoneType ==
  ASSUME NEW f \in FilesSet, NEW l \in LedgerSet, NEW kept \in BOOLEAN
  PROVE  Undone(f, l, kept) \in FilesSet
<1> DEFINE u == Undone(f, l, kept)
<1>1. u.sections \subseteq SectionSet
  BY DEF Undone, FilesSet
<1>2. u.dyn \in [Ap -> Dyn]
  <2>1. \A a \in Ap : RestoredDyn(f, l, a) \in Dyn
    BY DEF RestoredDyn, FilesSet, LedgerSet
  <2> QED BY <2>1 DEF Undone
<1>3. u.dev \in [Iface -> Device]
  <2>1. ASSUME l.conv # None, NEW i \in Iface
        PROVE  RestoredDev(f, l, i) \in Device
    <3>1. l.conv.bridge \in Bridge
      BY <2>1 DEF LedgerSet, Conversion
    <3> QED BY <3>1 DEF RestoredDev, FilesSet, Bare, Device
  <2>2. \A i \in Iface : f.dev[i] \in Device
    BY DEF FilesSet
  <2> QED BY <2>1, <2>2 DEF Undone
<1>4. u = [sections |-> u.sections, dyn |-> u.dyn, dev |-> u.dev]
  BY DEF Undone
<1> QED BY <1>1, <1>2, <1>3, <1>4 DEF FilesSet

LEMMA UndoIs ==
  ASSUME IInv, NEW kept \in BOOLEAN, kept => ledger.conv # None,
         NEW left, left = Undone(files, ledger, kept)
  PROVE  /\ left \in FilesSet
         /\ left.sections \subseteq files.sections
         /\ \A s \in files.sections : s \in left.sections
              <=> s \in base.sections \/ (kept /\ s.name = <<"bvu">>)
         /\ \A a \in Ap : left.dyn[a] = base.dyn[a]
         /\ \A i \in Iface : left.dev[i] = IF kept THEN files.dev[i] ELSE base.dev[i]
<1>1. left \in FilesSet
  BY UndoneType DEF IInv, TypeOK
<1>2. left.sections \subseteq files.sections
  BY DEF Undone
<1>3. \A s \in files.sections : s \in SectionSet /\
        (s \in base.sections <=> s.name \notin OwnedSet(files, ledger))
  BY DEF IInv, Back, SectionsBack, TypeOK, FilesSet
<1>4. ASSUME NEW s \in files.sections
      PROVE  s \in left.sections
               <=> s.name \notin OwnedSet(files, ledger) \/ (kept /\ s.name = <<"bvu">>)
  BY DEF Undone
<1>5. \A a \in Ap : left.dyn[a] = base.dyn[a]
  BY DEF Undone, IInv, Back, DynBack
<1>6. \A i \in Iface : left.dev[i] = IF kept THEN files.dev[i] ELSE base.dev[i]
  BY DEF Undone, IInv, Back, DevBack
<1> QED BY <1>1, <1>2, <1>3, <1>4, <1>5, <1>6

-----------------------------------------------------------------------------
(* An apply keeps the invariant. *)

LEMMA PlannedType ==
  ASSUME NEW d \in Desired, NEW f \in FilesSet, NEW l \in LedgerSet,
         NEW kept \in BOOLEAN, kept => l.conv # None,
         d.vids # {}, ~Refused(d, f, l, kept)
  PROVE  /\ Planned(d, f, l, kept) \in FilesSet
         /\ NewLedger(d, f, l, kept) \in LedgerSet
<1> DEFINE created == Created(d, f, l, kept)
           p == Planned(d, f, l, kept)
           n == NewLedger(d, f, l, kept)
<1>1. \A c \in created : c \in SectionSet /\ c.name \in EngineName
  BY CreatedType
<1>2. ASSUME Converts(d, f, l, kept)
      PROVE  d.trunk \in Bridge /\ Untagged(d, l) \in Vid
  BY <1>2, UntaggedType DEF Converts, Refused
<1>3. p \in FilesSet
  <2>1. p.sections \subseteq SectionSet
    BY <1>1 DEF Planned, FilesSet
  <2>2. p.dyn \in [Ap -> Dyn]
    BY DEF Planned, FilesSet, Dyn
  <2>3. p.dev \in [Iface -> Device]
    BY <1>2 DEF Planned, FilesSet, Tagged, Device
  <2>4. p = [sections |-> p.sections, dyn |-> p.dyn, dev |-> p.dev]
    BY DEF Planned
  <2> QED BY <2>1, <2>2, <2>3, <2>4 DEF FilesSet
<1>4. n \in LedgerSet
  <2>1. n.listed = TRUE /\ n.owned \subseteq EngineName
    BY <1>1, WirelessNames DEF NewLedger, OwnedNames
  <2>2. n.dyn \in [Ap -> Dyn \cup {NotRecorded}]
    BY DEF NewLedger, FilesSet
  <2>3. n.conv \in Conversion \cup {None}
    <3>1. CASE kept
      BY <3>1 DEF NewLedger, LedgerSet
    <3>2. CASE ~kept /\ Converts(d, f, l, kept)
      <4>1. n.conv = [bridge |-> d.trunk, vid |-> Untagged(d, l), moved |-> Moves(d, f)]
        BY <3>2 DEF NewLedger
      <4>2. Moves(d, f) \subseteq Iface
        BY DEF Moves
      <4> QED BY <1>2, <3>2, <4>1, <4>2 DEF Conversion
    <3>3. CASE ~kept /\ ~Converts(d, f, l, kept)
      BY <3>3 DEF NewLedger
    <3> QED BY <3>1, <3>2, <3>3
  <2>4. n = [listed |-> n.listed, owned |-> n.owned, dyn |-> n.dyn, conv |-> n.conv]
    BY DEF NewLedger
  <2> QED BY <2>1, <2>2, <2>3, <2>4 DEF LedgerSet
<1> QED BY <1>3, <1>4

LEMMA ApplyStep ==
  ASSUME IInv, Apply
  PROVE  IInv'
<1> DEFINE kept == Kept(files, ledger)
           left == Undo(files, ledger)
<1>1. kept \in BOOLEAN /\ (kept => ledger.conv # None)
  BY DEF Kept
<1>2. left = Undone(files, ledger, kept)
  BY DEF Undo
<1>3. PICK d \in Desired :
        /\ d.vids # {} /\ ~Refused(d, left, ledger, kept)
        /\ files' = Planned(d, left, ledger, kept)
        /\ ledger' = NewLedger(d, left, ledger, kept)
  BY DEF Apply, ApplyTo
<1>4. base' = base /\ edits' = edits
  BY DEF Apply
<1> HIDE DEF kept, left
<1> DEFINE created == Created(d, left, ledger, kept)
           converts == Converts(d, left, ledger, kept)
<1>5. /\ left \in FilesSet /\ left.sections \subseteq files.sections
      /\ \A s \in files.sections : s \in left.sections
           <=> s \in base.sections \/ (kept /\ s.name = <<"bvu">>)
      /\ \A a \in Ap : left.dyn[a] = base.dyn[a]
      /\ \A i \in Iface : left.dev[i] = IF kept THEN files.dev[i] ELSE base.dev[i]
  BY <1>1, <1>2, UndoIs
<1>6. \A c \in created : c \in SectionSet /\ c.name \in EngineName /\ InItsFile(c)
  BY <1>1, <1>3, <1>5, CreatedType DEF IInv, TypeOK
<1>7. TypeOK'
  <2>1. files' \in FilesSet /\ ledger' \in LedgerSet
    BY <1>1, <1>3, <1>5, PlannedType DEF IInv, TypeOK
  <2> QED BY <1>4, <2>1 DEF IInv, TypeOK
<1>8. /\ files'.sections = left.sections \cup created
      /\ ledger'.listed = TRUE
      /\ ledger'.owned = {s.name : s \in created} \cup (IF kept THEN {<<"bvu">>} ELSE {})
  BY <1>3 DEF Planned, NewLedger, OwnedNames
<1>9. base.sections \subseteq files.sections
  BY DEF IInv, Back, SectionsBack, TypeOK, FilesSet
<1>10. \A s \in files.sections : s.name \in EngineName => InItsFile(s)
  BY DEF IInv, FilesRight
<1>11. \A s \in left.sections, c \in created : s.name # c.name
  <2>1. ~Taken(created, left)
    BY <1>3 DEF Refused
  <2> QED BY <1>5, <1>6, <1>10, <2>1 DEF Taken, InItsFile
<1>12. kept => /\ \A s \in base.sections : s.name # <<"bvu">>
               /\ \E s \in left.sections : s.name = <<"bvu">>
  <2> SUFFICES ASSUME kept
               PROVE  /\ \A s \in base.sections : s.name # <<"bvu">>
                      /\ \E s \in left.sections : s.name = <<"bvu">>
    OBVIOUS
  <2>1. ledger.listed /\ <<"bvu">> \in ledger.owned
    BY <1>1 DEF IInv, ConvOwned
  <2>2. \A s \in base.sections : s.name # <<"bvu">>
    BY <1>9, <2>1, OwnedIs DEF IInv, Back, SectionsBack, TypeOK, FilesSet
  <2>3. \E s \in files.sections : s.name = <<"bvu">>
    BY <2>1 DEF IInv, OwnedPresent
  <2> QED BY <1>5, <2>2, <2>3
<1>13. SectionsBack(files, ledger, base)'
  <2> SUFFICES ASSUME NEW s \in SectionSet
               PROVE  s \in base.sections
                        <=> s \in files'.sections /\ s.name \notin OwnedSet(files', ledger')
    BY <1>4 DEF SectionsBack
  <2>1. OwnedSet(files', ledger') = ledger'.owned
    BY <1>8 DEF OwnedSet
  <2>2. ASSUME s \in base.sections
        PROVE  s \in files'.sections /\ s.name \notin ledger'.owned
    BY <1>5, <1>8, <1>9, <1>11, <1>12, <2>2
  <2>3. ASSUME s \in files'.sections, s.name \notin ledger'.owned
        PROVE  s \in base.sections
    BY <1>5, <1>8, <2>3
  <2> QED BY <2>1, <2>2, <2>3
<1>14. DynBack(files, ledger, base)'
  <2> SUFFICES ASSUME NEW a \in Ap
               PROVE  base.dyn[a] = RestoredDyn(files', ledger', a)
    BY <1>4 DEF DynBack
  <2>1. /\ files'.dyn[a] = IF a \in d.aps THEN "1" ELSE left.dyn[a]
        /\ ledger'.dyn[a] = IF a \in d.aps /\ left.dyn[a] # "1" THEN left.dyn[a]
                            ELSE NotRecorded
    BY <1>3 DEF Planned, NewLedger
  <2>2. left.dyn[a] # NotRecorded
    <3>1. left.dyn[a] \in Dyn
      BY <1>5 DEF FilesSet
    <3> QED BY <3>1, PlanAssumption DEF Dyn
  <2> QED BY <1>5, <2>1, <2>2 DEF RestoredDyn
<1>15. DevBack(files, ledger, base)'
  <2> SUFFICES ASSUME NEW i \in Iface
               PROVE  base.dev[i] = IF ledger'.conv = None THEN files'.dev[i]
                                    ELSE RestoredDev(files', ledger', i)
    BY <1>4 DEF DevBack
  <2>1. files'.dev[i] = IF converts /\ i \in Moves(d, left)
                        THEN Tagged(d.trunk, Untagged(d, ledger)) ELSE left.dev[i]
    BY <1>3 DEF Planned
  <2>2. CASE kept
    <3>1. ~converts
      BY <1>3, <2>2 DEF Refused
    <3>2. ledger'.conv = ledger.conv /\ ledger.conv # None
      BY <1>1, <1>3, <2>2 DEF NewLedger
    <3>3. files'.dev[i] = files.dev[i]
      BY <1>5, <2>1, <2>2, <3>1
    <3> QED BY <3>2, <3>3 DEF IInv, Back, DevBack, RestoredDev
  <2>3. CASE ~kept /\ converts
    <3>1. ledger'.conv = [bridge |-> d.trunk, vid |-> Untagged(d, ledger),
                          moved |-> Moves(d, left)]
      BY <1>3, <2>3 DEF NewLedger
    <3>2. ledger'.conv # None
      <4>1. d.trunk \in Bridge /\ Untagged(d, ledger) \in Vid
        BY <1>3, <2>3, UntaggedType DEF Converts, Refused, IInv, TypeOK
      <4>2. ledger'.conv \in [bridge : Bridge, vid : Vid, moved : SUBSET Iface]
        BY <3>1, <4>1 DEF Moves
      <4> QED BY <4>2, PlanAssumption
    <3>3. left.dev[i] = base.dev[i]
      BY <1>5, <2>3
    <3> QED BY <2>1, <2>3, <3>1, <3>2, <3>3 DEF RestoredDev, Moves
  <2>4. CASE ~kept /\ ~converts
    BY <1>3, <1>5, <2>1, <2>4 DEF NewLedger
  <2> QED BY <2>2, <2>3, <2>4
<1>16. FilesRight'
  BY <1>5, <1>6, <1>8, <1>10 DEF FilesRight, InItsFile
<1>17. OwnedPresent'
  BY <1>8, <1>12 DEF OwnedPresent
<1>18. ConvOwned'
  <2>1. CASE kept
    BY <1>8, <2>1 DEF ConvOwned
  <2>2. CASE ~kept /\ converts
    <3>1. BridgeVLAN(<<"bvu">>, d.trunk, Untagged(d, ledger)) \in created
      BY <2>2 DEF Created
    <3> QED BY <1>8, <3>1 DEF ConvOwned, BridgeVLAN
  <2>3. CASE ~kept /\ ~converts
    BY <1>3, <2>3 DEF NewLedger, ConvOwned
  <2> QED BY <2>1, <2>2, <2>3
<1> QED BY <1>7, <1>13, <1>14, <1>15, <1>16, <1>17, <1>18 DEF IInv, Back

LEMMA ApplyNothingStep ==
  ASSUME IInv, ApplyNothing
  PROVE  IInv'
<1> DEFINE kept == Kept(files, ledger)
           left == Undo(files, ledger)
<1>1. kept \in BOOLEAN /\ (kept => ledger.conv # None)
  BY DEF Kept
<1>2. left = Undone(files, ledger, kept)
  BY DEF Undo
<1>3. files' = left /\ ledger' = EmptyLedger(ledger, kept) /\ base' = base /\ edits' = edits
  BY DEF ApplyNothing
<1> HIDE DEF kept, left
<1>4. /\ left \in FilesSet /\ left.sections \subseteq files.sections
      /\ \A s \in files.sections : s \in left.sections
           <=> s \in base.sections \/ (kept /\ s.name = <<"bvu">>)
      /\ \A a \in Ap : left.dyn[a] = base.dyn[a]
      /\ \A i \in Iface : left.dev[i] = IF kept THEN files.dev[i] ELSE base.dev[i]
  BY <1>1, <1>2, UndoIs
<1>5. /\ ledger' = [listed |-> TRUE, owned |-> IF kept THEN {<<"bvu">>} ELSE {},
                    dyn |-> [a \in Ap |-> NotRecorded],
                    conv |-> IF kept THEN ledger.conv ELSE None]
  BY <1>3 DEF EmptyLedger, OwnedNames
<1>6. TypeOK'
  <2>1. ledger.conv \in Conversion \cup {None}
    BY DEF IInv, TypeOK, LedgerSet
  <2>2. ledger' \in LedgerSet
    BY <1>5, <2>1, WirelessNames DEF LedgerSet
  <2> QED BY <1>3, <1>4, <2>2 DEF IInv, TypeOK
<1>7. base.sections \subseteq files.sections
  BY DEF IInv, Back, SectionsBack, TypeOK, FilesSet
<1>8. kept => /\ \A s \in base.sections : s.name # <<"bvu">>
              /\ \E s \in left.sections : s.name = <<"bvu">>
  <2> SUFFICES ASSUME kept
               PROVE  /\ \A s \in base.sections : s.name # <<"bvu">>
                      /\ \E s \in left.sections : s.name = <<"bvu">>
    OBVIOUS
  <2>1. ledger.listed /\ <<"bvu">> \in ledger.owned
    BY <1>1 DEF IInv, ConvOwned
  <2>2. \A s \in base.sections : s.name # <<"bvu">>
    BY <1>7, <2>1, OwnedIs DEF IInv, Back, SectionsBack, TypeOK, FilesSet
  <2>3. \E s \in files.sections : s.name = <<"bvu">>
    BY <2>1 DEF IInv, OwnedPresent
  <2> QED BY <1>4, <2>2, <2>3
<1>9. SectionsBack(files, ledger, base)'
  <2> SUFFICES ASSUME NEW s \in SectionSet
               PROVE  s \in base.sections
                        <=> s \in files'.sections /\ s.name \notin OwnedSet(files', ledger')
    BY <1>3 DEF SectionsBack
  <2>1. OwnedSet(files', ledger') = IF kept THEN {<<"bvu">>} ELSE {}
    BY <1>5 DEF OwnedSet
  <2> QED BY <1>3, <1>4, <1>7, <1>8, <2>1
<1>10. DynBack(files, ledger, base)'
  BY <1>3, <1>4, <1>5 DEF DynBack, RestoredDyn
<1>11. DevBack(files, ledger, base)'
  <2>1. CASE kept
    <3>1. ledger'.conv = ledger.conv /\ ledger.conv # None
      BY <1>1, <1>5, <2>1
    <3> QED BY <1>3, <1>4, <2>1, <3>1 DEF IInv, Back, DevBack, RestoredDev
  <2>2. CASE ~kept
    BY <1>3, <1>4, <1>5, <2>2 DEF DevBack
  <2> QED BY <1>1, <2>1, <2>2
<1>12. FilesRight'
  BY <1>3, <1>4 DEF IInv, FilesRight
<1>13. OwnedPresent'
  BY <1>3, <1>5, <1>8 DEF OwnedPresent
<1>14. ConvOwned'
  BY <1>5 DEF ConvOwned
<1> QED BY <1>6, <1>9, <1>10, <1>11, <1>12, <1>13, <1>14 DEF IInv, Back

-----------------------------------------------------------------------------
(* The edits of the others keep it. *)

LEMMA AddSectionStep ==
  ASSUME IInv, NEW s \in SectionSet, AddSection(s),
         s.name \notin EngineName \/ (ledger.listed /\ InItsFile(s))
  PROVE  IInv'
<1>1. /\ files' = [files EXCEPT !.sections = @ \cup {s}]
      /\ base' = [base EXCEPT !.sections = @ \cup {s}]
      /\ edits < MaxEdits /\ edits' = edits + 1 /\ ledger' = ledger
      /\ \A t \in files.sections : t.cfg = s.cfg => t.name # s.name
  BY DEF AddSection, Edit
<1>2. /\ files'.sections = files.sections \cup {s}
      /\ files'.dyn = files.dyn /\ files'.dev = files.dev
      /\ base'.sections = base.sections \cup {s}
      /\ base'.dyn = base.dyn /\ base'.dev = base.dev
      /\ files' \in FilesSet /\ base' \in FilesSet
  BY <1>1 DEF IInv, TypeOK, FilesSet
<1>3. TypeOK'
  <2>1. MaxEdits \in Nat
    BY PlanAssumption
  <2>2. edits' \in 0..MaxEdits
    BY <1>1, <2>1 DEF IInv, TypeOK
  <2> QED BY <1>1, <1>2, <2>2 DEF IInv, TypeOK
<1>4. s.name \notin OwnedSet(files', ledger')
  <2>1. CASE ledger.listed
    <3> SUFFICES ASSUME s.name \in ledger.owned PROVE FALSE
      BY <1>1, <2>1 DEF OwnedSet
    <3>1. PICK t \in files.sections : t.name = s.name
      BY <2>1 DEF IInv, OwnedPresent
    <3>2. s.name \in EngineName
      BY DEF IInv, TypeOK, LedgerSet
    <3>3. InItsFile(t) /\ InItsFile(s)
      BY <3>1, <3>2 DEF IInv, FilesRight
    <3> QED BY <1>1, <3>1, <3>3 DEF InItsFile
  <2>2. CASE ~ledger.listed
    BY <1>1, <2>2 DEF OwnedSet
  <2> QED BY <2>1, <2>2
<1>5. \A t \in files.sections :
        t.name \in OwnedSet(files', ledger') <=> t.name \in OwnedSet(files, ledger)
  BY <1>1, <1>2, OwnedIs
<1>6. SectionsBack(files, ledger, base)'
  BY <1>2, <1>4, <1>5 DEF IInv, Back, SectionsBack
<1>7. DynBack(files, ledger, base)'
  BY <1>1, <1>2 DEF IInv, Back, DynBack, RestoredDyn
<1>8. DevBack(files, ledger, base)'
  BY <1>1, <1>2 DEF IInv, Back, DevBack, RestoredDev
<1>9. FilesRight' /\ OwnedPresent' /\ ConvOwned'
  BY <1>1, <1>2 DEF IInv, FilesRight, InItsFile, OwnedPresent, ConvOwned
<1> QED BY <1>3, <1>6, <1>7, <1>8, <1>9 DEF IInv, Back

LEMMA DeleteSectionStep ==
  ASSUME IInv, NEW s \in base.sections, DeleteSection(s)
  PROVE  IInv'
<1>1. /\ files' = [files EXCEPT !.sections = @ \ {s}]
      /\ base' = [base EXCEPT !.sections = @ \ {s}]
      /\ edits < MaxEdits /\ edits' = edits + 1 /\ ledger' = ledger
  BY DEF DeleteSection, Edit
<1>2. /\ files'.sections = files.sections \ {s}
      /\ files'.dyn = files.dyn /\ files'.dev = files.dev
      /\ base'.sections = base.sections \ {s}
      /\ base'.dyn = base.dyn /\ base'.dev = base.dev
      /\ files' \in FilesSet /\ base' \in FilesSet
  BY <1>1 DEF IInv, TypeOK, FilesSet
<1>3. TypeOK'
  <2>1. MaxEdits \in Nat
    BY PlanAssumption
  <2>2. edits' \in 0..MaxEdits
    BY <1>1, <2>1 DEF IInv, TypeOK
  <2> QED BY <1>1, <1>2, <2>2 DEF IInv, TypeOK
<1>4. s \in files.sections /\ s.name \notin OwnedSet(files, ledger)
  BY DEF IInv, Back, SectionsBack, TypeOK, FilesSet
<1>5. \A t \in files'.sections :
        t.name \in OwnedSet(files', ledger') <=> t.name \in OwnedSet(files, ledger)
  BY <1>1, <1>2, OwnedIs
<1>6. SectionsBack(files, ledger, base)'
  BY <1>2, <1>5 DEF IInv, Back, SectionsBack
<1>7. DynBack(files, ledger, base)'
  BY <1>1, <1>2 DEF IInv, Back, DynBack, RestoredDyn
<1>8. DevBack(files, ledger, base)'
  BY <1>1, <1>2 DEF IInv, Back, DevBack, RestoredDev
<1>9. OwnedPresent'
  <2>1. ledger.listed => s.name \notin ledger.owned
    BY <1>4, OwnedIs
  <2> QED BY <1>1, <1>2, <2>1 DEF IInv, OwnedPresent
<1>10. FilesRight' /\ ConvOwned'
  BY <1>1, <1>2 DEF IInv, FilesRight, ConvOwned
<1> QED BY <1>3, <1>6, <1>7, <1>8, <1>9, <1>10 DEF IInv, Back

LEMMA MoveIfaceStep ==
  ASSUME IInv, NEW i \in Iface, NEW device \in Device, MoveIface(i, device)
  PROVE  IInv'
<1>1. /\ files' = [files EXCEPT !.dev[i] = device]
      /\ base' = [base EXCEPT !.dev[i] = device]
      /\ edits < MaxEdits /\ edits' = edits + 1 /\ ledger' = ledger
      /\ device.vid # None /\ ledger.conv # None =>
           device # Tagged(ledger.conv.bridge, ledger.conv.vid)
  BY DEF MoveIface, Edit
<1>2. /\ files'.sections = files.sections /\ files'.dyn = files.dyn
      /\ files'.dev = [files.dev EXCEPT ![i] = device]
      /\ base'.sections = base.sections /\ base'.dyn = base.dyn
      /\ base'.dev = [base.dev EXCEPT ![i] = device]
      /\ files' \in FilesSet /\ base' \in FilesSet
  BY <1>1 DEF IInv, TypeOK, FilesSet
<1>3. TypeOK'
  <2>1. MaxEdits \in Nat
    BY PlanAssumption
  <2>2. edits' \in 0..MaxEdits
    BY <1>1, <2>1 DEF IInv, TypeOK
  <2> QED BY <1>1, <1>2, <2>2 DEF IInv, TypeOK
<1>4. SectionsBack(files, ledger, base)'
  BY <1>1, <1>2 DEF IInv, Back, SectionsBack, OwnedSet
<1>5. DynBack(files, ledger, base)'
  BY <1>1, <1>2 DEF IInv, Back, DynBack, RestoredDyn
<1>6. DevBack(files, ledger, base)'
  <2> SUFFICES ASSUME NEW j \in Iface
               PROVE  base'.dev[j] = IF ledger'.conv = None THEN files'.dev[j]
                                     ELSE RestoredDev(files', ledger', j)
    BY DEF DevBack
  <2>1. files.dev \in [Iface -> Device] /\ base.dev \in [Iface -> Device]
    BY DEF IInv, TypeOK, FilesSet
  <2>2. CASE j = i
    <3>1. files'.dev[j] = device /\ base'.dev[j] = device
      BY <1>2, <2>1, <2>2
    <3>2. ledger.conv # None => device # Tagged(ledger.conv.bridge, ledger.conv.vid)
      <4> SUFFICES ASSUME ledger.conv # None,
                          device = Tagged(ledger.conv.bridge, ledger.conv.vid)
                   PROVE  FALSE
        OBVIOUS
      <4>1. ledger.conv.vid \in Vid
        BY DEF IInv, TypeOK, LedgerSet, Conversion
      <4>2. None \notin Nat /\ MaxVid \in Nat
        BY PlanAssumption
      <4>3. device.vid # None
        BY <4>1, <4>2 DEF Tagged, Vid
      <4> QED BY <1>1, <4>3
    <3> QED BY <1>1, <3>1, <3>2 DEF RestoredDev
  <2>3. CASE j # i
    <3>1. files'.dev[j] = files.dev[j] /\ base'.dev[j] = base.dev[j]
      BY <1>2, <2>1, <2>3
    <3> QED BY <1>1, <3>1 DEF IInv, Back, DevBack, RestoredDev
  <2> QED BY <2>2, <2>3
<1>7. FilesRight' /\ OwnedPresent' /\ ConvOwned'
  BY <1>1, <1>2 DEF IInv, FilesRight, OwnedPresent, ConvOwned
<1> QED BY <1>3, <1>4, <1>5, <1>6, <1>7 DEF IInv, Back

LEMMA SetDynStep ==
  ASSUME IInv, NEW a \in Ap, NEW value \in Dyn, SetDyn(a, value)
  PROVE  IInv'
<1>1. /\ files' = [files EXCEPT !.dyn[a] = value]
      /\ base' = [base EXCEPT !.dyn[a] = value]
      /\ edits < MaxEdits /\ edits' = edits + 1 /\ ledger' = ledger
      /\ ledger.dyn[a] = NotRecorded
  BY DEF SetDyn, Edit
<1>2. /\ files'.sections = files.sections /\ files'.dev = files.dev
      /\ files'.dyn = [files.dyn EXCEPT ![a] = value]
      /\ base'.sections = base.sections /\ base'.dev = base.dev
      /\ base'.dyn = [base.dyn EXCEPT ![a] = value]
      /\ files' \in FilesSet /\ base' \in FilesSet
  BY <1>1 DEF IInv, TypeOK, FilesSet
<1>3. TypeOK'
  <2>1. MaxEdits \in Nat
    BY PlanAssumption
  <2>2. edits' \in 0..MaxEdits
    BY <1>1, <2>1 DEF IInv, TypeOK
  <2> QED BY <1>1, <1>2, <2>2 DEF IInv, TypeOK
<1>4. SectionsBack(files, ledger, base)'
  BY <1>1, <1>2 DEF IInv, Back, SectionsBack, OwnedSet
<1>5. DynBack(files, ledger, base)'
  <2>1. files.dyn \in [Ap -> Dyn] /\ base.dyn \in [Ap -> Dyn]
    BY DEF IInv, TypeOK, FilesSet
  <2> QED BY <1>1, <1>2, <2>1 DEF IInv, Back, DynBack, RestoredDyn
<1>6. DevBack(files, ledger, base)'
  BY <1>1, <1>2 DEF IInv, Back, DevBack, RestoredDev
<1>7. FilesRight' /\ OwnedPresent' /\ ConvOwned'
  BY <1>1, <1>2 DEF IInv, FilesRight, OwnedPresent, ConvOwned
<1> QED BY <1>3, <1>4, <1>5, <1>6, <1>7 DEF IInv, Back

-----------------------------------------------------------------------------
(* The results. *)

LEMMA NextIInv ==
  ASSUME OthersBehave, IInv, [Next]_vars
  PROVE  IInv'
<1>1. CASE Apply
  BY <1>1, ApplyStep
<1>2. CASE ApplyNothing
  BY <1>2, ApplyNothingStep
<1>3. ASSUME NEW b \in Bridge, NEW v \in Vid, AddSection(OthersVLAN(b, v))
      PROVE  IInv'
  <2>1. <<"nbv", b, v>> \in OthersName
    BY DEF OthersName
  <2>2. OthersVLAN(b, v) \in SectionSet /\ OthersVLAN(b, v).name \in OthersName
    BY <2>1 DEF OthersVLAN, BridgeVLAN, SectionSet
  <2>3. OthersVLAN(b, v).name \notin EngineName
    BY <2>2, NamesApart
  <2> QED BY <1>3, <2>2, <2>3, AddSectionStep
<1>4. ASSUME NEW s \in Foreign, AddForeign(s)
      PROVE  IInv'
  <2>1. ledger.listed /\ InItsFile(s) /\ AddSection(s)
    BY <1>4 DEF AddForeign, OthersBehave
  <2>2. s \in SectionSet
    <3>1. Foreign \subseteq [cfg : {"wireless", "network"}, name : EngineName,
                             dev : Bridge \cup {None}, vid : Vid \cup {None}]
      BY PlanAssumption
    <3> QED BY <3>1 DEF SectionSet
  <2> QED BY <2>1, <2>2, AddSectionStep
<1>5. ASSUME NEW s \in base.sections, DeleteSection(s)
      PROVE  IInv'
  BY <1>5, DeleteSectionStep
<1>6. ASSUME NEW i \in Iface, NEW device \in Device, MoveIface(i, device)
      PROVE  IInv'
  BY <1>6, MoveIfaceStep
<1>7. ASSUME NEW a \in Ap, NEW value \in Dyn, SetDyn(a, value)
      PROVE  IInv'
  BY <1>7, SetDynStep
<1>8. CASE UNCHANGED vars
  BY <1>8 DEF vars, IInv, TypeOK, Back, SectionsBack, DynBack, DevBack, RestoredDyn,
              RestoredDev, OwnedSet, FilesRight, InItsFile, OwnedPresent, ConvOwned
<1> QED BY <1>1, <1>2, <1>3, <1>4, <1>5, <1>6, <1>7, <1>8 DEF Next

LEMMA PlanInvariant ==
  ASSUME OthersBehave
  PROVE  Spec => []IInv
<1>1. Init => IInv
  BY InitIInv
<1>2. IInv /\ [Next]_vars => IInv'
  BY NextIInv
<1> QED BY <1>1, <1>2, PTL DEF Spec

\* The configs and the ledger keep their shape: a conversion's VLAN id, most of
\* all, is always one there is.
THEOREM PlanTypes ==
  ASSUME OthersBehave
  PROVE  Spec => []TypeOK
<1>1. IInv => TypeOK
  BY DEF IInv
<1> QED BY <1>1, PlanInvariant, PTL

\* Taking back what the ledger recorded gives the configs without the groups.
THEOREM LedgerIsEnough ==
  ASSUME OthersBehave
  PROVE  Spec => []UndoGivesBase
<1>1. IInv => UndoGivesBase
  BY BackIsBase DEF IInv, TypeOK, Back, UndoGivesBase
<1> QED BY <1>1, PlanInvariant, PTL

\* No plan removes a section of somebody else.
THEOREM OthersAreSafe ==
  ASSUME OthersBehave
  PROVE  Spec => []OthersSectionsStay
<1>1. IInv => OthersSectionsStay
  BY DEF IInv, TypeOK, FilesSet, Back, SectionsBack, OthersSectionsStay
<1> QED BY <1>1, PlanInvariant, PTL

-----------------------------------------------------------------------------
(* What a plan puts on a bridge. *)

\* The untagged VLAN is none of the groups'.
LEMMA UntaggedIsFree ==
  ASSUME NEW d \in Desired, NEW l
  PROVE  Untagged(d, l) \notin d.vids
<1>1. CASE l.conv # None /\ l.conv.bridge = d.trunk /\ l.conv.vid \notin d.vids
  BY <1>1 DEF Untagged
<1>2. CASE ~(l.conv # None /\ l.conv.bridge = d.trunk /\ l.conv.vid \notin d.vids)
  <2>1. Untagged(d, l) \in Free(d)
    BY <1>2, FreeHasLeast DEF Untagged
  <2> QED BY <2>1 DEF Free
<1> QED BY <1>1, <1>2

\* Of what a plan creates only this is on a bridge.
LEMMA CreatedOnBridge ==
  ASSUME NEW d \in Desired, NEW f, NEW l, NEW kept,
         NEW c \in Created(d, f, l, kept), c.dev \in Bridge
  PROVE  /\ c.dev = d.trunk
         /\ \/ /\ c.vid \in d.vids /\ ~RouterVLAN(f, d.trunk, c.vid)
               /\ c = BridgeVLAN(<<"bv", c.vid>>, d.trunk, c.vid)
            \/ /\ Converts(d, f, l, kept)
               /\ c = BridgeVLAN(<<"bvu">>, d.trunk, Untagged(d, l))
<1>1. None \notin Bridge
  BY PlanAssumption
<1>2. \A cfg, n : Section(cfg, n).dev = None
  BY DEF Section
<1>3. c \in BridgeSections(d, f)
        \/ (Converts(d, f, l, kept) /\ c = BridgeVLAN(<<"bvu">>, d.trunk, Untagged(d, l)))
  BY <1>1, <1>2 DEF Created
<1>4. CASE c \in BridgeSections(d, f)
  <2>1. PICK v \in d.vids : ~RouterVLAN(f, d.trunk, v)
                              /\ c = BridgeVLAN(<<"bv", v>>, d.trunk, v)
    BY <1>4 DEF BridgeSections
  <2>2. c.dev = d.trunk /\ c.vid = v
    BY <2>1 DEF BridgeVLAN
  <2> QED BY <2>1, <2>2
<1>5. CASE Converts(d, f, l, kept) /\ c = BridgeVLAN(<<"bvu">>, d.trunk, Untagged(d, l))
  BY <1>5 DEF BridgeVLAN
<1> QED BY <1>3, <1>4, <1>5

LEMMA PlannedOnce ==
  ASSUME NEW d \in Desired, NEW f, NEW l, NEW kept, NEW b \in Bridge, NEW v \in Vid,
         Once(f, b, v)
  PROVE  Once(Planned(d, f, l, kept), b, v)
<1> DEFINE created == Created(d, f, l, kept)
<1> SUFFICES ASSUME NEW s \in f.sections \cup created, NEW t \in f.sections \cup created,
                    s.dev = b, t.dev = b, s.vid = v, t.vid = v
             PROVE  s = t
  BY DEF Once, BridgeVLANs, Planned
<1>1. CASE s \in f.sections /\ t \in f.sections
  BY <1>1 DEF Once, BridgeVLANs
<1>2. ASSUME NEW c \in created, c.dev = b, c.vid = v
      PROVE  \A u \in f.sections : ~(u.dev = b /\ u.vid = v)
  <2>1. /\ d.trunk = b
        /\ ~RouterVLAN(f, d.trunk, v) \/ Converts(d, f, l, kept)
    BY <1>2, CreatedOnBridge
  <2>2. CASE ~RouterVLAN(f, b, v)
    BY <2>2 DEF RouterVLAN, BridgeVLANs
  <2>3. CASE Converts(d, f, l, kept)
    BY <2>1, <2>3 DEF Converts, BridgeVLANs
  <2> QED BY <2>1, <2>2, <2>3
<1>3. CASE s \in created /\ t \in created
  <2>1. Untagged(d, l) \notin d.vids
    BY UntaggedIsFree
  <2>2. BridgeVLAN(<<"bvu">>, d.trunk, Untagged(d, l)).vid = Untagged(d, l)
    BY DEF BridgeVLAN
  <2>3. ASSUME NEW c \in created, c.dev = b, c.vid = v
        PROVE  \/ v \in d.vids /\ c = BridgeVLAN(<<"bv", v>>, d.trunk, v)
               \/ v \notin d.vids /\ c = BridgeVLAN(<<"bvu">>, d.trunk, v)
    BY <2>1, <2>2, <2>3, CreatedOnBridge
  <2> QED BY <1>3, <2>3
<1> QED BY <1>1, <1>2, <1>3

EditsCounted == edits \in Nat

\* No apply puts a VLAN on a bridge a second time (plan.go routerVLAN, convert):
\* for any ledger and any edits.
THEOREM VLANsStaySingle == Spec => NoDuplicateVLAN
<1>1. Init => EditsCounted
  BY DEF Init, EditsCounted
<1>2. EditsCounted /\ [Next]_vars => EditsCounted'
  BY DEF EditsCounted, Next, vars, Apply, ApplyNothing, AddSection, AddForeign, DeleteSection,
         MoveIface, SetDyn, Edit
<1>3. EditsCounted /\ [Next]_vars
        => [edits' = edits => \A b \in Bridge, v \in Vid :
              Once(files, b, v) => Once(files', b, v)]_vars
  <2> SUFFICES ASSUME edits \in Nat, Next, edits' = edits, NEW b \in Bridge, NEW v \in Vid,
                      Once(files, b, v)
               PROVE  Once(files', b, v)
    BY DEF EditsCounted
  <2> DEFINE kept == Kept(files, ledger)
             left == Undo(files, ledger)
  <2>1. Once(left, b, v)
    BY DEF Undo, Undone, Once, BridgeVLANs
  <2> HIDE DEF kept, left
  <2>2. CASE Apply
    <3>1. PICK d \in Desired : files' = Planned(d, left, ledger, kept)
      BY <2>2 DEF Apply, ApplyTo, kept, left
    <3> QED BY <2>1, <3>1, PlannedOnce
  <2>3. CASE ApplyNothing
    BY <2>1, <2>3 DEF ApplyNothing, left
  <2>4. CASE ~Apply /\ ~ApplyNothing
    <3>1. Edit
      BY <2>4 DEF Next, AddSection, AddForeign, DeleteSection, MoveIface, SetDyn
    <3> QED BY <3>1 DEF Edit
  <2> QED BY <2>2, <2>3, <2>4
<1> QED BY <1>1, <1>2, <1>3, PTL DEF Spec, NoDuplicateVLAN

-----------------------------------------------------------------------------
(* The interfaces' traffic. *)

\* The bridge-vlan of a conversion's untagged traffic is the recorded one: its
\* name is the groups' own while they have one.
ConvSection ==
  ledger.conv # None =>
    \A s \in files.sections :
      s.name = <<"bvu">> => s.dev = ledger.conv.bridge /\ s.vid = ledger.conv.vid

\* Where an interface has its traffic once the last apply is taken back: on its
\* bridge, which has no VLANs; where it was, on somebody else's; or where it
\* was, in the VLAN of the conversion that is kept.
OnBareBridge(f, l, kept, i) ==
  LET b == files.dev[i].bridge
  IN  /\ f.dev[i] = Bare(b) /\ BridgeVLANs(f, b) = {}
      /\ kept => l.conv.bridge # b
OnOthersVLAN(f, i) ==
  /\ f.dev[i] = files.dev[i]
  /\ \E s \in f.sections \cap base.sections :
       s.dev = f.dev[i].bridge /\ s.vid = f.dev[i].vid
OnKeptVLAN(f, l, kept, i) ==
  /\ kept /\ f.dev[i] = files.dev[i] /\ i \in l.conv.moved
  /\ \E s \in f.sections :
       s.name = <<"bvu">> /\ s.dev = f.dev[i].bridge /\ s.vid = f.dev[i].vid

LEMMA BareIsNotTagged ==
  ASSUME NEW b, NEW c, NEW v \in Vid
  PROVE  Bare(b) # Tagged(c, v)
<1>1. None \notin Nat /\ MaxVid \in Nat
  BY PlanAssumption
<1>2. v # None
  BY <1>1 DEF Vid
<1>3. Bare(b).vid = None /\ Tagged(c, v).vid = v
  BY DEF Bare, Tagged
<1> QED BY <1>2, <1>3

LEMMA WorksAfterUndo ==
  ASSUME IInv, ConvSection, NEW i \in Iface, Works(files, ledger, i),
         NEW kept, kept = Kept(files, ledger),
         NEW left, left = Undone(files, ledger, kept)
  PROVE  \/ OnBareBridge(left, ledger, kept, i)
         \/ OnOthersVLAN(left, i)
         \/ OnKeptVLAN(left, ledger, kept, i)
<1> DEFINE b == files.dev[i].bridge
           Owns(s) == s.name \in OwnedSet(files, ledger)
<1>1. kept \in BOOLEAN /\ (kept => ledger.conv # None)
  BY DEF Kept
<1>2. /\ left.sections \subseteq files.sections
      /\ \A s \in files.sections : s \in left.sections
           <=> s \in base.sections \/ (kept /\ s.name = <<"bvu">>)
      /\ \A s \in files.sections : s \in base.sections <=> ~Owns(s)
  <2>1. \A s \in files.sections : s \in base.sections <=> ~Owns(s)
    BY DEF IInv, Back, SectionsBack, TypeOK, FilesSet
  <2> QED BY <1>1, <2>1, UndoIs
<1>3. left.dev[i] = IF ledger.conv = None \/ kept THEN files.dev[i]
                    ELSE RestoredDev(files, ledger, i)
  BY DEF Undone
<1>4. files.dev[i] \in Device
  BY DEF IInv, TypeOK, FilesSet
<1>5. ledger.conv # None => ledger.conv \in Conversion
  BY DEF IInv, TypeOK, LedgerSet
<1>6. kept <=> ledger.conv # None
               /\ \E s \in BridgeVLANs(files, ledger.conv.bridge) : ~Owns(s)
  BY DEF Kept
<1> HIDE DEF Owns
<1>7. CASE files.dev[i] = Bare(b) /\ BridgeVLANs(files, b) = {}
  <2>1. BridgeVLANs(left, b) = {}
    BY <1>2, <1>7 DEF BridgeVLANs
  <2>2. kept => ledger.conv.bridge # b
    BY <1>6, <1>7
  <2>3. left.dev[i] = Bare(b)
    <3>1. CASE ledger.conv = None
      BY <1>3, <1>7, <3>1
    <3>2. CASE ledger.conv # None
      <4>1. ledger.conv.vid \in Vid
        BY <1>5, <3>2 DEF Conversion
      <4>2. Bare(b) # Tagged(ledger.conv.bridge, ledger.conv.vid)
        BY <4>1, BareIsNotTagged
      <4> QED BY <1>3, <1>7, <4>2 DEF RestoredDev
    <3> QED BY <3>1, <3>2
  <2> QED BY <2>1, <2>2, <2>3 DEF OnBareBridge
<1>8. ASSUME NEW s \in files.sections, s.dev = b, s.vid = files.dev[i].vid, ~Owns(s)
      PROVE  OnOthersVLAN(left, i)
  <2>1. s \in left.sections \cap base.sections
    BY <1>2, <1>8
  <2>2. left.dev[i] = files.dev[i]
    <3>1. CASE ledger.conv = None \/ kept
      BY <1>3, <3>1
    <3>2. CASE ledger.conv # None /\ ~kept
      <4>1. files.dev[i] # Tagged(ledger.conv.bridge, ledger.conv.vid)
        BY <1>6, <1>8, <3>2 DEF Tagged, BridgeVLANs
      <4> QED BY <1>3, <3>2, <4>1 DEF RestoredDev
    <3> QED BY <3>1, <3>2
  <2> QED BY <1>8, <2>1, <2>2 DEF OnOthersVLAN
<1>9. ASSUME ledger.conv # None, i \in ledger.conv.moved,
             NEW s \in files.sections, s.name = <<"bvu">>,
             s.dev = b, s.vid = files.dev[i].vid
      PROVE  OnBareBridge(left, ledger, kept, i) \/ OnKeptVLAN(left, ledger, kept, i)
  <2>1. ledger.conv.bridge = b /\ ledger.conv.vid = files.dev[i].vid
    BY <1>9 DEF ConvSection
  <2>2. CASE kept
    <3>1. s \in left.sections /\ left.dev[i] = files.dev[i]
      BY <1>2, <1>3, <1>9, <2>2
    <3> QED BY <1>9, <2>2, <3>1 DEF OnKeptVLAN
  <2>3. CASE ~kept
    <3>1. files.dev[i] = Tagged(ledger.conv.bridge, ledger.conv.vid)
      BY <1>4, <2>1 DEF Device, Tagged
    <3>2. left.dev[i] = Bare(b)
      BY <1>3, <1>9, <2>1, <2>3, <3>1 DEF RestoredDev
    <3>3. \A t \in BridgeVLANs(files, b) : Owns(t)
      BY <1>6, <1>9, <2>1, <2>3
    <3>4. BridgeVLANs(left, b) = {}
      BY <1>2, <2>3, <3>3 DEF BridgeVLANs
    <3> QED BY <2>3, <3>2, <3>4 DEF OnBareBridge
  <2> QED BY <1>1, <2>2, <2>3
<1> QED BY <1>7, <1>8, <1>9 DEF Works, BridgeVLANs, Owns

\* What the plan does to where an interface is then.
LEMMA WorksAfterPlan ==
  ASSUME IInv, Apply, NEW i \in Iface,
         NEW kept, kept = Kept(files, ledger),
         NEW left, left = Undone(files, ledger, kept),
         \/ OnBareBridge(left, ledger, kept, i)
         \/ OnOthersVLAN(left, i)
         \/ OnKeptVLAN(left, ledger, kept, i)
  PROVE  Works(files', ledger', i)
<1> DEFINE b == files.dev[i].bridge
<1>1. PICK d \in Desired :
        /\ ~Refused(d, left, ledger, kept) /\ d.vids # {}
        /\ files' = Planned(d, left, ledger, kept)
        /\ ledger' = NewLedger(d, left, ledger, kept)
  BY DEF Apply, ApplyTo, Undo
<1>2. kept \in BOOLEAN /\ (kept => ledger.conv # None)
  BY DEF Kept
<1>3. base' = base /\ IInv'
  BY ApplyStep DEF Apply
<1> DEFINE created == Created(d, left, ledger, kept)
           converts == Converts(d, left, ledger, kept)
           u == Untagged(d, ledger)
<1>4. /\ files'.sections = left.sections \cup created
      /\ files'.dev[i] = IF converts /\ i \in Moves(d, left)
                         THEN Tagged(d.trunk, u) ELSE left.dev[i]
  BY <1>1 DEF Planned
<1>5. ~(converts /\ kept)
  BY <1>1 DEF Refused
<1>6. \A c \in created : c.dev \in Bridge => c.dev = d.trunk
  BY CreatedOnBridge
<1>7. files.dev[i] \in Device
  BY DEF IInv, TypeOK, FilesSet
<1>8. b \in Bridge
  BY <1>7 DEF Device
<1>9. CASE OnBareBridge(left, ledger, kept, i)
  <2>1. left.dev[i] = Bare(b) /\ BridgeVLANs(left, b) = {}
        /\ (kept => ledger.conv.bridge # b)
    BY <1>9 DEF OnBareBridge
  <2>2. CASE d.trunk = b
    <3>1. converts /\ ~kept
      BY <1>2, <1>5, <1>8, <2>1, <2>2 DEF Converts, KeptOn
    <3>2. i \in Moves(d, left)
      BY <2>1, <2>2 DEF Moves
    <3>3. files'.dev[i] = Tagged(b, u)
      BY <1>4, <2>2, <3>1, <3>2
    <3>4. BridgeVLAN(<<"bvu">>, b, u) \in files'.sections
      BY <1>4, <2>2, <3>1 DEF Created
    <3>5. ledger'.conv = [bridge |-> b, vid |-> u, moved |-> Moves(d, left)]
      BY <1>1, <2>2, <3>1 DEF NewLedger
    <3>6. ledger'.conv # None
      <4>1. u \in Vid
        BY <1>1, <3>1, UntaggedType DEF Refused, IInv, TypeOK
      <4>2. ledger'.conv \in [bridge : Bridge, vid : Vid, moved : SUBSET Iface]
        BY <1>8, <3>5, <4>1 DEF Moves
      <4> QED BY <4>2, PlanAssumption
    <3>7. i \in ledger'.conv.moved
      BY <3>2, <3>5
    <3> QED BY <3>3, <3>4, <3>6, <3>7 DEF Works, BridgeVLANs, BridgeVLAN, Tagged
  <2>3. CASE d.trunk # b
    <3>1. BridgeVLANs(files', b) = {}
      BY <1>4, <1>6, <1>8, <2>1, <2>3 DEF BridgeVLANs
    <3>2. Bare(b) # Bare(d.trunk)
      BY <2>3 DEF Bare
    <3>3. files'.dev[i] = Bare(b)
      BY <1>4, <2>1, <3>2 DEF Moves
    <3> QED BY <3>1, <3>3 DEF Works, Bare
  <2> QED BY <2>2, <2>3
<1>10. ASSUME left.dev[i] = files.dev[i],
              NEW s \in left.sections, s.dev = b
       PROVE  files'.dev[i] = files.dev[i] /\ s \in BridgeVLANs(files', b)
  <2>1. converts /\ i \in Moves(d, left) => FALSE
    BY <1>10 DEF Converts, Moves, Bare, BridgeVLANs
  <2> QED BY <1>4, <1>10, <2>1 DEF BridgeVLANs
<1>11. CASE OnOthersVLAN(left, i)
  <2>1. PICK s \in left.sections \cap base.sections :
          s.dev = left.dev[i].bridge /\ s.vid = left.dev[i].vid
    BY <1>11 DEF OnOthersVLAN
  <2>2. left.dev[i] = files.dev[i]
    BY <1>11 DEF OnOthersVLAN
  <2>3. files'.dev[i] = files.dev[i] /\ s \in BridgeVLANs(files', b)
    BY <1>10, <2>1, <2>2
  <2>4. s.name \notin OwnedSet(files', ledger')
    BY <1>3, <2>1 DEF IInv, Back, SectionsBack, TypeOK, FilesSet
  <2> QED BY <2>1, <2>2, <2>3, <2>4 DEF Works
<1>12. CASE OnKeptVLAN(left, ledger, kept, i)
  <2>1. PICK s \in left.sections : s.name = <<"bvu">>
          /\ s.dev = left.dev[i].bridge /\ s.vid = left.dev[i].vid
    BY <1>12 DEF OnKeptVLAN
  <2>2. left.dev[i] = files.dev[i] /\ kept /\ i \in ledger.conv.moved
    BY <1>12 DEF OnKeptVLAN
  <2>3. files'.dev[i] = files.dev[i] /\ s \in BridgeVLANs(files', b)
    BY <1>10, <2>1, <2>2
  <2>4. ledger'.conv = ledger.conv /\ ledger.conv # None
    BY <1>1, <1>2, <2>2 DEF NewLedger
  <2> QED BY <2>1, <2>2, <2>3, <2>4 DEF Works
<1> QED BY <1>9, <1>11, <1>12

LEMMA WorksAfterNothing ==
  ASSUME IInv, ApplyNothing, NEW i \in Iface,
         NEW kept, kept = Kept(files, ledger),
         NEW left, left = Undone(files, ledger, kept),
         \/ OnBareBridge(left, ledger, kept, i)
         \/ OnOthersVLAN(left, i)
         \/ OnKeptVLAN(left, ledger, kept, i)
  PROVE  Works(files', ledger', i)
<1>1. files' = left /\ ledger' = EmptyLedger(ledger, kept) /\ base' = base
  BY DEF ApplyNothing, Undo
<1>2. kept => ledger.conv # None
  BY DEF Kept
<1>3. IInv'
  BY ApplyNothingStep
<1>4. CASE OnBareBridge(left, ledger, kept, i)
  BY <1>1, <1>4 DEF OnBareBridge, Works, Bare
<1>5. CASE OnOthersVLAN(left, i)
  <2>1. PICK s \in left.sections \cap base.sections :
          s.dev = left.dev[i].bridge /\ s.vid = left.dev[i].vid
    BY <1>5 DEF OnOthersVLAN
  <2>2. s.name \notin OwnedSet(files', ledger')
    BY <1>1, <1>3, <2>1 DEF IInv, Back, SectionsBack, TypeOK, FilesSet
  <2> QED BY <1>1, <2>1, <2>2 DEF Works, BridgeVLANs
<1>6. CASE OnKeptVLAN(left, ledger, kept, i)
  <2>1. ledger'.conv = ledger.conv /\ ledger.conv # None
    BY <1>1, <1>2, <1>6 DEF OnKeptVLAN, EmptyLedger
  <2> QED BY <1>1, <1>6, <2>1 DEF OnKeptVLAN, Works, BridgeVLANs
<1> QED BY <1>4, <1>5, <1>6

\* Who else touches the file never touches the conversion's section.
LEMMA ConvSectionAdd ==
  ASSUME IInv, ConvSection, NEW s, AddSection(s),
         s.name \notin EngineName \/ InItsFile(s)
  PROVE  ConvSection'
<1>1. /\ files' = [files EXCEPT !.sections = @ \cup {s}] /\ ledger' = ledger
      /\ \A t \in files.sections : t.cfg = s.cfg => t.name # s.name
  BY DEF AddSection, Edit
<1>2. files'.sections = files.sections \cup {s}
  BY <1>1 DEF IInv, TypeOK, FilesSet
<1>3. ledger.conv # None => s.name # <<"bvu">>
  <2> SUFFICES ASSUME ledger.conv # None, s.name = <<"bvu">> PROVE FALSE
    OBVIOUS
  <2>1. PICK t \in files.sections : t.name = <<"bvu">>
    BY DEF IInv, ConvOwned, OwnedPresent
  <2>2. t.cfg = s.cfg
    BY <2>1, WirelessNames DEF IInv, FilesRight, InItsFile
  <2> QED BY <1>1, <2>1, <2>2
<1> QED BY <1>1, <1>2, <1>3 DEF ConvSection

\* Nothing else of a plan has the name of a conversion's section.
LEMMA CreatedForUntagged ==
  ASSUME NEW d \in Desired, NEW f, NEW l, NEW kept,
         NEW c \in Created(d, f, l, kept), c.name = <<"bvu">>
  PROVE  c = BridgeVLAN(<<"bvu">>, d.trunk, Untagged(d, l))
<1> USE DEF Section, BridgeVLAN
<1>1. CASE c \in BridgeSections(d, f)
  <2>1. PICK v \in d.vids : c = BridgeVLAN(<<"bv", v>>, d.trunk, v)
    BY <1>1 DEF BridgeSections
  <2> QED BY <2>1
<1>2. CASE \E n \in {"dv", "bd"} \X d.vids : c = Section("network", n)
  <2>1. PICK k \in {"dv", "bd"}, v \in d.vids : c = Section("network", <<k, v>>)
    BY <1>2
  <2> QED BY <2>1
<1>3. CASE \E v \in d.vids : c = Section("network", <<"v", v>>)
  BY <1>3
<1>4. CASE \E n \in {"wv"} \X d.vids \X d.aps : c = Section("wireless", n)
  <2>1. PICK v \in d.vids, a \in d.aps : c = Section("wireless", <<"wv", v, a>>)
    BY <1>4
  <2> QED BY <2>1
<1>5. CASE \E k \in 0..MaxStation : c = Section("wireless", <<"ws", k>>)
  BY <1>5
<1> QED BY <1>1, <1>2, <1>3, <1>4, <1>5 DEF Created

LEMMA ConvSectionApply ==
  ASSUME IInv, ConvSection, Apply
  PROVE  ConvSection'
<1> DEFINE kept == Kept(files, ledger)
           left == Undo(files, ledger)
<1>1. left.sections \subseteq files.sections
  BY DEF Undo, Undone
<1>2. kept \in BOOLEAN /\ (kept => ledger.conv # None)
  BY DEF Kept
<1>3. left \in FilesSet /\ left = Undone(files, ledger, kept)
  BY <1>2, UndoneType DEF Undo, IInv, TypeOK
<1> HIDE DEF kept, left
<1>4. PICK d \in Desired :
        /\ ~Refused(d, left, ledger, kept) /\ d.vids # {}
        /\ files' = Planned(d, left, ledger, kept)
        /\ ledger' = NewLedger(d, left, ledger, kept)
  BY DEF Apply, ApplyTo, kept, left
<1> DEFINE created == Created(d, left, ledger, kept)
<1>5. files'.sections = left.sections \cup created
  BY <1>4 DEF Planned
<1> SUFFICES ASSUME ledger'.conv # None, NEW s \in files'.sections, s.name = <<"bvu">>
             PROVE  s.dev = ledger'.conv.bridge /\ s.vid = ledger'.conv.vid
  BY DEF ConvSection
<1>6. CASE kept
  <2>1. ledger'.conv = ledger.conv /\ ledger.conv # None
    BY <1>2, <1>4, <1>6 DEF NewLedger
  <2>2. s \in left.sections
    <3>1. PICK t \in files.sections : t.name = <<"bvu">>
      BY <2>1 DEF IInv, ConvOwned, OwnedPresent
    <3>2. t \in left.sections
      BY <1>2, <1>3, <1>6, <3>1, UndoIs
    <3>3. \A c \in created : InItsFile(c)
      BY <1>2, <1>3, <1>4, CreatedType DEF IInv, TypeOK
    <3>4. InItsFile(t)
      BY <3>1, WirelessNames DEF IInv, FilesRight
    <3>5. ~Taken(created, left)
      BY <1>4 DEF Refused
    <3> QED BY <1>5, <3>1, <3>2, <3>3, <3>4, <3>5 DEF Taken, InItsFile
  <2> QED BY <1>1, <2>1, <2>2 DEF ConvSection
<1>7. CASE ~kept
  <2>1. Converts(d, left, ledger, kept)
        /\ ledger'.conv = [bridge |-> d.trunk, vid |-> Untagged(d, ledger),
                           moved |-> Moves(d, left)]
    BY <1>4, <1>7 DEF NewLedger
  <2> DEFINE c == BridgeVLAN(<<"bvu">>, d.trunk, Untagged(d, ledger))
  <2>2. c \in created /\ c.cfg = "network" /\ c.name = <<"bvu">>
        /\ c.dev = d.trunk /\ c.vid = Untagged(d, ledger)
    BY <2>1 DEF Created, BridgeVLAN
  <2>3. s \in created
    <3> SUFFICES ASSUME s \in left.sections PROVE FALSE
      BY <1>5
    <3>1. InItsFile(s)
      BY <1>1, WirelessNames DEF IInv, FilesRight
    <3>2. s.cfg = "network"
      BY <3>1, WirelessNames DEF InItsFile
    <3> QED BY <1>4, <2>2, <3>2 DEF Refused, Taken
  <2>4. s = c
    BY <2>3, CreatedForUntagged
  <2> QED BY <2>1, <2>2, <2>4
<1> QED BY <1>2, <1>6, <1>7

LEMMA ConvSectionNext ==
  ASSUME OthersBehave, IInv, ConvSection, [Next]_vars
  PROVE  ConvSection'
<1>1. CASE Apply
  BY <1>1, ConvSectionApply
<1>2. CASE ApplyNothing
  <2>1. files'.sections \subseteq files.sections
        /\ (ledger'.conv # None => ledger'.conv = ledger.conv)
    BY <1>2 DEF ApplyNothing, EmptyLedger, Undo, Undone
  <2> QED BY <2>1 DEF ConvSection
<1>3. ASSUME NEW b \in Bridge, NEW v \in Vid, AddSection(OthersVLAN(b, v))
      PROVE  ConvSection'
  <2>1. OthersVLAN(b, v).name \in OthersName
    BY DEF OthersVLAN, BridgeVLAN, OthersName
  <2> QED BY <1>3, <2>1, NamesApart, ConvSectionAdd
<1>4. ASSUME NEW s \in Foreign, AddForeign(s)
      PROVE  ConvSection'
  BY <1>4, ConvSectionAdd DEF AddForeign, OthersBehave
<1>5. ASSUME NEW s \in base.sections, DeleteSection(s)
      PROVE  ConvSection'
  <2>1. files'.sections \subseteq files.sections /\ ledger' = ledger
    BY <1>5 DEF DeleteSection, Edit, IInv, TypeOK, FilesSet
  <2> QED BY <2>1 DEF ConvSection
<1>6. CASE \/ \E i \in Iface, device \in Device : MoveIface(i, device)
           \/ \E a \in Ap, value \in Dyn : SetDyn(a, value)
           \/ UNCHANGED vars
  <2>1. files'.sections = files.sections /\ ledger' = ledger
    BY <1>6 DEF MoveIface, SetDyn, Edit, vars, IInv, TypeOK, FilesSet
  <2> QED BY <2>1 DEF ConvSection
<1> QED BY <1>1, <1>2, <1>3, <1>4, <1>5, <1>6 DEF Next

\* No apply takes an interface's traffic away (plan.go undo, convert): whether
\* a bridge is converted, its conversion kept, moved, undone or done again, for
\* any bridges and interfaces and any edits of the others.
THEOREM TrafficIsKept ==
  ASSUME OthersBehave
  PROVE  Spec => KeepsWorking
<1>1. Init => ConvSection
  BY DEF Init, ConvSection
<1>2. IInv /\ ConvSection /\ [Next]_vars => ConvSection'
  BY ConvSectionNext
<1>3. IInv /\ ConvSection /\ [Next]_vars
        => [edits' = edits => \A i \in Iface :
              Works(files, ledger, i) => Works(files', ledger', i)]_vars
  <2> SUFFICES ASSUME IInv, ConvSection, Next, edits' = edits, NEW i \in Iface,
                      Works(files, ledger, i)
               PROVE  Works(files', ledger', i)
    OBVIOUS
  <2>1. CASE Apply \/ ApplyNothing
    BY <2>1, WorksAfterUndo, WorksAfterPlan, WorksAfterNothing
  <2>2. CASE ~Apply /\ ~ApplyNothing
    <3>1. Edit
      BY <2>2 DEF Next, AddSection, AddForeign, DeleteSection, MoveIface, SetDyn
    <3>2. edits \in Nat
      BY DEF IInv, TypeOK
    <3> QED BY <3>1, <3>2 DEF Edit
  <2> QED BY <2>1, <2>2
<1> QED BY <1>1, <1>2, <1>3, PlanInvariant, PTL DEF Spec, KeepsWorking

-----------------------------------------------------------------------------
(* The same again. *)

LEMMA ConversionIsOne ==
  ASSUME NEW b \in Bridge, NEW v \in Vid, NEW moved \in SUBSET Iface
  PROVE  [bridge |-> b, vid |-> v, moved |-> moved] # None
<1>1. [bridge |-> b, vid |-> v, moved |-> moved]
        \in [bridge : Bridge, vid : Vid, moved : SUBSET Iface]
  OBVIOUS
<1> QED BY <1>1, PlanAssumption

LEMMA DynIsOne ==
  ASSUME NEW value \in Dyn
  PROVE  value # NotRecorded
BY PlanAssumption DEF Dyn

\* What a plan of d makes of the configs the engine finds: undo takes it back
\* to what was left before, and keeps a conversion if it was kept before.
LEMMA UndoneAgain ==
  ASSUME IInv, NEW d \in Desired, NEW kept, NEW left, NEW f, NEW l,
         kept = Kept(files, ledger), left = Undo(files, ledger),
         d.vids # {}, ~Refused(d, left, ledger, kept),
         f = Planned(d, left, ledger, kept), l = NewLedger(d, left, ledger, kept)
  PROVE  Kept(f, l) = kept /\ Undo(f, l) = left
<1> DEFINE created == Created(d, left, ledger, kept)
           converts == Converts(d, left, ledger, kept)
<1>1. kept \in BOOLEAN /\ (kept => ledger.conv # None)
  BY DEF Kept
<1>2. left = Undone(files, ledger, kept)
  BY DEF Undo
<1>3. /\ left \in FilesSet /\ left.sections \subseteq files.sections
      /\ \A s \in files.sections : s \in left.sections
           <=> s \in base.sections \/ (kept /\ s.name = <<"bvu">>)
  BY <1>1, <1>2, UndoIs
<1>4. /\ f.sections = left.sections \cup created
      /\ l.listed = TRUE
      /\ l.owned = {s.name : s \in created} \cup (IF kept THEN {<<"bvu">>} ELSE {})
  BY DEF Planned, NewLedger, OwnedNames
<1>5. OwnedSet(f, l) = l.owned
  BY <1>4 DEF OwnedSet
<1>6. \A s \in left.sections, c \in created : s.name # c.name
  <2>1. \A c \in created : c.name \in EngineName /\ InItsFile(c)
    BY <1>1, <1>3, CreatedType DEF IInv, TypeOK
  <2>2. \A s \in left.sections : s.name \in EngineName => InItsFile(s)
    BY <1>3 DEF IInv, FilesRight
  <2>3. ~Taken(created, left)
    BY DEF Refused
  <2> QED BY <2>1, <2>2, <2>3 DEF Taken, InItsFile
<1>7. ASSUME kept
      PROVE  /\ \A s \in base.sections : s.name # <<"bvu">>
             /\ \E s \in left.sections : s.name = <<"bvu">>
  <2>1. ledger.listed /\ <<"bvu">> \in ledger.owned
    BY <1>1, <1>7 DEF IInv, ConvOwned
  <2>2. \A s \in base.sections : s.name # <<"bvu">>
    BY <2>1, OwnedIs DEF IInv, Back, SectionsBack, TypeOK, FilesSet
  <2>3. \E s \in files.sections : s.name = <<"bvu">>
    BY <2>1 DEF IInv, OwnedPresent
  <2> QED BY <1>3, <1>7, <2>2, <2>3
<1>8. kept => ~converts
  BY DEF Refused
<1>9. l.conv = IF kept THEN ledger.conv
               ELSE IF converts
               THEN [bridge |-> d.trunk, vid |-> Untagged(d, ledger),
                     moved |-> Moves(d, left)]
               ELSE None
  BY DEF NewLedger
<1>10. Kept(f, l) = kept
  <2>1. CASE kept
    <3>1. PICK s \in files.sections : s.dev = ledger.conv.bridge
                                        /\ s.name \notin OwnedSet(files, ledger)
      BY <2>1 DEF Kept, BridgeVLANs
    <3>2. s \in base.sections
      BY <3>1 DEF IInv, Back, SectionsBack, TypeOK, FilesSet
    <3>3. s \in left.sections
      BY <1>3, <3>2
    <3>4. s.name # <<"bvu">>
      BY <1>7, <2>1, <3>2
    <3>5. s.name \notin l.owned
      BY <1>4, <1>6, <3>3, <3>4
    <3>6. l.conv # None /\ l.conv = ledger.conv
      BY <1>1, <1>9, <2>1
    <3>7. s \in BridgeVLANs(f, l.conv.bridge)
      BY <1>4, <3>1, <3>3, <3>6 DEF BridgeVLANs
    <3> QED BY <1>5, <2>1, <3>5, <3>6, <3>7 DEF Kept
  <2>2. CASE ~kept /\ converts
    <3>1. \A s \in left.sections : s.dev # d.trunk
      BY <2>2 DEF Converts, BridgeVLANs
    <3>2. \A s \in f.sections : s.dev = d.trunk => s.name \in l.owned
      BY <1>4, <3>1
    <3>3. l.conv.bridge = d.trunk
      BY <1>9, <2>2
    <3> QED BY <1>5, <2>2, <3>2, <3>3 DEF Kept, BridgeVLANs
  <2>3. CASE ~kept /\ ~converts
    BY <1>9, <2>3 DEF Kept
  <2> QED BY <1>1, <2>1, <2>2, <2>3
<1> DEFINE u == Undone(f, l, kept)
<1>11. u.sections = left.sections
  <2>1. u.sections = {s \in f.sections :
                        s.name \notin IF kept THEN l.owned \ {<<"bvu">>} ELSE l.owned}
    BY <1>5 DEF Undone
  <2>2. ASSUME NEW s \in left.sections
        PROVE  s \in u.sections
    BY <1>4, <1>6, <2>1
  <2>3. ASSUME NEW c \in created
        PROVE  c \notin u.sections
    BY <1>4, <1>6, <1>7, <2>1
  <2> QED BY <1>4, <2>1, <2>2, <2>3
<1>12. u.dyn = left.dyn
  <2>1. ASSUME NEW a \in Ap
        PROVE  RestoredDyn(f, l, a) = left.dyn[a]
    <3>1. /\ f.dyn[a] = IF a \in d.aps THEN "1" ELSE left.dyn[a]
          /\ l.dyn[a] = IF a \in d.aps /\ left.dyn[a] # "1" THEN left.dyn[a]
                        ELSE NotRecorded
      BY DEF Planned, NewLedger
    <3>2. left.dyn[a] # NotRecorded
      BY <1>3, DynIsOne DEF FilesSet
    <3> QED BY <3>1, <3>2 DEF RestoredDyn
  <2>2. u.dyn = [a \in Ap |-> RestoredDyn(f, l, a)]
    BY DEF Undone
  <2>3. left.dyn = [a \in Ap |-> left.dyn[a]]
    BY <1>3 DEF FilesSet
  <2> QED BY <2>1, <2>2, <2>3
<1>13. u.dev = left.dev
  <2>1. ASSUME NEW i \in Iface
        PROVE  (IF l.conv = None \/ kept THEN f.dev[i] ELSE RestoredDev(f, l, i))
                 = left.dev[i]
    <3>1. f.dev[i] = IF converts /\ i \in Moves(d, left)
                     THEN Tagged(d.trunk, Untagged(d, ledger)) ELSE left.dev[i]
      BY DEF Planned
    <3>2. CASE ~converts
      BY <1>8, <1>9, <3>1, <3>2
    <3>3. CASE converts /\ i \in Moves(d, left)
      <4>1. left.dev[i] = Bare(d.trunk)
        BY <3>3 DEF Moves
      <4>2. RestoredDev(f, l, i) = Bare(d.trunk)
        BY <1>8, <1>9, <3>1, <3>3 DEF RestoredDev
      <4>3. d.trunk \in Bridge /\ Untagged(d, ledger) \in Vid
        BY <3>3, UntaggedType DEF Converts, Refused, IInv, TypeOK
      <4>4. l.conv # None
        <5>1. Moves(d, left) \in SUBSET Iface
          BY DEF Moves
        <5> QED BY <1>8, <1>9, <3>3, <4>3, <5>1, ConversionIsOne
      <4> QED BY <1>8, <3>3, <4>1, <4>2, <4>4
    <3>4. CASE converts /\ i \notin Moves(d, left)
      BY <1>8, <1>9, <3>1, <3>4 DEF RestoredDev
    <3> QED BY <3>2, <3>3, <3>4
  <2>2. u.dev = [i \in Iface |-> IF l.conv = None \/ kept THEN f.dev[i]
                                 ELSE RestoredDev(f, l, i)]
    BY DEF Undone
  <2>3. left.dev = [i \in Iface |-> left.dev[i]]
    BY <1>3 DEF FilesSet
  <2> QED BY <2>1, <2>2, <2>3
<1>14. u = left
  <2>1. left = [sections |-> left.sections, dyn |-> left.dyn, dev |-> left.dev]
    BY <1>3 DEF FilesSet
  <2>2. u = [sections |-> u.sections, dyn |-> u.dyn, dev |-> u.dev]
    BY DEF Undone
  <2> QED BY <1>11, <1>12, <1>13, <2>1, <2>2
<1> QED BY <1>10, <1>14 DEF Undo

\* With the new ledger the plan is made as with the old one: the untagged VLAN
\* of a conversion is the one it got.
LEMMA PlannedAgain ==
  ASSUME NEW d \in Desired, NEW f, NEW l \in LedgerSet, NEW kept \in BOOLEAN,
         NEW n, kept => l.conv # None, d.vids # {}, ~Refused(d, f, l, kept),
         n = NewLedger(d, f, l, kept)
  PROVE  /\ ~Refused(d, f, n, kept)
         /\ Planned(d, f, n, kept) = Planned(d, f, l, kept)
         /\ NewLedger(d, f, n, kept) = n
<1>1. kept => n.conv = l.conv
  BY DEF NewLedger
<1>2. KeptOn(d, n, kept) = KeptOn(d, l, kept)
  BY <1>1 DEF KeptOn
<1>3. Converts(d, f, n, kept) = Converts(d, f, l, kept)
  BY <1>2 DEF Converts
<1>4. ASSUME Converts(d, f, l, kept)
      PROVE  Untagged(d, n) = Untagged(d, l)
  <2>1. ~kept /\ d.trunk \in Bridge /\ Untagged(d, l) \in Vid
    BY <1>4, UntaggedType DEF Converts, Refused
  <2>2. n.conv = [bridge |-> d.trunk, vid |-> Untagged(d, l), moved |-> Moves(d, f)]
    BY <1>4, <2>1 DEF NewLedger
  <2>3. n.conv # None
    <3>1. Moves(d, f) \in SUBSET Iface
      BY DEF Moves
    <3> QED BY <2>1, <2>2, <3>1, ConversionIsOne
  <2> QED BY <2>2, <2>3, UntaggedIsFree DEF Untagged
<1>5. Created(d, f, n, kept) = Created(d, f, l, kept)
  BY <1>3, <1>4 DEF Created
<1>6. ~Refused(d, f, n, kept)
  BY <1>1, <1>2, <1>3, <1>4, <1>5 DEF Refused, KeptOn
<1>7. Planned(d, f, n, kept) = Planned(d, f, l, kept)
  BY <1>3, <1>4, <1>5 DEF Planned
<1>8. NewLedger(d, f, n, kept) = n
  BY <1>1, <1>3, <1>4, <1>5 DEF NewLedger
<1> QED BY <1>6, <1>7, <1>8

\* The same desired state again is a noop, whatever was applied before and
\* whatever others have edited (plan.go Plan; plan_test.go "not idempotent").
THEOREM SameAgainIsNoop ==
  ASSUME OthersBehave
  PROVE  Spec => []ReapplyIsNoop
<1>1. ASSUME IInv PROVE ReapplyIsNoop
  <2> DEFINE kept == Kept(files, ledger)
             left == Undo(files, ledger)
  <2> SUFFICES ASSUME NEW d \in Desired, d.vids # {}, ~Refused(d, left, ledger, kept)
               PROVE  Repeats(d, Planned(d, left, ledger, kept),
                              NewLedger(d, left, ledger, kept))
    BY DEF ReapplyIsNoop
  <2>1. kept \in BOOLEAN /\ (kept => ledger.conv # None)
    BY DEF Kept
  <2> DEFINE f == Planned(d, left, ledger, kept)
             n == NewLedger(d, left, ledger, kept)
  <2>2. Kept(f, n) = kept /\ Undo(f, n) = left
    BY <1>1, UndoneAgain
  <2>3. ledger \in LedgerSet
    BY <1>1 DEF IInv, TypeOK
  <2> HIDE DEF kept, left
  <2>4. /\ ~Refused(d, left, n, kept)
        /\ Planned(d, left, n, kept) = f
        /\ NewLedger(d, left, n, kept) = n
    BY <2>1, <2>3, PlannedAgain
  <2> HIDE DEF f, n
  <2>5. Repeats(d, f, n)
    BY <2>2, <2>4 DEF Repeats
  <2> QED BY <2>5 DEF f, n
<1> QED BY <1>1, PlanInvariant, PTL

\* An apply without VLANs leaves nothing of the groups, in the configs or in
\* the ledger, unless a conversion has to stay for somebody else's VLAN
\* (plan_test.go "every Perch section and change is gone").
THEOREM NothingIsLeft ==
  ASSUME OthersBehave
  PROVE  Spec => [][ApplyNothing => \/ Kept(files, ledger)
                                    \/ /\ files' = base
                                       /\ ledger'.owned = {} /\ ledger'.conv = None]_vars
<1>1. ASSUME IInv, ApplyNothing, ~Kept(files, ledger)
      PROVE  files' = base /\ ledger'.owned = {} /\ ledger'.conv = None
  <2> DEFINE kept == Kept(files, ledger)
  <2>1. files' = Undone(files, ledger, kept) /\ ledger' = EmptyLedger(ledger, kept)
    BY <1>1 DEF ApplyNothing, Undo
  <2>2. kept = FALSE
    BY <1>1 DEF Kept
  <2> HIDE DEF kept
  <2>3. files' = base
    BY <1>1, <2>1, <2>2, BackIsBase DEF IInv, TypeOK, Back
  <2> QED BY <2>1, <2>2, <2>3 DEF EmptyLedger, OwnedNames
<1>2. IInv => [ApplyNothing => \/ Kept(files, ledger)
                               \/ /\ files' = base
                                  /\ ledger'.owned = {} /\ ledger'.conv = None]_vars
  BY <1>1
<1> QED BY <1>2, PlanInvariant, PTL DEF Spec

=============================================================================
