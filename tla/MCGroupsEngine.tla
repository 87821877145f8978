--------------------------- MODULE MCGroupsEngine ---------------------------
(***************************************************************************)
(* GroupsEngine for TLC: revision 1 puts stations in wireless and a VLAN   *)
(* in network; revision 2 keeps the VLAN, changes the stations and shares  *)
(* one with revision 1; revision 3 has no group left.                      *)
(***************************************************************************)
EXTENDS GroupsEngine

AllSections == {"perch_ws0", "perch_ws1", "perch_v101", "perch_v102"}

Groups(r) ==
  CASE r = 1 -> [wireless |-> {"perch_ws0"}, network |-> {"perch_v101"}]
    [] r = 2 -> [wireless |-> {"perch_ws0", "perch_ws1"},
                 network |-> {"perch_v101"}]
    [] r = 3 -> [wireless |-> {"perch_ws1"}, network |-> {"perch_v102"}]
    [] r = 4 -> [wireless |-> {}, network |-> {}]

TwoRevisions == {1, 2}
ThreeRevisions == {1, 2, 3}
TargetOf2 == [r \in TwoRevisions |-> Groups(r)]
TargetOf3 == [r \in ThreeRevisions |-> Groups(r)]
=============================================================================
