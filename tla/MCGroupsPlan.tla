----------------------------- MODULE MCGroupsPlan -----------------------------
(* Sections of others with names of the groups, and symmetry, for TLC. *)
EXTENDS GroupsPlan, TLC

\* In the file the groups would use the name in: an interface, and a
\* bridge-vlan of another id than its name says.
SameFile(b) == {Section("network", <<"v", 1>>), BridgeVLAN(<<"bv", 1>>, b, 2)}

MCForeign == UNION {SameFile(b) : b \in Bridge}

MCSymmetry == Permutations(Bridge) \cup Permutations(Iface)
=============================================================================
