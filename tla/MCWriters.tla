----------------------------- MODULE MCWriters -----------------------------
(***************************************************************************)
(* Writers for TLC: one name of the groups and one other.                  *)
(***************************************************************************)
EXTENDS Writers

CONSTANTS g1, p1

OneGroupsName == {g1}
OneFreeName == {p1}
=============================================================================
