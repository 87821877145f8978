-------------------------- MODULE MCWirelessSource --------------------------
(***************************************************************************)
(* WirelessSource for TLC: two interfaces; one goroutine that asks         *)
(* for clients, and one that looks at the interfaces.                      *)
(***************************************************************************)
EXTENDS WirelessSource, TLC

CONSTANTS k1, k2, w1, w2

TwoCallers == {k1, k2}
TwoInterfaces == {w1, w2}
ClientsAndLook == (k1 :> {"kick", "list"}) @@ (k2 :> {"look"})
=============================================================================
