------------------------------ MODULE MCLocator ------------------------------
(***************************************************************************)
(* Locator for TLC: an LED follows a network device, or blinks already of  *)
(* its own, slower.                                                        *)
(***************************************************************************)
EXTENDS Locator

NetdevOrTimer ==
  {[trigger |-> "netdev", attrs |-> "lan1"],
   [trigger |-> "timer", attrs |-> "500"]}
=============================================================================
