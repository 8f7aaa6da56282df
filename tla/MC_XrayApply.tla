---------------------------- MODULE MC_XrayApply ----------------------------
(* Instances of XrayApply for TLC: two ports, and one route besides the     *)
(* direct one.                                                              *)
EXTENDS XrayApply, TLC

CONSTANTS p1, p2

TwoPorts == {p1, p2}
OneSold == {p1}
NoneSold == {}
=============================================================================
