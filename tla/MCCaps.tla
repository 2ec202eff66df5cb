------------------------------- MODULE MCCaps -------------------------------
(***************************************************************************)
(* Two requests and one MCP message of three clients over a budget of      *)
(* eight units, a share of two: costs below the floor, above the share and *)
(* above the budget.                                                       *)
(***************************************************************************)
EXTENDS Caps
=============================================================================
