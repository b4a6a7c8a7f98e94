-------------------------- MODULE MCAutomaticOrders --------------------------
(***************************************************************************)
(* Instances of the automatic orders for TLC: one user session besides the *)
(* monitor's.                                                              *)
(***************************************************************************)
EXTENDS AutomaticOrders, TLC

CONSTANTS user, robot, client, INFY
===============================================================================
