----------------------------- MODULE MCSnapshots -----------------------------
(***************************************************************************)
(* An instance of the equity curve for TLC.                                *)
(***************************************************************************)
EXTENDS Snapshots

CONSTANTS trader, INFY, BTC, job, client

\* Bound: a behaviour with a reset is followed through one order and two stamps.
SmallIfReset == wallet.resets > 0 => nextId <= 2 /\ Now <= 3
===============================================================================
