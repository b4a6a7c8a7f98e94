--------------------------- MODULE MCTradingEngine ---------------------------
(***************************************************************************)
(* Instances of the trading engine and its books for TLC.                  *)
(***************************************************************************)
EXTENDS TradingBooks, TradingEngineInv, TLC

CONSTANTS s1, s2, INFY, BTC

SessionSymmetry == Permutations(Sessions)
===============================================================================
