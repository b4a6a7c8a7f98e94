------------------------------ MODULE MCTerminal ------------------------------
(* An instance of the terminal for TLC. *)
EXTENDS Terminal, TLC

CONSTANTS first, second, INFY, BTC, null

SocketSymmetry == Permutations(Sockets)
===============================================================================
