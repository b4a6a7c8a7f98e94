--------------------------- MODULE MCConnectionPool ---------------------------
(* Instances of ConnectionPool for TLC. *)
EXTENDS ConnectionPool, TLC

CONSTANTS tab, phone, third, INFY, TCS

Symmetry == Permutations(Sockets)
===============================================================================
