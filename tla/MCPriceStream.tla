---------------------------- MODULE MCPriceStream ----------------------------
(* Instances of PriceStream for TLC. *)
EXTENDS PriceStream

CONSTANTS tab, create, INFY, TCS
===============================================================================
