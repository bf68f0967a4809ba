--------------------------- MODULE MCNameServer ---------------------------
(* Two clients and three names, two of which hash to the same slot.         *)
EXTENDS NameServer

CONSTANTS clock_server, rps_server, other

MCSlot == [n \in {clock_server, rps_server, other} |-> IF n = rps_server THEN 48 ELSE 39]
=============================================================================
