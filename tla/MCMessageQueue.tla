--------------------------- MODULE MCMessageQueue ---------------------------
(* Values of the constants of MessageQueue that a configuration file        *)
(* cannot write.                                                            *)
EXTENDS MessageQueue

CONSTANTS f1, r1, r2

(* Every handler at an address of its own, as on a von Neumann machine.     *)
DistinctAddr == [h \in Handler |-> CASE h = f1 -> 1 [] h = r1 -> 2 [] h = r2 -> 3]

(* -1 is MSG_ID_NOMESSAGE, which Post refuses, and with one row 1 is one    *)
(* past the last id.                                                        *)
OneRowIds == {-1, 0, 1}
=============================================================================
