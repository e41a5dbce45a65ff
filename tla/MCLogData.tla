----------------------------- MODULE MCLogData -----------------------------
(* Values of the constants of LogData that a configuration file cannot      *)
(* write: page numbers of both signs. On the device of the runs -1 is the   *)
(* last reserved page and -2 the pointer's.                                 *)
EXTENDS LogData

SomePages == {-2, 0, 4}
SomeGarbage == {-2, 1}
SomeNegative == {-1, 0, 3}
=============================================================================
