------------------------------ MODULE MCKernel ------------------------------
(* The timeouts of two lamps, which a configuration file cannot write.      *)
EXTENDS Kernel

CONSTANTS red, green

TwoTimeouts == [l \in Lamp |-> IF l = red THEN 1 ELSE 2]
=============================================================================
