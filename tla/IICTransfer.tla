---------------------------- MODULE IICTransfer ----------------------------
(***************************************************************************)
(* What a transfer of the IIC driver promises its caller, for a write and  *)
(* a read alike: the bytes arrive at the other end in order, and the       *)
(* result says how far the transfer came. 0: all of them arrived. -2: it   *)
(* broke off before the last one. -1: it never began.                      *)
(***************************************************************************)
EXTENDS Integers, Sequences

CONSTANTS Payload  \* the byte sequences that are transferred

VARIABLES
    busy,    \* a call is in progress
    payload, \* the bytes to be transferred
    arrived, \* those that the receiving end has
    result   \* what the last call returned; 0 during a call

vars == <<busy, payload, arrived, result>>

Init == busy = FALSE /\ payload = <<>> /\ arrived = <<>> /\ result = 0

Begin(p) ==
    /\ ~busy
    /\ busy' = TRUE /\ payload' = p /\ arrived' = <<>> /\ result' = 0

Move ==
    /\ busy /\ Len(arrived) < Len(payload)
    /\ arrived' = Append(arrived, payload[Len(arrived) + 1])
    /\ UNCHANGED <<busy, payload, result>>

End ==
    /\ busy /\ busy' = FALSE
    /\ result' \in {0, -1, -2}
    /\ result' = 0 <=> arrived = payload
    /\ result' = -1 => arrived = <<>>
    /\ UNCHANGED <<payload, arrived>>

Next == (\E p \in Payload : Begin(p)) \/ Move \/ End

Spec == Init /\ [][Next]_vars
=============================================================================
