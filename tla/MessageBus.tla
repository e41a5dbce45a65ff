----------------------------- MODULE MessageBus -----------------------------
(***************************************************************************)
(* What the message queue promises, without pointers, interrupts or        *)
(* memory: posted messages wait in one sequence, and the kernel handles    *)
(* them one at a time, in the order in which they were posted.             *)
(***************************************************************************)
EXTENDS Sequences

CONSTANTS Message, NoMessage

VARIABLES
    queue,  \* messages posted and not yet taken
    current \* the message being handled, or NoMessage

vars == <<queue, current>>

Init == queue = <<>> /\ current = NoMessage

Post(m) ==
    /\ queue' = Append(queue, m)
    /\ UNCHANGED current

Take ==
    /\ queue # <<>>
    /\ current = NoMessage
    /\ current' = Head(queue)
    /\ queue' = Tail(queue)

Done ==
    /\ current # NoMessage
    /\ current' = NoMessage
    /\ UNCHANGED queue

Next == (\E m \in Message : Post(m)) \/ Take \/ Done

Spec == Init /\ [][Next]_vars
=============================================================================
