------------------------------ MODULE TaskRing ------------------------------
(***************************************************************************)
(* The cooperative scheduler of the kernel (kernel/taskring.cpp) and the   *)
(* Task base class that feeds it (kernel/Task.cpp).                        *)
(*                                                                         *)
(* TASKSTATE nodes are only ever pushed at the head of the list and never  *)
(* unlinked, so the list is its registration history: node k is the k-th   *)
(* node registered, its pNext is node k-1, node 0 is NULL and pHead is the *)
(* length of the history.                                                  *)
(***************************************************************************)
EXTENDS Naturals, Sequences

CONSTANTS
    Task,           \* the Task objects (and task functions) of the program
    MaxNodes        \* TASKSTATE nodes that fit on the heap

ASSUME MaxNodesAssumption == MaxNodes \in Nat

VARIABLES
    reg,    \* registration history: reg[k] is the task of node k
    pCur,   \* the node to be dispatched next, or in progress; 0 is NULL
    inCall, \* TRUE while pCur->Call() runs
    alive,  \* the task objects that have not been destroyed
    wait    \* history: dispatches of other nodes since node k was last called

vars == <<reg, pCur, inCall, alive, wait>>

Nodes == 1..Len(reg)
pHead == Len(reg)

TypeOK ==
    /\ reg \in Seq(Task)
    /\ Len(reg) <= MaxNodes
    /\ pCur \in 0..Len(reg)
    /\ inCall \in BOOLEAN
    /\ alive \in SUBSET Task
    /\ wait \in [Nodes -> Nat]

Init ==
    /\ reg = <<>>
    /\ pCur = 0
    /\ inCall = FALSE
    /\ alive = Task
    /\ wait = <<>>

-----------------------------------------------------------------------------
(* Mutant: the node registered is also made the current one.                *)
MutRegisterMovesCursor(t) ==
    /\ t \in alive
    /\ Len(reg) < MaxNodes
    /\ reg' = Append(reg, t) /\ pCur' = Len(reg) + 1
    /\ wait' = Append(wait, 0)
    /\ UNCHANGED <<inCall, alive>>

(***************************************************************************)
(* Task::Start, and both overloads of RegisterTaskHandler: a new node at   *)
(* the head. It is task-context code, so it runs in UserInit, in a message *)
(* handler, or inside a TaskLoop: at any point of the ring's own cycle.    *)
(* When the heap is exhausted `new` returns NULL and nothing changes.      *)
(***************************************************************************)
RegisterTaskHandler(t) ==
    /\ t \in alive
    /\ Len(reg) < MaxNodes
    /\ reg' = Append(reg, t)
    /\ wait' = Append(wait, 0)
    /\ UNCHANGED <<pCur, inCall, alive>>

(* Task::~Task, called by task-context code. The DeregisterTaskHandler that *)
(* it calls has an empty body.                                              *)
DeregisterTaskHandler(t) == UNCHANGED <<reg, pCur>>

DestroyTask(t) ==
    /\ t \in alive
    /\ alive' = alive \ {t}
    /\ DeregisterTaskHandler(t)
    /\ UNCHANGED <<inCall, wait>>

(* Mutant: a cursor that is NULL is not set to the head.                    *)
MutNoReset == pCur

(* The node TaskRing::Loop dispatches: pCur, or the head when pCur is NULL. *)
ResumePoint == IF pCur = 0 THEN pHead ELSE pCur

(* One TaskRing::Loop, up to and including the entry into Call().           *)
LoopCall ==
    /\ ~inCall
    /\ ResumePoint # 0
    /\ pCur' = ResumePoint
    /\ inCall' = TRUE
    /\ wait' = [k \in Nodes |-> IF k = ResumePoint THEN 0 ELSE wait[k] + 1]
    /\ UNCHANGED <<reg, alive>>

(* Mutant: the ring starts again at the head after every dispatch.          *)
MutLoopReturnToHead ==
    inCall /\ pCur' = 0 /\ inCall' = FALSE /\ UNCHANGED <<reg, alive, wait>>

(* Call() returns and the cursor moves on to pNext.                         *)
LoopReturn ==
    /\ inCall
    /\ pCur' = pCur - 1
    /\ inCall' = FALSE
    /\ UNCHANGED <<reg, alive, wait>>

(* What an application has to keep to, because the ring would go on calling *)
(* the dead task: it deletes only tasks that it has not started.            *)
MayDestroy(t) == \A k \in Nodes : reg[k] # t

Next ==
    \/ \E t \in Task : RegisterTaskHandler(t) \/ (MayDestroy(t) /\ DestroyTask(t))
    \/ LoopCall
    \/ LoopReturn

Spec == Init /\ [][Next]_vars

(***************************************************************************)
(* The Arduino main loop calls loop() for ever, and a TaskLoop returns: a  *)
(* task that blocks "will block other tasks" (taskring.h).                 *)
(***************************************************************************)
FairSpec == Spec /\ WF_vars(LoopCall) /\ WF_vars(LoopReturn)

-----------------------------------------------------------------------------
(***************************************************************************)
(* Round robin with a bound: whenever a node has been registered, and      *)
(* however registrations interleave with the ring's cycle, fewer dispatches *)
(* than there are nodes pass before that node is dispatched (again).       *)
(***************************************************************************)
BoundedWait == \A k \in Nodes : wait[k] < Len(reg)

(* The first node that will be dispatched after the one in progress.        *)
Ahead == IF inCall THEN pCur - 1 ELSE pCur

(***************************************************************************)
(* BoundedWait made inductive: a node still ahead in this round of the     *)
(* ring has waited at most for the nodes above it and for its last round's *)
(* tail; a node behind the cursor only for the nodes between.              *)
(***************************************************************************)
WaitInv == \A k \in Nodes :
    wait[k] <= IF k <= Ahead THEN (k - 1) + (Len(reg) - Ahead)
                             ELSE (k - 1) - Ahead

(* During a call the cursor is at a node, so that pCur->pNext can be read.  *)
CursorInv == inCall => pCur # 0

RingInv == TypeOK /\ CursorInv /\ WaitInv

(***************************************************************************)
(* Starvation freedom: a node that is in the ring is dispatched again and  *)
(* again, also while tasks keep registering others.                        *)
(***************************************************************************)
EveryTaskRuns ==
    \A k \in 1..MaxNodes : [](k <= Len(reg) => <>(inCall /\ pCur = k))

=============================================================================
