------------------------------- MODULE Kernel -------------------------------
(***************************************************************************)
(* The kernel's main loop (kernel/kernel.cpp) over the message queue, the  *)
(* task ring and the timers of an application of ToggleLED tasks: loop()   *)
(* handles up to two messages and dispatches one task, for ever. The queue *)
(* is the abstract one (MessageBus, which MessageQueue implements).        *)
(*                                                                         *)
(* Time passes while application code runs: a message's handlers, or one   *)
(* TaskLoop, take up to MaxLag ms. What the kernel itself takes is counted *)
(* with them.                                                              *)
(***************************************************************************)
EXTENDS Integers, Sequences, FiniteSets

CONSTANTS
    Lamp,     \* the ToggleLED tasks; each has a pin of its own
    Timeout,  \* the timeout of each
    Modulus,  \* the number of values of millis()
    MaxLag,   \* bound on the ms of one message's handlers and of one TaskLoop
    Message, NoMessage,
    MaxQueue  \* bound on the messages waiting

ASSUME LampAssumption == IsFiniteSet(Lamp) /\ Timeout \in [Lamp -> 0..(Modulus - 1)]
ASSUME TimeAssumption == Modulus \in Nat \ {0} /\ MaxLag \in Nat /\ MaxQueue \in Nat
ASSUME MessageAssumption == NoMessage \notin Message

VARIABLES
    queue, current,          \* the message queue
    reg, pCur, inCall, alive, wait, \* the task ring
    millis,                  \* what millis() returns
    tmr, toggleflag,         \* members of each ToggleTask
    PORTB,                   \* the lamps whose pin is high
    pc,     \* "init" in UserInit, "mq" and "ring" in the two Loops, "handler", or in
            \* a TaskLoop: "task" before the poll, "restart", and "return"
    left,   \* messages that this MessageQueue.Loop may still handle
    lag,    \* ms that the running application code has taken
    since,  \* history: ms since each timer was started, up to Modulus
    blinking \* history: the lamps whose TaskLoop has restarted their timer

bus == <<queue, current>>
ring == <<reg, pCur, inCall, alive, wait>>
lamps == <<tmr, toggleflag, PORTB, since, blinking>>
vars == <<bus, ring, lamps, millis, pc, left, lag>>

Bus == INSTANCE MessageBus
Ring == INSTANCE TaskRing WITH Task <- Lamp, MaxNodes <- Cardinality(Lamp)
Timer(l) == INSTANCE OSTimer WITH
    Timeouts <- {Timeout[l]}, tmr <- tmr[l], time <- Timeout[l],
    freeze <- 0, frozen <- 0, ran <- since[l], paused <- FALSE

InTask == {"task", "restart", "return"}

TypeOK ==
    /\ queue \in Seq(Message) /\ Len(queue) <= MaxQueue
    /\ current \in Message \cup {NoMessage}
    /\ Ring!RingInv
    /\ millis \in 0..(Modulus - 1)
    /\ tmr \in [Lamp -> 0..(Modulus - 1)] /\ since \in [Lamp -> 0..Modulus]
    /\ toggleflag \in [Lamp -> BOOLEAN]
    /\ PORTB \subseteq blinking /\ blinking \subseteq Lamp
    /\ pc \in {"init", "mq", "handler", "ring"} \cup InTask
    /\ left \in 0..2 /\ lag \in 0..MaxLag
    /\ pc = "handler" => left > 0
    /\ pc = "ring" => left = 0
    /\ pc = "init" => blinking = {}
    /\ inCall <=> pc \in InTask
    /\ current # NoMessage <=> pc = "handler"

(* Static construction: the timers start, all lamps are off.                *)
Init ==
    /\ Bus!Init /\ Ring!Init
    /\ millis \in 0..(Modulus - 1)
    /\ tmr = [l \in Lamp |-> millis] /\ since = [l \in Lamp |-> 0]
    /\ toggleflag = [l \in Lamp |-> FALSE]
    /\ PORTB = {} /\ blinking = {}
    /\ pc = "init" /\ left = 0 /\ lag = 0

-----------------------------------------------------------------------------
(* Task::Start, in UserInit or later in a message handler.                  *)
Start(l) ==
    /\ pc \in {"init", "handler"}
    /\ \A k \in 1..Len(reg) : reg[k] # l
    /\ Ring!RegisterTaskHandler(l)
    /\ UNCHANGED <<bus, lamps, millis, pc, left, lag>>

(* Mutant: the message queue is given no share of the loop.                 *)
MutEnterLoop == pc' = "mq" /\ left' = 0 /\ lag' = 0

(* loop() begins: MessageQueue.Loop(2).                                     *)
EnterLoop == pc' = "mq" /\ left' = 2 /\ lag' = 0

UserInitReturns ==
    /\ pc = "init"
    /\ EnterLoop
    /\ UNCHANGED <<bus, ring, lamps, millis>>

TakeMessage ==
    /\ pc = "mq" /\ left > 0
    /\ Bus!Take
    /\ pc' = "handler" /\ lag' = 0
    /\ UNCHANGED <<ring, lamps, millis, left>>

(* Mutant: messages are handled until there are none.                       *)
MutMessageDone ==
    /\ pc = "handler"
    /\ Bus!Done
    /\ pc' = "mq"
    /\ UNCHANGED <<ring, lamps, millis, left, lag>>

MessageDone ==
    /\ pc = "handler"
    /\ Bus!Done
    /\ pc' = "mq" /\ left' = left - 1
    /\ UNCHANGED <<ring, lamps, millis, lag>>

(* Mutant: an idle queue is polled once more than MaxMessages allows.       *)
MutNoMessageYet ==
    /\ pc = "mq" /\ left >= 0 /\ queue = <<>>
    /\ left' = left - 1
    /\ UNCHANGED <<bus, ring, lamps, millis, pc, lag>>

NoMessageYet ==
    /\ pc = "mq" /\ left > 0 /\ queue = <<>>
    /\ left' = left - 1
    /\ UNCHANGED <<bus, ring, lamps, millis, pc, lag>>

MessageLoopReturns ==
    /\ pc = "mq" /\ left = 0
    /\ pc' = "ring"
    /\ UNCHANGED <<bus, ring, lamps, millis, left, lag>>

(* TaskManager.Loop(): one dispatch, if there is a task.                    *)
Dispatch ==
    /\ pc = "ring"
    /\ Ring!LoopCall
    /\ pc' = "task" /\ lag' = 0
    /\ UNCHANGED <<bus, lamps, millis, left>>

NoTask ==
    /\ pc = "ring" /\ reg = <<>>
    /\ EnterLoop
    /\ UNCHANGED <<bus, ring, lamps, millis>>

(* Mutant: a lamp that is toggled takes the whole port with it.             *)
MutToggle(l, state) == PORTB' = IF state THEN {l} ELSE {}

(* ToggleLED::Toggle: only the lamp's own pin.                              *)
Toggle(l, state) == PORTB' = (PORTB \ {l}) \cup (IF state THEN {l} ELSE {})

(* Mutant: toggleflag is not flipped.                                       *)
MutPoll(l) ==
    /\ pc = "task" /\ l = reg[pCur]
    /\ \/ /\ Timer(l)!isExpired
          /\ Toggle(l, toggleflag[l])
          /\ pc' = "restart" /\ UNCHANGED toggleflag
       \/ /\ ~Timer(l)!isExpired
          /\ pc' = "return" /\ UNCHANGED <<PORTB, toggleflag>>
    /\ UNCHANGED <<bus, ring, tmr, since, blinking, millis, left, lag>>

(* ToggleTask::TaskLoop of the dispatched lamp.                             *)
Poll(l) ==
    /\ pc = "task" /\ l = reg[pCur]
    /\ \/ /\ Timer(l)!isExpired
          /\ Toggle(l, toggleflag[l])
          /\ toggleflag' = [toggleflag EXCEPT ![l] = ~@]
          /\ pc' = "restart"
       \/ /\ ~Timer(l)!isExpired
          /\ pc' = "return" /\ UNCHANGED <<PORTB, toggleflag>>
    /\ UNCHANGED <<bus, ring, tmr, since, blinking, millis, left, lag>>

(* tm.Restart(), which may come some ms after the toggle.                   *)
RestartTimer(l) ==
    /\ pc = "restart" /\ l = reg[pCur]
    /\ tmr' = [tmr EXCEPT ![l] = millis] /\ since' = [since EXCEPT ![l] = 0]
    /\ blinking' = blinking \cup {l}
    /\ pc' = "return"
    /\ UNCHANGED <<bus, ring, toggleflag, PORTB, millis, left, lag>>

TaskReturns ==
    /\ pc = "return"
    /\ Ring!LoopReturn
    /\ EnterLoop
    /\ UNCHANGED <<bus, lamps, millis>>

(* A millisecond of application code.                                       *)
Tick ==
    /\ pc \in {"handler"} \cup InTask
    /\ lag < MaxLag /\ lag' = lag + 1
    /\ millis' = (millis + 1) % Modulus
    /\ since' = [l \in Lamp |-> IF since[l] = Modulus THEN Modulus ELSE since[l] + 1]
    /\ UNCHANGED <<bus, ring, tmr, toggleflag, PORTB, blinking, pc, left>>

(* A message from an interrupt or a task.                                   *)
PostMessage(m) ==
    /\ Len(queue) < MaxQueue
    /\ Bus!Post(m)
    /\ UNCHANGED <<ring, lamps, millis, pc, left, lag>>

Processor ==
    \/ UserInitReturns
    \/ TakeMessage \/ MessageDone \/ NoMessageYet \/ MessageLoopReturns
    \/ Dispatch \/ NoTask \/ TaskReturns
    \/ \E l \in Lamp : Poll(l) \/ RestartTimer(l)

Next ==
    \/ Processor
    \/ Tick
    \/ \E l \in Lamp : Start(l)
    \/ \E m \in Message : PostMessage(m)

Spec == Init /\ [][Next]_vars

(***************************************************************************)
(* The processor goes on executing; handlers and TaskLoops return; and     *)
(* executing them takes time.                                              *)
(***************************************************************************)
FairSpec == Spec /\ WF_vars(Processor) /\ SF_vars(Tick)

-----------------------------------------------------------------------------
(***************************************************************************)
(* A lamp never changes before its timeout has passed since its timer was  *)
(* last started, whatever the other lamps do to the port, across the wrap- *)
(* around of millis().                                                     *)
(***************************************************************************)
NeverEarly ==
    [][\A l \in Lamp : (l \in PORTB) # (l \in PORTB') => since[l] > Timeout[l]]_vars

(***************************************************************************)
(* Nor does it change late: between two polls of a lamp the ring goes once *)
(* around, each dispatch costs at most two messages and one TaskLoop, and  *)
(* the lamp's own TaskLoop may be slow before the poll and after it.       *)
(***************************************************************************)
Round == (3 * Cardinality(Lamp) + 1) * MaxLag
NeverLate == \A l \in blinking : since[l] <= Timeout[l] + Round

(* Every lamp has at most one node, and one that has run has one.           *)
OneNodeEach ==
    /\ \A j, k \in 1..Len(reg) : reg[j] = reg[k] => j = k
    /\ \A l \in blinking : \E k \in 1..Len(reg) : reg[k] = l

(* A lamp is first switched on by a TaskLoop that runs after another one    *)
(* has restarted its timer: the first one switches it off.                  *)
FirstOff ==
    \A l \in Lamp : toggleflag[l] => l \in blinking \/ (pc = "restart" /\ l = reg[pCur])

(* The most that can have passed since the poll that left node k's timer    *)
(* running. The dispatches of others that the ring counts take three lags   *)
(* each; a poll that finds the timer running starts the count again.        *)
Passed(k) ==
    CASE pc \in InTask /\ pCur # k -> 3 * (wait[k] * MaxLag) + lag
      [] pc \in {"task", "restart"} /\ pCur = k -> 3 * (Cardinality(Lamp) * MaxLag) + lag
      [] pc = "return" /\ pCur = k -> lag
      [] pc = "handler" -> 3 * (wait[k] * MaxLag) + (3 - left) * MaxLag + lag
      [] OTHER -> 3 * (wait[k] * MaxLag) + (3 - left) * MaxLag

(* NeverLate made inductive. A count of Modulus ms or more has stopped.     *)
Pace ==
    \A k \in 1..Len(reg) :
        reg[k] \in blinking /\ Timeout[reg[k]] + Round < Modulus =>
            since[reg[k]] <= Timeout[reg[k]] + Passed(k)

(***************************************************************************)
(* The inductive invariant: the queue's, the ring's and each timer's own,  *)
(* and how far the loop has come since each lamp was last polled.          *)
(***************************************************************************)
KernelInv ==
    /\ TypeOK
    /\ OneNodeEach
    /\ FirstOff
    /\ \A l \in Lamp : Timer(l)!CountInv
    /\ Pace

(* A lamp that is started goes on and off for ever.                         *)
EveryLampBlinks ==
    \A l \in Lamp :
        [](l \in {reg[k] : k \in 1..Len(reg)} => <>(l \in PORTB) /\ <>(l \notin PORTB))

(* Tasks do not keep messages from being handled.                           *)
MessagesHandled == Len(queue) > 0 ~> current # NoMessage
=============================================================================
