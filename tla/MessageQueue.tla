---------------------------- MODULE MessageQueue ----------------------------
(***************************************************************************)
(* The message queue of the kernel (kernel/mq.cpp): a linked list of       *)
(* messages filled from task context and from interrupts, and for each     *)
(* message id a linked list of handlers that the kernel loop walks.        *)
(*                                                                         *)
(* There are two actors. The task thread runs the kernel loop, the         *)
(* application's tasks and the message handlers; every memory write of     *)
(* Post and of the pop in Loop is a step of its own. An interrupt may      *)
(* come between any two steps of the task thread while interrupts are      *)
(* enabled; the AVR masks interrupts during the service routine, so what   *)
(* the routine does is one step.                                           *)
(*                                                                         *)
(* The allocator is the C library's: new returns a block that is not in    *)
(* use, or NULL. That an interrupt may use it at any moment is assumed     *)
(* here: malloc itself is not reentrant, and only Post and the pop mask    *)
(* interrupts around it.                                                   *)
(***************************************************************************)
EXTENDS Integers, Sequences, SequencesExt

CONSTANTS
    Function,        \* the functions that may be subscribed
    Receiver,        \* the EventReceiver objects that may be subscribed
    Addr,            \* the pointer value of each handler
    MSG_MAX_MSG_IDS, \* number of rows of QueueBlock
    SubIds, PostIds, \* msgid arguments the application passes
    Block,           \* heap blocks that can hold a MESSAGE
    HeapCtx,         \* context objects on the heap, handed over with MQ_OWNER_MQ
    CallerCtx,       \* context objects that stay the poster's
    MaxMessages,     \* the argument of Loop in kernel.cpp
    Careful,         \* does the application keep to the rules named below?
    NULL

Handler == Function \cup Receiver
MsgIds == 0..(MSG_MAX_MSG_IDS - 1)
MSG_ID_NOMESSAGE == -1

(* What a MESSAGE carries. Heap contexts are handed over to the queue.      *)
Message ==
    [msgid : PostIds, context : HeapCtx \cup {NULL}, CallerOwns : {"MQ_OWNER_MQ"}]
      \cup
    [msgid : PostIds, context : CallerCtx \cup {NULL}, CallerOwns : {"MQ_OWNER_CALLER"}]

(* The arguments of Subscribe and Unsubscribe, and the progress of          *)
(* UnsubscribeAllIDs (`all`) through the ids.                               *)
Registration == [msgid : SubIds \cup MsgIds, handler : Handler, all : BOOLEAN]

ASSUME SizeAssumption == MSG_MAX_MSG_IDS \in Nat \ {0} /\ MaxMessages \in Nat
ASSUME IdAssumption == SubIds \subseteq Int /\ PostIds \subseteq Int
ASSUME NullAssumption == NULL \notin Block \cup Handler \cup HeapCtx \cup CallerCtx
ASSUME NullMessageAssumption == NULL \notin Message
ASSUME CtxAssumption == HeapCtx \cap CallerCtx = {}
ASSUME HandlerAssumption == Function \cap Receiver = {} /\ Addr \in [Handler -> Nat]
ASSUME CarefulAssumption == Careful \in BOOLEAN

VARIABLES
    MsgQueueFirst, MsgQueueLast, \* the ends of the message list
    pNextMsg,   \* the link of each message block
    body,       \* the message in each block
    used,       \* blocks that are allocated
    QueueBlock, \* for each id, its handlers from the head of the list on
    ie,         \* the AVR global interrupt enable flag
    critical,   \* application code is in a section of its own with interrupts off
    stage,      \* progress of the Post, Subscribe or Unsubscribe in progress
    req,        \* its arguments
    newMessage, \* Post's local variable
    pc,         \* where the task thread is in Loop; "app": in a task, not in Loop
    budget,     \* iterations left (Loop's MaxMessages)
    msg,        \* Loop's local variable: the message taken
    curHandler, \* Loop's local variable: the handler node to call, or being called
    stale,      \* the node curHandler points to has been deleted
    live,       \* context objects that have not been deleted
    alive,      \* handlers: "yes", "detached" by UnsubscribeAllIDs, or "no" more
    fifo,       \* history: the blocks posted and not yet taken, in order
    owed        \* history: handlers still due a call for msg

listVars == <<MsgQueueFirst, MsgQueueLast, pNextMsg, body, used, fifo>>
loopVars == <<pc, budget, msg, curHandler, stale>>
callVars == <<stage, req, newMessage>>
vars == <<listVars, loopVars, callVars, QueueBlock, ie, critical, live, alive, owed>>

TypeOK ==
    /\ MsgQueueFirst \in Block \cup {NULL}
    /\ MsgQueueLast \in Block \cup {NULL}
    /\ pNextMsg \in [Block -> Block \cup {NULL}]
    /\ body \in [Block -> Message \cup {NULL}]
    /\ used \in SUBSET Block
    /\ QueueBlock \in [MsgIds -> Seq(Handler)]
    /\ ie \in BOOLEAN
    /\ critical \in BOOLEAN
    /\ stage \in {"none", "masked", "first", "last", "unmask", "sub", "unsub"}
    /\ req \in Message \cup Registration \cup {NULL}
    /\ newMessage \in Block \cup {NULL}
    /\ pc \in {"app", "poll", "pop", "fix", "unmask", "dispatch", "handlers",
               "handler", "free"}
    /\ budget \in 0..MaxMessages /\ (pc \notin {"app", "poll"} => budget > 0)
    /\ msg \in Block \cup {NULL}
    /\ curHandler \in Handler \cup {NULL}
    /\ stale \in BOOLEAN
    /\ live \in SUBSET (HeapCtx \cup CallerCtx)
    /\ alive \in [Handler -> {"yes", "detached", "no"}]
    /\ fifo \in Seq(Block)
    /\ owed \in SUBSET Handler

Init ==
    /\ MsgQueueFirst = NULL /\ MsgQueueLast = NULL
    /\ pNextMsg = [b \in Block |-> NULL]
    /\ body = [b \in Block |-> NULL]
    /\ used = {}
    /\ QueueBlock = [id \in MsgIds |-> <<>>]
    /\ ie = TRUE /\ critical = FALSE
    /\ stage = "none" /\ req = NULL /\ newMessage = NULL
    /\ pc = "app" /\ budget = 0 /\ msg = NULL
    /\ curHandler = NULL /\ stale = FALSE
    /\ live = CallerCtx /\ alive = [h \in Handler |-> "yes"]
    /\ fifo = <<>> /\ owed = {}

-----------------------------------------------------------------------------
(***************************************************************************)
(* Application code has the processor: a task, UserInit, or a handler that *)
(* Loop is calling. It may call the kernel. The rules a Careful            *)
(* application keeps are not stated by the kernel's interface, and each    *)
(* is one that the kernel's code needs:                                    *)
(*   - no kernel call inside its own interrupts-off section;               *)
(*   - a handler does not unsubscribe itself while it runs;                *)
(*   - a receiver is destroyed only after an UnsubscribeAllIDs.            *)
(***************************************************************************)
AppRuns == stage = "none" /\ pc \in {"app", "handler"}
MayCall == AppRuns /\ (Careful => ~critical)
MayDestroy(r) == Careful => alive[r] = "detached"
Running(id, h) ==
    pc = "handler" /\ body[msg].msgid = id /\ Addr[curHandler] = Addr[h]

(* INTDisableMasterInterrupts and INTEnableMasterInterrupts, called by the application. *)
EnterCritical ==
    /\ MayCall /\ ~critical
    /\ critical' = TRUE /\ ie' = FALSE
    /\ UNCHANGED <<listVars, loopVars, callVars, QueueBlock, live, alive, owed>>

LeaveCritical ==
    /\ AppRuns /\ critical
    /\ critical' = FALSE /\ ie' = TRUE
    /\ UNCHANGED <<listVars, loopVars, callVars, QueueBlock, live, alive, owed>>

(* The receiver's destructor: ~EventReceiver has an empty body.             *)
DestroyReceiver(r) ==
    /\ AppRuns /\ alive[r] # "no"
    /\ alive' = [alive EXCEPT ![r] = "no"]
    /\ UNCHANGED <<listVars, loopVars, callVars, QueueBlock, ie, critical, live, owed>>

-----------------------------------------------------------------------------
(* Post *)

AcceptsPost(m) == m.msgid < MSG_MAX_MSG_IDS /\ m.msgid # MSG_ID_NOMESSAGE

(* A context handed over to the queue is freshly allocated by the poster.   *)
Handed(m) == {m.context} \cap HeapCtx
Fresh(m) == Handed(m) \cap live = {}

(* Mutant: interrupts stay enabled.                                         *)
MutPostUnmasked(m) ==
    /\ MayCall /\ Fresh(m)
    /\ stage' = "masked" /\ req' = m
    /\ live' = live \cup Handed(m)
    /\ UNCHANGED <<listVars, loopVars, newMessage, QueueBlock, ie, critical, alive, owed>>

Post(m) ==
    /\ MayCall /\ Fresh(m)
    /\ ie' = FALSE
    /\ stage' = "masked" /\ req' = m
    /\ live' = live \cup Handed(m)
    /\ UNCHANGED <<listVars, loopVars, newMessage, QueueBlock, critical, alive, owed>>

(* new MESSAGE(...) returns block b, and its constructor fills it.          *)
NewMessage(b, m) ==
    /\ b \notin used
    /\ used' = used \cup {b}
    /\ body' = [body EXCEPT ![b] = m]

(* Mutant: MsgQueueLast->pNextMsg is not set.                               *)
MutPostNoLink ==
    /\ stage = "masked" /\ AcceptsPost(req)
    /\ \E b \in Block :
         /\ NewMessage(b, req) /\ newMessage' = b
         /\ pNextMsg' = [pNextMsg EXCEPT ![b] = NULL]
         /\ stage' = IF MsgQueueFirst = NULL THEN "first" ELSE "last"
         /\ MsgQueueLast' = IF MsgQueueFirst = NULL THEN b ELSE MsgQueueLast
    /\ UNCHANGED <<MsgQueueFirst, fifo, loopVars, req, QueueBlock, ie, critical,
                   live, alive, owed>>

(* Allocation and the first of the two list writes.                         *)
PostLink ==
    /\ stage = "masked" /\ AcceptsPost(req)
    /\ \E b \in Block :
         /\ NewMessage(b, req)
         /\ newMessage' = b
         /\ \/ /\ MsgQueueFirst = NULL
               /\ MsgQueueLast' = b
               /\ pNextMsg' = [pNextMsg EXCEPT ![b] = NULL]
               /\ stage' = "first"
            \/ /\ MsgQueueFirst # NULL
               /\ pNextMsg' = [pNextMsg EXCEPT ![b] = NULL, ![MsgQueueLast] = b]
               /\ stage' = "last"
               /\ UNCHANGED MsgQueueLast
    /\ UNCHANGED <<MsgQueueFirst, fifo, loopVars, req, QueueBlock, ie, critical,
                   live, alive, owed>>

(* rc = -1: a bad id or no memory. Post leaves the context to the poster,   *)
(* who is taken to check the result and delete it.                          *)
PostFail ==
    /\ stage = "masked"
    /\ ~AcceptsPost(req) \/ used = Block
    /\ stage' = "unmask"
    /\ live' = live \ Handed(req)
    /\ UNCHANGED <<listVars, loopVars, req, newMessage, QueueBlock, ie, critical,
                   alive, owed>>

(* The second list write, by which the list has the message at its end.     *)
PostAttach ==
    /\ \/ stage = "first" /\ MsgQueueFirst' = newMessage /\ UNCHANGED MsgQueueLast
       \/ stage = "last" /\ MsgQueueLast' = newMessage /\ UNCHANGED MsgQueueFirst
    /\ fifo' = Append(fifo, newMessage)
    /\ stage' = "unmask" /\ newMessage' = NULL
    /\ UNCHANGED <<pNextMsg, body, used, loopVars, req, QueueBlock, ie, critical,
                   live, alive, owed>>

PostReturn ==
    /\ stage = "unmask"
    /\ ie' = TRUE
    /\ stage' = "none" /\ req' = NULL
    /\ UNCHANGED <<listVars, loopVars, newMessage, QueueBlock, critical, live, alive, owed>>

(* Post with MQ_CONTEXT_INTERRUPT, from an interrupt service routine.       *)
InterruptPost(m) ==
    /\ ie /\ Fresh(m) /\ AcceptsPost(m)
    /\ \E b \in Block :
         /\ NewMessage(b, m)
         /\ \/ /\ MsgQueueFirst = NULL
               /\ MsgQueueFirst' = b
               /\ pNextMsg' = [pNextMsg EXCEPT ![b] = NULL]
            \/ /\ MsgQueueFirst # NULL
               /\ pNextMsg' = [pNextMsg EXCEPT ![b] = NULL, ![MsgQueueLast] = b]
               /\ UNCHANGED MsgQueueFirst
         /\ MsgQueueLast' = b
         /\ fifo' = Append(fifo, b)
    /\ live' = live \cup Handed(m)
    /\ UNCHANGED <<loopVars, callVars, QueueBlock, ie, critical, alive, owed>>

-----------------------------------------------------------------------------
(* Subscribe and Unsubscribe *)

(* checkHandler compares pointer values, of functions and of objects alike. *)
Matches(id, h) == {k \in DOMAIN QueueBlock[id] : Addr[QueueBlock[id][k]] = Addr[h]}

Subscribe(id, h) ==
    /\ MayCall /\ alive[h] # "no"
    /\ id < MSG_MAX_MSG_IDS
    /\ stage' = "sub" /\ req' = [msgid |-> id, handler |-> h, all |-> FALSE]
    /\ alive' = [alive EXCEPT ![h] = "yes"]
    /\ UNCHANGED <<listVars, loopVars, newMessage, QueueBlock, ie, critical, live, owed>>

(* The walk, and a node at the head unless the handler is there already or  *)
(* new returns NULL. Ids below zero index the heap's own memory before      *)
(* QueueBlock: from there on nothing is known, and the model stops.         *)
SubscribeLink ==
    /\ stage = "sub" /\ req.msgid \in MsgIds
    /\ \/ /\ Matches(req.msgid, req.handler) = {}
          /\ QueueBlock' = [QueueBlock EXCEPT ![req.msgid] = <<req.handler>> \o @]
       \/ UNCHANGED QueueBlock
    /\ stage' = "none" /\ req' = NULL
    /\ UNCHANGED <<listVars, loopVars, newMessage, ie, critical, live, alive, owed>>

Unsubscribe(id, h) ==
    /\ MayCall
    /\ id < MSG_MAX_MSG_IDS
    /\ Careful => ~Running(id, h)
    /\ stage' = "unsub" /\ req' = [msgid |-> id, handler |-> h, all |-> FALSE]
    /\ UNCHANGED <<listVars, loopVars, newMessage, QueueBlock, ie, critical, live,
                   alive, owed>>

(* Mutant: the row of the first id is left out.                             *)
MutUnsubscribeFromOne(r) ==
    /\ MayCall /\ alive[r] # "no"
    /\ Careful => \A id \in MsgIds : ~Running(id, r)
    /\ stage' = "unsub" /\ req' = [msgid |-> 1, handler |-> r, all |-> TRUE]
    /\ UNCHANGED <<listVars, loopVars, newMessage, QueueBlock, ie, critical, live,
                   alive, owed>>

(* The Unsubscribe of every id in turn.                                     *)
UnsubscribeAllIDs(r) ==
    /\ MayCall /\ alive[r] # "no"
    /\ Careful => \A id \in MsgIds : ~Running(id, r)
    /\ stage' = "unsub" /\ req' = [msgid |-> 0, handler |-> r, all |-> TRUE]
    /\ UNCHANGED <<listVars, loopVars, newMessage, QueueBlock, ie, critical, live,
                   alive, owed>>

(* Mutant: the head is moved past the node although nodes precede it.       *)
MutUnlinkMovesHead ==
    LET id == req.msgid
        found == Matches(id, req.handler)
        k == CHOOSE j \in found : TRUE
    IN  /\ stage = "unsub" /\ ~req.all /\ found # {}
        /\ QueueBlock' = [QueueBlock EXCEPT ![id] = SubSeq(@, k + 1, Len(@))]
        /\ owed' = IF pc = "handler" /\ body[msg].msgid = id
                   THEN owed \ {req.handler} ELSE owed
        /\ stage' = "none" /\ req' = NULL
        /\ UNCHANGED <<listVars, loopVars, newMessage, ie, critical, live, alive>>

(* The first node that matches is unlinked and deleted.                     *)
UnsubscribeUnlink ==
    LET id == req.msgid
        found == Matches(id, req.handler)
        k == CHOOSE j \in found : \A i \in found : j <= i
        here == pc = "handler" /\ body[msg].msgid = id
    IN  /\ stage = "unsub" /\ id \in MsgIds
        /\ \/ found = {} /\ UNCHANGED <<QueueBlock, owed, stale>>
           \/ /\ found # {}
              /\ QueueBlock' = [QueueBlock EXCEPT ![id] = RemoveAt(@, k)]
              /\ owed' = IF here THEN owed \ {QueueBlock[id][k]} ELSE owed
              /\ stale' = (stale \/ (here /\ QueueBlock[id][k] = curHandler))
        /\ \/ /\ req.all /\ id + 1 \in MsgIds
              /\ req' = [req EXCEPT !.msgid = id + 1]
              /\ UNCHANGED <<stage, alive>>
           \/ /\ ~(req.all /\ id + 1 \in MsgIds)
              /\ stage' = "none" /\ req' = NULL
              /\ alive' = IF req.all THEN [alive EXCEPT ![req.handler] = "detached"]
                          ELSE alive
        /\ UNCHANGED <<listVars, pc, budget, msg, curHandler, newMessage, ie, critical,
                       live>>

-----------------------------------------------------------------------------
(* Loop *)

LoopCall ==
    /\ pc = "app" /\ MayCall
    /\ pc' = "poll" /\ budget' = MaxMessages
    /\ UNCHANGED <<listVars, msg, curHandler, stale, callVars, QueueBlock, ie, critical,
                   live, alive, owed>>

LoopReturn ==
    /\ pc = "poll" /\ budget = 0
    /\ pc' = "app"
    /\ UNCHANGED <<listVars, budget, msg, curHandler, stale, callVars, QueueBlock, ie,
                   critical, live, alive, owed>>

LoopMask ==
    /\ pc = "poll" /\ budget > 0
    /\ ie' = FALSE /\ pc' = "pop"
    /\ UNCHANGED <<listVars, budget, msg, curHandler, stale, callVars, QueueBlock,
                   critical, live, alive, owed>>

PopFirst ==
    /\ pc = "pop"
    /\ msg' = MsgQueueFirst
    /\ \/ MsgQueueFirst = NULL /\ UNCHANGED <<MsgQueueFirst, fifo>>
       \/ /\ MsgQueueFirst # NULL
          /\ MsgQueueFirst' = pNextMsg[MsgQueueFirst]
          /\ fifo' = Tail(fifo)
    /\ pc' = "fix"
    /\ UNCHANGED <<MsgQueueLast, pNextMsg, body, used, budget, curHandler, stale,
                   callVars, QueueBlock, ie, critical, live, alive, owed>>

PopLast ==
    /\ pc = "fix"
    /\ MsgQueueLast' = IF msg # NULL /\ MsgQueueFirst = NULL THEN NULL ELSE MsgQueueLast
    /\ pc' = "unmask"
    /\ UNCHANGED <<MsgQueueFirst, pNextMsg, body, used, fifo, budget, msg, curHandler,
                   stale, callVars, QueueBlock, ie, critical, live, alive, owed>>

(* Mutant: an iteration without a message is not counted.                   *)
MutEmptyNotCounted ==
    /\ pc = "unmask"
    /\ ie' = TRUE
    /\ pc' = IF msg = NULL THEN "poll" ELSE "dispatch"
    /\ UNCHANGED <<listVars, budget, msg, curHandler, stale, callVars, QueueBlock,
                   critical, live, alive, owed>>

LoopUnmask ==
    /\ pc = "unmask"
    /\ ie' = TRUE
    /\ \/ msg = NULL /\ pc' = "poll" /\ budget' = budget - 1
       \/ msg # NULL /\ pc' = "dispatch" /\ UNCHANGED budget
    /\ UNCHANGED <<listVars, msg, curHandler, stale, callVars, QueueBlock, critical, live,
                   alive, owed>>

(* As with SubscribeLink, the model stops at an id below zero.              *)
Dispatch ==
    LET list == QueueBlock[body[msg].msgid]
    IN  /\ pc = "dispatch" /\ body[msg].msgid \in MsgIds
        /\ curHandler' = IF list = <<>> THEN NULL ELSE Head(list)
        /\ owed' = ToSet(list)
        /\ pc' = "handlers"
        /\ UNCHANGED <<listVars, budget, msg, stale, callVars, QueueBlock, ie, critical,
                       live, alive>>

Call ==
    /\ pc = "handlers" /\ curHandler # NULL
    /\ pc' = "handler"
    /\ owed' = owed \ {curHandler}
    /\ UNCHANGED <<listVars, budget, msg, curHandler, stale, callVars, QueueBlock, ie,
                   critical, live, alive>>

(* The handler after h in a list.                                           *)
After(list, h) ==
    {list[k + 1] : k \in {j \in 1..(Len(list) - 1) : list[j] = h}}

(* pNextHandler is read once the handler has returned; from a node that has *)
(* been deleted meanwhile, what is read is whatever the memory holds.       *)
HandlerReturn ==
    /\ pc = "handler" /\ MayCall
    /\ \/ stale /\ curHandler' \in Handler \cup {NULL}
       \/ /\ ~stale
          /\ LET next == After(QueueBlock[body[msg].msgid], curHandler)
             IN  IF next = {} THEN curHandler' = NULL ELSE curHandler' \in next
    /\ stale' = FALSE /\ pc' = "handlers"
    /\ UNCHANGED <<listVars, budget, msg, callVars, QueueBlock, ie, critical, live, alive,
                   owed>>

(* Mutant: the context is deleted whoever owns it.                          *)
MutDeleteAnyContext ==
    /\ pc = "handlers" /\ curHandler = NULL
    /\ live' = live \ {body[msg].context}
    /\ pc' = "free"
    /\ UNCHANGED <<listVars, budget, msg, curHandler, stale, callVars, QueueBlock, ie,
                   critical, alive, owed>>

(* All handlers called: delete msg->context, if it is the queue's, ...      *)
DeleteContext ==
    /\ pc = "handlers" /\ curHandler = NULL
    /\ live' = IF body[msg].CallerOwns # "MQ_OWNER_CALLER"
               THEN live \ {body[msg].context} ELSE live
    /\ pc' = "free"
    /\ UNCHANGED <<listVars, budget, msg, curHandler, stale, callVars, QueueBlock, ie,
                   critical, alive, owed>>

(* Mutant: the message itself is not deleted.                               *)
MutMessageLeaks ==
    /\ pc = "free"
    /\ msg' = NULL /\ pc' = "poll" /\ budget' = budget - 1
    /\ UNCHANGED <<listVars, curHandler, stale, callVars, QueueBlock, ie, critical,
                   live, alive, owed>>

(* ... and delete msg, which is in progress while pc is "free".             *)
DeleteMessage ==
    /\ pc = "free"
    /\ used' = used \ {msg} /\ msg' = NULL
    /\ body' = [body EXCEPT ![msg] = NULL]
    /\ pc' = "poll" /\ budget' = budget - 1
    /\ UNCHANGED <<MsgQueueFirst, MsgQueueLast, pNextMsg, fifo, curHandler, stale,
                   callVars, QueueBlock, ie, critical, live, alive, owed>>

-----------------------------------------------------------------------------
Application ==
    \/ EnterCritical
    \/ LeaveCritical
    \/ \E r \in Receiver : (MayDestroy(r) /\ DestroyReceiver(r)) \/ UnsubscribeAllIDs(r)
    \/ \E m \in Message : Post(m)
    \/ \E id \in SubIds, h \in Handler : Subscribe(id, h) \/ Unsubscribe(id, h)
    \/ LoopCall
    \/ HandlerReturn

(* What the task thread does inside the kernel; it never has a choice.      *)
Kernel ==
    \/ PostLink \/ PostFail \/ PostAttach \/ PostReturn
    \/ SubscribeLink \/ UnsubscribeUnlink
    \/ LoopReturn \/ LoopMask \/ PopFirst \/ PopLast \/ LoopUnmask
    \/ Dispatch \/ Call \/ DeleteContext \/ DeleteMessage

Interrupt == \E m \in Message : InterruptPost(m)

Next == Application \/ Kernel \/ Interrupt

Spec == Init /\ [][Next]_vars

(***************************************************************************)
(* The processor keeps executing the task thread; handlers and tasks       *)
(* return to the kernel after finitely many kernel calls (cooperative      *)
(* scheduling: a task that does not return stops everything), and leave    *)
(* their interrupts-off sections. Nothing is assumed of interrupts.        *)
(***************************************************************************)
FairSpec ==
    /\ Spec
    /\ WF_vars(Kernel) /\ WF_vars(LeaveCritical)
    /\ SF_vars(LoopCall) /\ SF_vars(HandlerReturn)

-----------------------------------------------------------------------------
(***************************************************************************)
(* Whenever an interrupt can look at the list, the pointers and links are  *)
(* exactly the messages posted and not yet taken, in order: no message is  *)
(* lost, repeated or overtaken, and both ends are NULL when there is none. *)
(***************************************************************************)
Linked ==
    /\ MsgQueueFirst = IF fifo = <<>> THEN NULL ELSE fifo[1]
    /\ MsgQueueLast = IF fifo = <<>> THEN NULL ELSE fifo[Len(fifo)]
    /\ \A k \in DOMAIN fifo :
         pNextMsg[fifo[k]] = IF k = Len(fifo) THEN NULL ELSE fifo[k + 1]

ListIsFifo == ie => Linked

(***************************************************************************)
(* Every message block in use is queued, taken by Loop, or being posted:   *)
(* none leaks, and none that is reachable has been returned to the heap.   *)
(***************************************************************************)
BlocksAccounted == used = ToSet(fifo) \cup ({msg, newMessage} \ {NULL})

(***************************************************************************)
(* ListIsFifo and BlocksAccounted made inductive: where the two threads of *)
(* control can be (ControlInv), which blocks are whose (OwnInv), and what  *)
(* the pointers are in the middle of a Post or of a pop (ShapeInv).        *)
(***************************************************************************)
ListType ==
    /\ MsgQueueFirst \in Block \cup {NULL} /\ MsgQueueLast \in Block \cup {NULL}
    /\ pNextMsg \in [Block -> Block \cup {NULL}]
    /\ used \in SUBSET Block
    /\ newMessage \in Block \cup {NULL} /\ msg \in Block \cup {NULL}
    /\ fifo \in Seq(Block)

ControlInv ==
    /\ stage # "none" => pc \in {"app", "handler"}
    /\ stage \in {"masked", "first", "last", "unmask"} => ~ie
    /\ pc \in {"pop", "fix", "unmask"} => ~ie
    /\ stage \in {"first", "last"} <=> newMessage # NULL
    /\ pc \in {"app", "poll", "pop"} => msg = NULL
    /\ pc \in {"dispatch", "handlers", "handler", "free"} => msg # NULL

OwnInv ==
    /\ \A j, k \in 1..Len(fifo) : fifo[j] = fifo[k] => j = k
    /\ \A k \in 1..Len(fifo) : fifo[k] # msg /\ fifo[k] # newMessage
    /\ newMessage # NULL => newMessage # msg
    /\ BlocksAccounted

ShapeInv ==
    /\ MsgQueueFirst = IF fifo = <<>> THEN NULL ELSE fifo[1]
    /\ stage = "first" => fifo = <<>> /\ MsgQueueLast = newMessage
    /\ stage = "last" => fifo # <<>>
    /\ fifo # <<>> => MsgQueueLast = fifo[Len(fifo)]
    /\ fifo = <<>> /\ stage # "first" /\ ~(pc = "fix" /\ msg # NULL)
         => MsgQueueLast = NULL
    /\ \A k \in 1..(Len(fifo) - 1) : pNextMsg[fifo[k]] = fifo[k + 1]
    /\ fifo # <<>> => pNextMsg[fifo[Len(fifo)]] = newMessage
    /\ newMessage # NULL => pNextMsg[newMessage] = NULL

ListInv == ListType /\ ControlInv /\ OwnInv /\ ShapeInv

(* The messages that still need their contexts.                             *)
Held == ToSet(fifo) \cup ({newMessage} \ {NULL})
          \cup (IF pc = "free" THEN {} ELSE {msg} \ {NULL})

(***************************************************************************)
(* Contexts: one handed over with MQ_OWNER_MQ lives exactly until its      *)
(* handlers have run, so every handler gets a live context and none leaks; *)
(* the queue never deletes one that is its poster's.                       *)
(***************************************************************************)
ContextOwnership ==
    live = CallerCtx \cup (UNION {Handed(body[b]) : b \in Held})
             \cup (IF stage = "masked" THEN Handed(req) ELSE {})

(* ContextOwnership made inductive: what the blocks and the arguments hold, *)
(* and that no two messages share a context of the queue's.                 *)
Disjoint(m, n) == Handed(m) \cap Handed(n) = {}

ContentInv ==
    /\ \A b \in used : body[b] \in Message
    /\ stage \in {"masked", "first", "last", "unmask"} => req \in Message
    /\ stage \in {"sub", "unsub"} => req \in Registration
    /\ pc \in {"handlers", "handler"} => body[msg].msgid \in MsgIds

SharingInv ==
    /\ \A b, c \in Held : b # c => Disjoint(body[b], body[c])
    /\ stage = "masked" => \A b \in Held : Disjoint(body[b], req)

ContextInv == ContentInv /\ SharingInv /\ ContextOwnership

(***************************************************************************)
(* A message reaches every handler that stays subscribed while it is       *)
(* dispatched, and none twice, although handlers subscribe and unsubscribe *)
(* others (and post) while Loop is in the middle of the list.              *)
(***************************************************************************)
DispatchExact ==
    /\ pc = "handlers" /\ curHandler # NULL => curHandler \in owed
    /\ pc = "free" => owed = {}

(* A row of QueueBlock has at most one node for an address.                 *)
RowInv ==
    \A id \in MsgIds : \A j, k \in DOMAIN QueueBlock[id] :
      Addr[QueueBlock[id][j]] = Addr[QueueBlock[id][k]] => j = k

(* The inductive invariant of the queue: its pointers half way through a    *)
(* Post or a pop, its rows, and whose each context is.                      *)
MessageInv == ListInv /\ TypeOK /\ RowInv /\ ContextInv

(***************************************************************************)
(* DispatchExact and DetachedNotCalled made inductive, for a Careful       *)
(* application: which handlers are in the rows during the calls of others  *)
(* (CallInv), and what is still owed are the nodes from Loop's cursor on   *)
(* (CursorInv).                                                            *)
(***************************************************************************)
CallInv ==
    /\ \A id \in MsgIds : \A k \in DOMAIN QueueBlock[id] :
         alive[QueueBlock[id][k]] # "detached"
    /\ stage = "sub" => alive[req.handler] = "yes"
    /\ stage = "unsub" /\ req.all =>
         \A id \in MsgIds : id < req.msgid => Matches(id, req.handler) = {}
    /\ stage = "unsub" /\ pc = "handler" /\ (req.all \/ req.msgid = body[msg].msgid) =>
         Addr[curHandler] # Addr[req.handler]

Row == QueueBlock[body[msg].msgid]
Cursor(k, rest) == Row[k] = curHandler /\ owed = {Row[j] : j \in rest}

CursorInv ==
    /\ ~stale
    /\ pc = "handlers" /\ curHandler # NULL => \E k \in 1..Len(Row) : Cursor(k, k..Len(Row))
    /\ pc = "handler" => \E k \in 1..Len(Row) : Cursor(k, (k + 1)..Len(Row))
    /\ (pc = "handlers" /\ curHandler = NULL) \/ pc = "free" => owed = {}

(* Loop's cursor stays good through what handlers do to the list it walks.  *)
DispatchInv == CallInv /\ CursorInv

(* The linked list implements the abstract first-in first-out bus.          *)
Bus == INSTANCE MessageBus WITH
    Message <- Message,
    NoMessage <- NULL,
    queue <- [k \in DOMAIN fifo |-> body[fifo[k]]],
    current <- IF msg = NULL THEN NULL ELSE body[msg]

ImplementsBus == Bus!Spec

(* Every message that has a block is dispatched and its block freed.        *)
EveryMessageHandled == \A b \in Block : b \in used ~> b \notin used

(* Loop "processes up to MaxMessages and returns", whatever interrupts post. *)
LoopReturns == pc = "poll" ~> pc = "app"

(***************************************************************************)
(* Once UnsubscribeAllIDs has returned, Loop does not call the receiver    *)
(* any more until it subscribes again, although it was a handler that      *)
(* detached it while Loop is in the middle of the list it was in.          *)
(***************************************************************************)
DetachedNotCalled ==
    pc = "handlers" /\ curHandler # NULL => alive[curHandler] # "detached"

-----------------------------------------------------------------------------
(* Properties that state what the repository says and the code does not do. *)

(* Unsubscribe may be called in task context, hence by a handler: Loop      *)
(* never follows the link of a handler node that has been deleted.          *)
CursorNotDeleted == pc = "handler" /\ stage = "none" => ~stale

(* The destructor unsubscribes "so we don't send events off into wonderland *)
(* when a handler is deleted": Loop calls no receiver that is gone.         *)
CallsOnlyLiveHandlers ==
    pc = "handlers" /\ curHandler # NULL => alive[curHandler] # "no"

=============================================================================
