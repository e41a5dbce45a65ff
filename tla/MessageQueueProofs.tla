------------------------- MODULE MessageQueueProofs -------------------------
(***************************************************************************)
(* TLAPS proofs about the message list, for every number of blocks, ids,   *)
(* handlers and contexts, for every argument of Loop, and for applications *)
(* that keep to the rules of Careful as well as for those that do not.     *)
(***************************************************************************)
EXTENDS MessageQueue, SequenceTheorems, TLAPS

(* What Append does to a list of blocks.                                    *)
LEMMA AppendFacts ==
    ASSUME NEW S, NEW s \in Seq(S), NEW e \in S
    PROVE  /\ Append(s, e) \in Seq(S)
           /\ Len(Append(s, e)) = Len(s) + 1
           /\ \A k \in 1..Len(s) : Append(s, e)[k] = s[k]
           /\ Append(s, e)[Len(s) + 1] = e
           /\ Append(s, e) # <<>>
  OBVIOUS

(* What Tail does to a list of blocks.                                      *)
LEMMA TailFacts ==
    ASSUME NEW S, NEW s \in Seq(S), s # <<>>
    PROVE  /\ Tail(s) \in Seq(S)
           /\ Len(s) \in Nat \ {0}
           /\ Len(Tail(s)) = Len(s) - 1
           /\ \A k \in 1..(Len(s) - 1) : Tail(s)[k] = s[k + 1]
  OBVIOUS

(* A list is empty exactly when its length is zero.                         *)
LEMMA EmptyFacts ==
    ASSUME NEW S, NEW s \in Seq(S)
    PROVE  Len(s) \in Nat /\ (s = <<>> <=> Len(s) = 0)
  OBVIOUS

(* The set of the elements of a list.                                       *)
LEMMA ToSetFacts ==
    ASSUME NEW S, NEW s \in Seq(S)
    PROVE  /\ \A x : x \in ToSet(s) <=> \E k \in 1..Len(s) : s[k] = x
           /\ \A k \in 1..Len(s) : s[k] \in S /\ s[k] \in ToSet(s)
  BY DEF ToSet

(* The blocks on the list, taken or being posted are allocated blocks.      *)
LEMMA InUse ==
    ASSUME ListInv
    PROVE  /\ NULL \notin Block
           /\ Len(fifo) \in Nat
           /\ \A k \in 1..Len(fifo) : fifo[k] \in Block /\ fifo[k] \in used
           /\ msg # NULL => msg \in used
           /\ newMessage # NULL => newMessage \in used
           /\ fifo = <<>> <=> Len(fifo) = 0
           /\ MsgQueueFirst = NULL <=> fifo = <<>>
           /\ \A x : x \in used <=> \/ \E k \in 1..Len(fifo) : fifo[k] = x
                                    \/ x = msg /\ x # NULL
                                    \/ x = newMessage /\ x # NULL
  <1>1. NULL \notin Block
    BY NullAssumption
  <1>2. fifo \in Seq(Block)
    BY DEF ListInv, ListType
  <1>3. Len(fifo) \in Nat /\ (fifo = <<>> <=> Len(fifo) = 0)
    BY <1>2, EmptyFacts
  <1>4. \A x : x \in used <=> \/ \E k \in 1..Len(fifo) : fifo[k] = x
                              \/ x = msg /\ x # NULL
                              \/ x = newMessage /\ x # NULL
    BY <1>2, ToSetFacts DEF ListInv, OwnInv, BlocksAccounted
  <1>5. \A k \in 1..Len(fifo) : fifo[k] \in Block
    BY <1>2, ToSetFacts
  <1>6. MsgQueueFirst = NULL <=> fifo = <<>>
    BY <1>1, <1>3, <1>5 DEF ListInv, ShapeInv
  <1> QED BY <1>1, <1>3, <1>4, <1>5, <1>6

-----------------------------------------------------------------------------
(* The empty queue satisfies the inductive invariant.                       *)
LEMMA InitListInv == Init => ListInv
  <1> SUFFICES ASSUME Init PROVE ListInv
    OBVIOUS
  <1>1. fifo \in Seq(Block) /\ fifo = <<>> /\ Len(fifo) = 0
    BY DEF Init
  <1>2. ListType
    BY <1>1 DEF Init, ListType
  <1>3. ControlInv
    BY DEF Init, ControlInv
  <1>4. OwnInv
    BY <1>1 DEF Init, OwnInv, BlocksAccounted, ToSet
  <1>5. ShapeInv
    BY <1>1 DEF Init, ShapeInv
  <1> QED BY <1>2, <1>3, <1>4, <1>5 DEF ListInv

(* A step leaves the list as it is when it writes none of the list's        *)
(* variables and neither begins nor ends the second half of a Post or a pop. *)
QuietStep ==
    /\ UNCHANGED <<listVars, newMessage, msg>>
    /\ stage' = "first" <=> stage = "first"
    /\ stage' = "last" <=> stage = "last"
    /\ pc = "fix" => pc' = "fix"

(* A quiet step that keeps to the control structure keeps the invariant.    *)
LEMMA QuietListInv == ASSUME ListInv, QuietStep, ControlInv' PROVE ListInv'
  <1>1. ListType'
    BY DEF ListInv, ListType, QuietStep, listVars
  <1>2. OwnInv'
    BY DEF ListInv, OwnInv, BlocksAccounted, QuietStep, listVars
  <1>3. ShapeInv'
    BY DEF ListInv, ShapeInv, QuietStep, listVars
  <1> QED BY <1>1, <1>2, <1>3 DEF ListInv

(* Application calls write no list variable; Post masks interrupts.         *)
LEMMA AppListInv == ASSUME ListInv, Application PROVE ListInv'
  <1> USE DEF ListInv, ControlInv, QuietStep, callVars, loopVars, AppRuns, MayCall
  <1>1. CASE EnterCritical
    BY <1>1, QuietListInv DEF EnterCritical
  <1>2. CASE LeaveCritical
    BY <1>2, QuietListInv DEF LeaveCritical
  <1>3. ASSUME NEW r \in Receiver, DestroyReceiver(r) \/ UnsubscribeAllIDs(r)
        PROVE  ListInv'
    BY <1>3, QuietListInv DEF DestroyReceiver, UnsubscribeAllIDs
  <1>4. ASSUME NEW m \in Message, Post(m)
        PROVE  ListInv'
    BY <1>4, QuietListInv DEF Post
  <1>5. ASSUME NEW id \in SubIds, NEW h \in Handler, Subscribe(id, h) \/ Unsubscribe(id, h)
        PROVE  ListInv'
    BY <1>5, QuietListInv DEF Subscribe, Unsubscribe
  <1>6. CASE LoopCall
    BY <1>6, QuietListInv DEF LoopCall
  <1>7. CASE HandlerReturn
    BY <1>7, QuietListInv DEF HandlerReturn
  <1> QED BY <1>1, <1>2, <1>3, <1>4, <1>5, <1>6, <1>7 DEF Application

(* Kernel steps that write no list variable: interrupts are enabled again   *)
(* only where no Post and no pop is half done.                              *)
LEMMA KernelQuietListInv ==
    ASSUME ListInv,
           \/ PostFail \/ PostReturn \/ SubscribeLink \/ UnsubscribeUnlink
           \/ LoopReturn \/ LoopMask \/ LoopUnmask \/ Dispatch \/ Call \/ DeleteContext
    PROVE  ListInv'
  <1> USE DEF ListInv, ControlInv, QuietStep, callVars, loopVars
  <1>1. CASE PostFail
    BY <1>1, QuietListInv DEF PostFail
  <1>2. CASE PostReturn
    BY <1>2, QuietListInv DEF PostReturn
  <1>3. CASE SubscribeLink
    BY <1>3, QuietListInv DEF SubscribeLink
  <1>4. CASE UnsubscribeUnlink
    BY <1>4, QuietListInv DEF UnsubscribeUnlink
  <1>5. CASE LoopReturn
    BY <1>5, QuietListInv DEF LoopReturn
  <1>6. CASE LoopMask
    BY <1>6, QuietListInv DEF LoopMask
  <1>7. CASE LoopUnmask
    BY <1>7, QuietListInv DEF LoopUnmask
  <1>8. CASE Dispatch
    BY <1>8, QuietListInv DEF Dispatch
  <1>9. CASE Call
    BY <1>9, QuietListInv DEF Call
  <1>10. CASE DeleteContext
    BY <1>10, QuietListInv DEF DeleteContext
  <1> QED BY <1>1, <1>2, <1>3, <1>4, <1>5, <1>6, <1>7, <1>8, <1>9, <1>10

-----------------------------------------------------------------------------
(* The first list write of Post: a block that nothing refers to becomes the *)
(* last one's successor, and interrupts stay masked.                        *)
LEMMA PostLinkListInv == ASSUME ListInv, PostLink PROVE ListInv'
  <1>1. stage = "masked" /\ newMessage = NULL /\ ~ie /\ pc \in {"app", "handler"}
    BY DEF ListInv, ControlInv, PostLink
  <1>2. PICK b \in Block :
          /\ NewMessage(b, req)
          /\ newMessage' = b
          /\ \/ /\ MsgQueueFirst = NULL
                /\ MsgQueueLast' = b
                /\ pNextMsg' = [pNextMsg EXCEPT ![b] = NULL]
                /\ stage' = "first"
             \/ /\ MsgQueueFirst # NULL
                /\ pNextMsg' = [pNextMsg EXCEPT ![b] = NULL, ![MsgQueueLast] = b]
                /\ stage' = "last"
                /\ UNCHANGED MsgQueueLast
    BY DEF PostLink
  <1>3. /\ MsgQueueFirst' = MsgQueueFirst /\ fifo' = fifo /\ msg' = msg /\ pc' = pc
        /\ ie' = ie
    BY DEF PostLink, loopVars
  <1>4. b \notin used /\ used' = used \cup {b}
    BY <1>2 DEF NewMessage
  <1>5. b # NULL /\ b # msg /\ \A k \in 1..Len(fifo) : fifo[k] # b
    BY <1>4, InUse
  <1>6. ListType'
    BY <1>2, <1>3, <1>4 DEF ListInv, ListType
  <1>7. ControlInv'
    BY <1>1, <1>2, <1>3, <1>5 DEF ListInv, ControlInv
  <1>8. OwnInv'
    <2>1. \A x : x \in used' <=> \/ \E k \in 1..Len(fifo') : fifo'[k] = x
                                 \/ x = msg' /\ x # NULL
                                 \/ x = newMessage' /\ x # NULL
      BY <1>1, <1>2, <1>3, <1>4, <1>5, InUse
    <2>2. BlocksAccounted'
      BY <1>6, <2>1, ToSetFacts DEF BlocksAccounted, ListType
    <2> QED BY <1>2, <1>3, <1>5, <2>2 DEF ListInv, OwnInv
  <1>9. ShapeInv'
    <2>1. CASE MsgQueueFirst = NULL
      <3>1. fifo = <<>> /\ Len(fifo) = 0
        BY <2>1, InUse
      <3>2. stage' = "first" /\ MsgQueueLast' = b /\ pNextMsg'[b] = NULL
        BY <1>2, <2>1 DEF ListInv, ListType
      <3> QED BY <1>2, <1>3, <2>1, <3>1, <3>2 DEF ShapeInv
    <2>2. CASE MsgQueueFirst # NULL
      <3>1. fifo # <<>> /\ Len(fifo) \in Nat \ {0}
        BY <2>2, InUse
      <3>2. MsgQueueLast = fifo[Len(fifo)] /\ MsgQueueLast \in Block /\ MsgQueueLast # b
        BY <1>5, <3>1, InUse DEF ListInv, ShapeInv
      <3>3. /\ stage' = "last" /\ MsgQueueLast' = MsgQueueLast
            /\ pNextMsg' = [pNextMsg EXCEPT ![b] = NULL, ![MsgQueueLast] = b]
        BY <1>2, <2>2
      <3>4. pNextMsg'[b] = NULL /\ pNextMsg'[MsgQueueLast] = b
        BY <3>2, <3>3 DEF ListInv, ListType
      <3>5. ASSUME NEW k \in 1..(Len(fifo) - 1)
            PROVE  pNextMsg'[fifo[k]] = fifo[k + 1]
        <4>1. k \in 1..Len(fifo) /\ k # Len(fifo) /\ Len(fifo) \in 1..Len(fifo)
          BY <3>1
        <4>2. fifo[k] \in Block /\ fifo[k] # b /\ fifo[k] # MsgQueueLast
          BY <1>5, <3>2, <4>1, InUse DEF ListInv, OwnInv
        <4>3. pNextMsg'[fifo[k]] = pNextMsg[fifo[k]]
          BY <3>3, <4>2 DEF ListInv, ListType
        <4> QED BY <4>3 DEF ListInv, ShapeInv
      <3>6. MsgQueueFirst' = fifo[1]
        BY <1>3, <3>1 DEF ListInv, ShapeInv
      <3> QED BY <1>2, <1>3, <3>1, <3>2, <3>3, <3>4, <3>5, <3>6 DEF ShapeInv
    <2> QED BY <2>1, <2>2
  <1> QED BY <1>6, <1>7, <1>8, <1>9 DEF ListInv

(* The second list write of Post makes the new block the last one.          *)
LEMMA PostAttachListInv == ASSUME ListInv, PostAttach PROVE ListInv'
  <1>1. /\ stage \in {"first", "last"} /\ newMessage # NULL /\ newMessage \in Block
        /\ ~ie /\ pc \in {"app", "handler"}
    BY DEF ListInv, ListType, ControlInv, PostAttach
  <1>2. /\ fifo' = Append(fifo, newMessage) /\ stage' = "unmask" /\ newMessage' = NULL
        /\ pNextMsg' = pNextMsg /\ used' = used /\ msg' = msg /\ pc' = pc /\ ie' = ie
    BY DEF PostAttach, loopVars
  <1>3. /\ fifo' \in Seq(Block) /\ Len(fifo') = Len(fifo) + 1 /\ Len(fifo) \in Nat
        /\ \A k \in 1..Len(fifo) : fifo'[k] = fifo[k]
        /\ fifo'[Len(fifo) + 1] = newMessage
        /\ fifo' # <<>>
    BY <1>1, <1>2, AppendFacts, InUse DEF ListInv, ListType
  <1>4. \A k \in 1..Len(fifo') : k \in 1..Len(fifo) \/ k = Len(fifo) + 1
    BY <1>3
  <1>5. MsgQueueLast' = newMessage /\ MsgQueueFirst' = fifo'[1]
    <2>1. CASE stage = "first"
      <3>1. MsgQueueFirst' = newMessage /\ MsgQueueLast' = MsgQueueLast
        BY <2>1 DEF PostAttach
      <3>2. MsgQueueLast = newMessage /\ Len(fifo) = 0
        BY <2>1, InUse DEF ListInv, ShapeInv
      <3> QED BY <1>3, <3>1, <3>2
    <2>2. CASE stage = "last"
      <3>1. MsgQueueLast' = newMessage /\ MsgQueueFirst' = MsgQueueFirst
        BY <2>2 DEF PostAttach
      <3>2. fifo # <<>> /\ MsgQueueFirst = fifo[1]
        BY <2>2 DEF ListInv, ShapeInv
      <3>3. 1 \in 1..Len(fifo)
        BY <3>2, InUse
      <3> QED BY <1>3, <3>1, <3>2, <3>3
    <2> QED BY <1>1, <2>1, <2>2
  <1>6. ListType'
    <2>1. MsgQueueFirst' \in Block /\ MsgQueueLast' \in Block
      BY <1>1, <1>3, <1>5, ToSetFacts
    <2> QED BY <1>2, <1>3, <2>1 DEF ListInv, ListType
  <1>7. ControlInv'
    BY <1>1, <1>2 DEF ListInv, ControlInv
  <1>8. OwnInv'
    <2>1. \A x : x \in used' <=> \/ \E k \in 1..Len(fifo') : fifo'[k] = x
                                 \/ x = msg' /\ x # NULL
                                 \/ x = newMessage' /\ x # NULL
      <3>1. \A x : (\E k \in 1..Len(fifo') : fifo'[k] = x)
                     <=> (\E k \in 1..Len(fifo) : fifo[k] = x) \/ x = newMessage
        BY <1>3, <1>4
      <3> QED BY <1>1, <1>2, <3>1, InUse
    <2>2. BlocksAccounted'
      BY <1>6, <2>1, ToSetFacts DEF BlocksAccounted, ListType
    <2>3. newMessage # msg /\ \A k \in 1..Len(fifo) : fifo[k] # newMessage /\ fifo[k] # msg
      BY <1>1 DEF ListInv, OwnInv
    <2>4. \A j, k \in 1..Len(fifo') : fifo'[j] = fifo'[k] => j = k
      BY <1>3, <1>4, <2>3 DEF ListInv, OwnInv
    <2>5. \A k \in 1..Len(fifo') : fifo'[k] # msg' /\ fifo'[k] # newMessage'
      <3>1. \A k \in 1..Len(fifo) : fifo[k] # NULL
        BY InUse
      <3> QED BY <1>1, <1>2, <1>3, <1>4, <2>3, <3>1
    <2> QED BY <1>2, <2>2, <2>4, <2>5 DEF OwnInv
  <1>9. ShapeInv'
    <2>1. pNextMsg[newMessage] = NULL
      BY <1>1 DEF ListInv, ShapeInv
    <2>2. ASSUME NEW k \in 1..(Len(fifo') - 1)
          PROVE  pNextMsg'[fifo'[k]] = fifo'[k + 1]
      <3>1. k \in 1..Len(fifo) /\ fifo # <<>>
        BY <1>3, InUse
      <3>2. CASE k = Len(fifo)
        BY <1>2, <1>3, <3>1, <3>2 DEF ListInv, ShapeInv
      <3>3. CASE k # Len(fifo)
        <4>1. k \in 1..(Len(fifo) - 1) /\ k + 1 \in 1..Len(fifo)
          BY <1>3, <3>1, <3>3
        <4> QED BY <1>2, <1>3, <3>1, <4>1 DEF ListInv, ShapeInv
      <3> QED BY <3>2, <3>3
    <2> QED BY <1>2, <1>3, <1>5, <2>1, <2>2 DEF ShapeInv
  <1> QED BY <1>6, <1>7, <1>8, <1>9 DEF ListInv

(* An interrupt finds the list whole, and appends to it in one step.        *)
LEMMA InterruptListInv ==
    ASSUME ListInv, NEW m \in Message, InterruptPost(m)
    PROVE  ListInv'
  <1>1. PICK b \in Block :
          /\ NewMessage(b, m)
          /\ \/ /\ MsgQueueFirst = NULL
                /\ MsgQueueFirst' = b
                /\ pNextMsg' = [pNextMsg EXCEPT ![b] = NULL]
             \/ /\ MsgQueueFirst # NULL
                /\ pNextMsg' = [pNextMsg EXCEPT ![b] = NULL, ![MsgQueueLast] = b]
                /\ UNCHANGED MsgQueueFirst
          /\ MsgQueueLast' = b
          /\ fifo' = Append(fifo, b)
    BY DEF InterruptPost
  <1>2. /\ stage' = stage /\ newMessage' = newMessage /\ msg' = msg /\ pc' = pc
        /\ ie' = ie
    BY DEF InterruptPost, loopVars, callVars
  <1>3. newMessage = NULL /\ stage \notin {"first", "last"} /\ pc # "fix"
    BY DEF ListInv, ControlInv, InterruptPost
  <1>4. b \notin used /\ used' = used \cup {b}
    BY <1>1 DEF NewMessage
  <1>5. b # NULL /\ b # msg /\ \A k \in 1..Len(fifo) : fifo[k] # b
    BY <1>4, InUse
  <1>6. /\ fifo' \in Seq(Block) /\ Len(fifo') = Len(fifo) + 1 /\ Len(fifo) \in Nat
        /\ \A k \in 1..Len(fifo) : fifo'[k] = fifo[k]
        /\ fifo'[Len(fifo) + 1] = b
        /\ fifo' # <<>>
    BY <1>1, AppendFacts, InUse DEF ListInv, ListType
  <1>7. \A k \in 1..Len(fifo') : k \in 1..Len(fifo) \/ k = Len(fifo) + 1
    BY <1>6
  <1>8. ListType'
    BY <1>1, <1>2, <1>4, <1>6 DEF ListInv, ListType
  <1>9. ControlInv'
    BY <1>2 DEF ListInv, ControlInv
  <1>10. OwnInv'
    <2>1. \A x : x \in used' <=> \/ \E k \in 1..Len(fifo') : fifo'[k] = x
                                 \/ x = msg' /\ x # NULL
                                 \/ x = newMessage' /\ x # NULL
      <3>1. \A x : (\E k \in 1..Len(fifo') : fifo'[k] = x)
                     <=> (\E k \in 1..Len(fifo) : fifo[k] = x) \/ x = b
        BY <1>6, <1>7
      <3> QED BY <1>2, <1>4, <3>1, InUse
    <2>2. BlocksAccounted'
      BY <1>8, <2>1, ToSetFacts DEF BlocksAccounted, ListType
    <2>3. \A j, k \in 1..Len(fifo') : fifo'[j] = fifo'[k] => j = k
      BY <1>5, <1>6, <1>7 DEF ListInv, OwnInv
    <2>4. \A k \in 1..Len(fifo') : fifo'[k] # msg' /\ fifo'[k] # newMessage'
      <3>1. \A k \in 1..Len(fifo) : fifo[k] # msg /\ fifo[k] # newMessage
        BY DEF ListInv, OwnInv
      <3> QED BY <1>2, <1>3, <1>5, <1>6, <1>7, <3>1
    <2> QED BY <1>2, <1>3, <2>2, <2>3, <2>4 DEF OwnInv
  <1>11. ShapeInv'
    <2>1. pNextMsg'[b] = NULL /\ MsgQueueFirst' = fifo'[1]
      <3>1. CASE MsgQueueFirst = NULL
        BY <1>1, <1>6, <3>1, InUse DEF ListInv, ListType
      <3>2. CASE MsgQueueFirst # NULL
        <4>1. fifo # <<>> /\ Len(fifo) \in Nat \ {0} /\ MsgQueueLast = fifo[Len(fifo)]
          BY <3>2, InUse DEF ListInv, ShapeInv
        <4>2. MsgQueueLast # b
          BY <1>5, <4>1
        <4>3. MsgQueueFirst = fifo[1]
          BY <4>1 DEF ListInv, ShapeInv
        <4> QED BY <1>1, <1>6, <3>2, <4>1, <4>2, <4>3 DEF ListInv, ListType
      <3> QED BY <3>1, <3>2
    <2>2. ASSUME NEW k \in 1..(Len(fifo') - 1)
          PROVE  pNextMsg'[fifo'[k]] = fifo'[k + 1]
      <3>1. k \in 1..Len(fifo) /\ fifo # <<>> /\ Len(fifo) \in 1..Len(fifo)
        BY <1>6, InUse
      <3>2. MsgQueueFirst # NULL /\ MsgQueueLast = fifo[Len(fifo)]
        BY <3>1, InUse DEF ListInv, ShapeInv
      <3>3. pNextMsg' = [pNextMsg EXCEPT ![b] = NULL, ![MsgQueueLast] = b]
        BY <1>1, <3>2
      <3>4. fifo[k] \in Block /\ fifo[k] # b
        BY <1>5, <3>1, InUse
      <3>5. CASE k = Len(fifo)
        <4>1. pNextMsg'[fifo[k]] = b
          BY <3>2, <3>3, <3>4, <3>5 DEF ListInv, ListType
        <4> QED BY <1>6, <3>1, <3>5, <4>1
      <3>6. CASE k # Len(fifo)
        <4>1. k \in 1..(Len(fifo) - 1) /\ k + 1 \in 1..Len(fifo)
          BY <1>6, <3>1, <3>6
        <4>2. fifo[k] # MsgQueueLast
          BY <3>1, <3>2, <3>6 DEF ListInv, OwnInv
        <4>3. pNextMsg'[fifo[k]] = pNextMsg[fifo[k]]
          BY <3>3, <3>4, <4>2 DEF ListInv, ListType
        <4> QED BY <1>6, <3>1, <4>1, <4>3 DEF ListInv, ShapeInv
      <3> QED BY <3>5, <3>6
    <2> QED BY <1>1, <1>2, <1>3, <1>6, <2>1, <2>2 DEF ShapeInv
  <1> QED BY <1>8, <1>9, <1>10, <1>11 DEF ListInv

(* The first list write of the pop takes the oldest block, if there is one. *)
LEMMA PopFirstListInv == ASSUME ListInv, PopFirst PROVE ListInv'
  <1>1. /\ stage = "none" /\ newMessage = NULL /\ msg = NULL /\ pc = "pop" /\ ~ie
    BY DEF ListInv, ControlInv, ListType, PopFirst
  <1>2. /\ stage' = stage /\ newMessage' = newMessage /\ msg' = MsgQueueFirst /\ pc' = "fix"
        /\ ie' = ie /\ MsgQueueLast' = MsgQueueLast /\ pNextMsg' = pNextMsg /\ used' = used
    BY DEF PopFirst, callVars
  <1>3. ControlInv'
    BY <1>1, <1>2 DEF ListInv, ControlInv
  <1>4. CASE MsgQueueFirst = NULL
    <2>1. MsgQueueFirst' = NULL /\ fifo' = fifo /\ msg' = msg
      BY <1>1, <1>2, <1>4 DEF PopFirst
    <2>2. ListType'
      BY <1>2, <2>1, <1>4 DEF ListInv, ListType
    <2>3. OwnInv'
      BY <1>2, <2>1 DEF ListInv, OwnInv, BlocksAccounted
    <2>4. ShapeInv'
      BY <1>1, <1>2, <1>4, <2>1 DEF ListInv, ShapeInv
    <2> QED BY <1>3, <2>2, <2>3, <2>4 DEF ListInv
  <1>5. CASE MsgQueueFirst # NULL
    <2>1. /\ MsgQueueFirst' = pNextMsg[MsgQueueFirst] /\ fifo' = Tail(fifo)
          /\ fifo # <<>> /\ MsgQueueFirst = fifo[1]
      BY <1>5, InUse DEF PopFirst, ListInv, ShapeInv
    <2>2. /\ fifo' \in Seq(Block) /\ Len(fifo) \in Nat \ {0}
          /\ Len(fifo') = Len(fifo) - 1
          /\ \A k \in 1..Len(fifo') : k + 1 \in 1..Len(fifo) /\ fifo'[k] = fifo[k + 1]
          /\ fifo' = <<>> <=> Len(fifo') = 0
      <3>1. fifo \in Seq(Block)
        BY DEF ListInv, ListType
      <3>2. /\ fifo' \in Seq(Block) /\ Len(fifo) \in Nat \ {0}
            /\ Len(fifo') = Len(fifo) - 1
            /\ \A k \in 1..(Len(fifo) - 1) : fifo'[k] = fifo[k + 1]
        BY <2>1, <3>1, TailFacts
      <3>3. fifo' = <<>> <=> Len(fifo') = 0
        BY <3>2, EmptyFacts
      <3> QED BY <3>2, <3>3
    <2>3. fifo[1] \in Block /\ fifo[1] # NULL /\ msg' = fifo[1]
      BY <1>2, <2>1, <2>2, InUse
    <2>4. ListType'
      BY <1>2, <2>1, <2>2, <2>3 DEF ListInv, ListType
    <2>5. OwnInv'
      <3>1. \A x : (\E k \in 1..Len(fifo) : fifo[k] = x)
                     <=> (\E k \in 1..Len(fifo') : fifo'[k] = x) \/ x = fifo[1]
        <4>1. \A k \in 1..Len(fifo) : k = 1 \/ (k - 1 \in 1..Len(fifo') /\ fifo'[k - 1] = fifo[k])
          BY <2>2
        <4> QED BY <2>2, <4>1
      <3>2. \A x : x \in used' <=> \/ \E k \in 1..Len(fifo') : fifo'[k] = x
                                   \/ x = msg' /\ x # NULL
                                   \/ x = newMessage' /\ x # NULL
        BY <1>1, <1>2, <2>3, <3>1, InUse
      <3>3. BlocksAccounted'
        BY <2>4, <3>2, ToSetFacts DEF BlocksAccounted, ListType
      <3>4. \A j, k \in 1..Len(fifo') : fifo'[j] = fifo'[k] => j = k
        BY <2>2 DEF ListInv, OwnInv
      <3>5. \A k \in 1..Len(fifo') : fifo'[k] # msg' /\ fifo'[k] # newMessage'
        <4>1. \A k \in 1..Len(fifo') : k + 1 # 1 /\ 1 \in 1..Len(fifo)
          BY <2>2
        <4>2. \A k \in 1..Len(fifo') : fifo[k + 1] # fifo[1]
          BY <2>2, <4>1 DEF ListInv, OwnInv
        <4> QED BY <1>1, <1>2, <2>2, <2>3, <4>2, InUse
      <3> QED BY <1>1, <1>2, <3>3, <3>4, <3>5 DEF OwnInv
    <2>6. ShapeInv'
      <3>1. MsgQueueFirst' = IF fifo' = <<>> THEN NULL ELSE fifo'[1]
        <4>1. CASE Len(fifo) = 1
          BY <1>1, <2>1, <2>2, <4>1 DEF ListInv, ShapeInv
        <4>2. CASE Len(fifo) # 1
          BY <2>1, <2>2, <4>2 DEF ListInv, ShapeInv
        <4> QED BY <4>1, <4>2
      <3>2. fifo' # <<>> => MsgQueueLast' = fifo'[Len(fifo')] /\ fifo'[Len(fifo')] = fifo[Len(fifo)]
        BY <1>2, <2>1, <2>2 DEF ListInv, ShapeInv
      <3>3. \A k \in 1..(Len(fifo') - 1) : pNextMsg'[fifo'[k]] = fifo'[k + 1]
        <4>1. \A k \in 1..(Len(fifo') - 1) :
                 k \in 1..Len(fifo') /\ k + 1 \in 1..Len(fifo') /\ k + 1 \in 1..(Len(fifo) - 1)
          BY <2>2
        <4> QED BY <1>2, <2>2, <4>1 DEF ListInv, ShapeInv
      <3>4. fifo' # <<>> => pNextMsg'[fifo'[Len(fifo')]] = newMessage'
        BY <1>2, <2>1, <3>2 DEF ListInv, ShapeInv
      <3> QED BY <1>1, <1>2, <2>3, <3>1, <3>2, <3>3, <3>4 DEF ShapeInv
    <2> QED BY <1>3, <2>4, <2>5, <2>6 DEF ListInv
  <1> QED BY <1>4, <1>5

(* The second list write of the pop resets MsgQueueLast of an empty list.   *)
LEMMA PopLastListInv == ASSUME ListInv, PopLast PROVE ListInv'
  <1>1. /\ stage = "none" /\ newMessage = NULL /\ pc = "fix" /\ ~ie
    BY DEF ListInv, ControlInv, ListType, PopLast
  <1>2. /\ stage' = stage /\ newMessage' = newMessage /\ msg' = msg /\ pc' = "unmask"
        /\ ie' = ie /\ MsgQueueFirst' = MsgQueueFirst /\ pNextMsg' = pNextMsg
        /\ used' = used /\ fifo' = fifo
        /\ MsgQueueLast' = IF msg # NULL /\ MsgQueueFirst = NULL THEN NULL ELSE MsgQueueLast
    BY DEF PopLast, callVars
  <1>3. ListType'
    BY <1>2 DEF ListInv, ListType
  <1>4. ControlInv'
    BY <1>1, <1>2 DEF ListInv, ControlInv
  <1>5. OwnInv'
    BY <1>2 DEF ListInv, OwnInv, BlocksAccounted
  <1>6. ShapeInv'
    <2>1. MsgQueueFirst = NULL <=> fifo = <<>>
      BY InUse
    <2> QED BY <1>1, <1>2, <2>1 DEF ListInv, ShapeInv
  <1> QED BY <1>3, <1>4, <1>5, <1>6 DEF ListInv

(* The block that is deleted is the one taken, which is not on the list.    *)
LEMMA DeleteMessageListInv == ASSUME ListInv, DeleteMessage PROVE ListInv'
  <1>1. stage = "none" /\ newMessage = NULL /\ pc = "free" /\ msg # NULL
    BY DEF ListInv, ControlInv, ListType, DeleteMessage
  <1>2. /\ stage' = stage /\ newMessage' = newMessage /\ msg' = NULL /\ pc' = "poll"
        /\ ie' = ie /\ MsgQueueFirst' = MsgQueueFirst /\ MsgQueueLast' = MsgQueueLast
        /\ pNextMsg' = pNextMsg /\ used' = used \ {msg} /\ fifo' = fifo
    BY DEF DeleteMessage, callVars
  <1>3. ListType'
    BY <1>2 DEF ListInv, ListType
  <1>4. ControlInv'
    BY <1>1, <1>2 DEF ListInv, ControlInv
  <1>5. OwnInv'
    <2>1. \A k \in 1..Len(fifo) : fifo[k] # msg
      BY DEF ListInv, OwnInv
    <2>2. \A x : x \in used' <=> \/ \E k \in 1..Len(fifo') : fifo'[k] = x
                                 \/ x = msg' /\ x # NULL
                                 \/ x = newMessage' /\ x # NULL
      BY <1>1, <1>2, <2>1, InUse
    <2>3. BlocksAccounted'
      BY <1>3, <2>2, ToSetFacts DEF BlocksAccounted, ListType
    <2>4. \A k \in 1..Len(fifo') : fifo'[k] # msg' /\ fifo'[k] # newMessage'
      BY <1>1, <1>2, InUse
    <2> QED BY <1>1, <1>2, <2>3, <2>4 DEF ListInv, OwnInv
  <1>6. ShapeInv'
    BY <1>1, <1>2 DEF ListInv, ShapeInv
  <1> QED BY <1>3, <1>4, <1>5, <1>6 DEF ListInv

-----------------------------------------------------------------------------
(* Every step of the task thread and of an interrupt keeps the invariant.   *)
LEMMA NextListInv == ListInv /\ [Next]_vars => ListInv'
  <1> SUFFICES ASSUME ListInv, [Next]_vars PROVE ListInv'
    OBVIOUS
  <1>1. CASE Application
    BY <1>1, AppListInv
  <1>2. CASE Kernel
    BY <1>2, KernelQuietListInv, PostLinkListInv, PostAttachListInv, PopFirstListInv,
       PopLastListInv, DeleteMessageListInv DEF Kernel
  <1>3. CASE Interrupt
    BY <1>3, InterruptListInv DEF Interrupt
  <1>4. CASE UNCHANGED vars
    <2>1. ControlInv' /\ QuietStep
      BY <1>4 DEF ListInv, ControlInv, QuietStep, vars, loopVars, callVars
    <2> QED BY <2>1, QuietListInv
  <1> QED BY <1>1, <1>2, <1>3, <1>4 DEF Next

(***************************************************************************)
(* The inductive invariant of the message list: in every interleaving of   *)
(* the task thread and of interrupts, and in the middle of every Post and  *)
(* pop, it is known which pointer refers to what.                          *)
(***************************************************************************)
THEOREM InductiveInvariant == Spec => []ListInv
  BY InitListInv, NextListInv, PTL DEF Spec

(***************************************************************************)
(* The message list is a FIFO: whenever interrupts are enabled, the list   *)
(* from MsgQueueFirst to MsgQueueLast is exactly the messages posted and   *)
(* not yet taken, in order. The masking in Post and Loop suffices for any  *)
(* number of posters and messages.                                         *)
(***************************************************************************)
THEOREM QueueIsFifo == Spec => []ListIsFifo
  <1>1. ASSUME ListInv, ie PROVE Linked
    <2>1. newMessage = NULL /\ stage \notin {"first", "last"} /\ pc # "fix"
      BY <1>1 DEF ListInv, ControlInv
    <2>2. Len(fifo) \in Nat /\ (fifo = <<>> <=> Len(fifo) = 0)
      BY <1>1, InUse
    <2>3. ASSUME NEW k \in 1..Len(fifo)
          PROVE  pNextMsg[fifo[k]] = IF k = Len(fifo) THEN NULL ELSE fifo[k + 1]
      <3>1. CASE k = Len(fifo)
        BY <1>1, <2>1, <2>2, <3>1 DEF ListInv, ShapeInv
      <3>2. CASE k # Len(fifo)
        <4>1. k \in 1..(Len(fifo) - 1)
          BY <2>2, <3>2
        <4> QED BY <1>1, <3>2, <4>1 DEF ListInv, ShapeInv
      <3> QED BY <3>1, <3>2
    <2>4. DOMAIN fifo = 1..Len(fifo)
      BY <1>1 DEF ListInv, ListType
    <2> QED BY <1>1, <2>1, <2>2, <2>3, <2>4 DEF ListInv, ShapeInv, Linked
  <1>2. ListInv => ListIsFifo
    BY <1>1 DEF ListIsFifo
  <1> QED BY <1>2, InductiveInvariant, PTL

(***************************************************************************)
(* No message block leaks and none is freed while something refers to it:  *)
(* the allocated blocks are those queued, taken or being posted.           *)
(***************************************************************************)
THEOREM NoBlockLeaks == Spec => []BlocksAccounted
  <1>1. ListInv => BlocksAccounted
    BY DEF ListInv, OwnInv
  <1> QED BY <1>1, InductiveInvariant, PTL

-----------------------------------------------------------------------------
(* Types *)

(* What RemoveAt does to a list: the other elements stay, in order.         *)
LEMMA RemoveAtFacts ==
    ASSUME NEW S, NEW s \in Seq(S), NEW i \in 1..Len(s)
    PROVE  /\ RemoveAt(s, i) \in Seq(S)
           /\ Len(RemoveAt(s, i)) = Len(s) - 1
           /\ \A k \in 1..(Len(s) - 1) :
                RemoveAt(s, i)[k] = IF k < i THEN s[k] ELSE s[k + 1]
  <1> DEFINE a == SubSeq(s, 1, i - 1)
             b == SubSeq(s, i + 1, Len(s))
  <1>1. Len(s) \in Nat /\ i \in Nat /\ 1 <= i /\ i <= Len(s)
    OBVIOUS
  <1>2. a \in Seq(S) /\ Len(a) = i - 1 /\ \A k \in 1..(i - 1) : a[k] = s[k]
    BY <1>1
  <1>3. b \in Seq(S) /\ Len(b) = Len(s) - i /\ \A k \in 1..(Len(s) - i) : b[k] = s[i + k]
    BY <1>1
  <1> HIDE DEF a, b
  <1>4. /\ a \o b \in Seq(S) /\ Len(a \o b) = Len(a) + Len(b)
        /\ \A k \in 1..(Len(a) + Len(b)) :
             (a \o b)[k] = IF k <= Len(a) THEN a[k] ELSE b[k - Len(a)]
    BY <1>2, <1>3, ConcatProperties
  <1>5. RemoveAt(s, i) = a \o b
    BY DEF RemoveAt, a, b
  <1>6. ASSUME NEW k \in 1..(Len(s) - 1)
        PROVE  (a \o b)[k] = IF k < i THEN s[k] ELSE s[k + 1]
    <2> k \in 1..(Len(a) + Len(b))
      BY <1>1, <1>2, <1>3
    <2>1. CASE k < i
      BY <1>1, <1>2, <1>4, <2>1
    <2>2. CASE ~(k < i)
      <3>1. k - Len(a) \in 1..(Len(s) - i) /\ i + (k - Len(a)) = k + 1
        BY <1>1, <1>2, <2>2
      <3>2. (a \o b)[k] = b[k - Len(a)]
        BY <1>1, <1>2, <1>4, <2>2
      <3> QED BY <1>3, <2>2, <3>1, <3>2
    <2> QED BY <2>1, <2>2
  <1>7. Len(a \o b) = Len(s) - 1
    BY <1>1, <1>2, <1>3, <1>4
  <1> QED BY <1>4, <1>5, <1>6, <1>7

(* What a node at the head does to a list.                                  *)
LEMMA PrependFacts ==
    ASSUME NEW S, NEW s \in Seq(S), NEW h \in S
    PROVE  /\ <<h>> \o s \in Seq(S)
           /\ Len(<<h>> \o s) = Len(s) + 1
           /\ (<<h>> \o s)[1] = h
           /\ \A k \in 1..Len(s) : (<<h>> \o s)[k + 1] = s[k]
  OBVIOUS

(* A row has one node for an address, which is then the one Unsubscribe     *)
(* removes.                                                                 *)
LEMMA MatchFacts ==
    ASSUME TypeOK, RowInv, NEW id \in MsgIds, NEW h \in Handler, Matches(id, h) # {}
    PROVE  \E k \in 1..Len(QueueBlock[id]) :
             /\ Matches(id, h) = {k}
             /\ Addr[QueueBlock[id][k]] = Addr[h]
             /\ k = CHOOSE j \in Matches(id, h) : \A i \in Matches(id, h) : j <= i
  <1>1. QueueBlock[id] \in Seq(Handler) /\ DOMAIN QueueBlock[id] = 1..Len(QueueBlock[id])
    BY DEF TypeOK
  <1>2. PICK k \in 1..Len(QueueBlock[id]) : k \in Matches(id, h) /\ Addr[QueueBlock[id][k]] = Addr[h]
    BY <1>1 DEF Matches
  <1>3. \A j \in Matches(id, h) : j = k
    BY <1>1, <1>2 DEF RowInv, Matches
  <1>4. Matches(id, h) = {k}
    BY <1>2, <1>3
  <1>5. k <= k
    BY <1>1
  <1> QED BY <1>2, <1>4, <1>5

(* The types of the rows.                                                   *)
LEMMA SubscribeRow ==
    ASSUME TypeOK, ContextInv, SubscribeLink
    PROVE  /\ req \in Registration /\ req.msgid \in MsgIds /\ req.handler \in Handler
           /\ \/ QueueBlock' = QueueBlock
              \/ /\ Matches(req.msgid, req.handler) = {}
                 /\ QueueBlock' = [QueueBlock EXCEPT ![req.msgid] =
                                     <<req.handler>> \o QueueBlock[req.msgid]]
           /\ QueueBlock' \in [MsgIds -> Seq(Handler)]
  <1>1. req \in Registration /\ req.msgid \in MsgIds /\ req.handler \in Handler
    BY DEF SubscribeLink, ContextInv, ContentInv, Registration
  <1>2. <<req.handler>> \o QueueBlock[req.msgid] \in Seq(Handler)
    BY <1>1, PrependFacts DEF TypeOK
  <1> QED BY <1>1, <1>2 DEF SubscribeLink, TypeOK

(* Unsubscribe removes the node of the handler's address from the row, and  *)
(* knows whether it is the one being called.                                *)
LEMMA UnsubscribeRow ==
    ASSUME TypeOK, RowInv, ContextInv, UnsubscribeUnlink
    PROVE  /\ req \in Registration /\ req.msgid \in MsgIds /\ req.handler \in Handler
           /\ \/ /\ Matches(req.msgid, req.handler) = {}
                 /\ UNCHANGED <<QueueBlock, owed, stale>>
              \/ \E k \in 1..Len(QueueBlock[req.msgid]) :
                   LET row == QueueBlock[req.msgid]
                       here == pc = "handler" /\ body[msg].msgid = req.msgid
                   IN  /\ Matches(req.msgid, req.handler) = {k}
                       /\ Addr[row[k]] = Addr[req.handler]
                       /\ QueueBlock' = [QueueBlock EXCEPT ![req.msgid] = RemoveAt(row, k)]
                       /\ owed' = IF here THEN owed \ {row[k]} ELSE owed
                       /\ stale' = (stale \/ (here /\ row[k] = curHandler))
           /\ QueueBlock' \in [MsgIds -> Seq(Handler)]
  <1>1. req \in Registration /\ req.msgid \in MsgIds /\ req.handler \in Handler
    BY DEF UnsubscribeUnlink, ContextInv, ContentInv, Registration
  <1>2. CASE Matches(req.msgid, req.handler) = {}
    BY <1>1, <1>2 DEF UnsubscribeUnlink, TypeOK
  <1>3. CASE Matches(req.msgid, req.handler) # {}
    <2>1. PICK k \in 1..Len(QueueBlock[req.msgid]) :
            /\ Matches(req.msgid, req.handler) = {k}
            /\ Addr[QueueBlock[req.msgid][k]] = Addr[req.handler]
            /\ k = CHOOSE j \in Matches(req.msgid, req.handler) :
                     \A i \in Matches(req.msgid, req.handler) : j <= i
      BY <1>1, <1>3, MatchFacts
    <2>2. RemoveAt(QueueBlock[req.msgid], k) \in Seq(Handler)
      BY <1>1, RemoveAtFacts DEF TypeOK
    <2>3. /\ QueueBlock' = [QueueBlock EXCEPT ![req.msgid] = RemoveAt(QueueBlock[req.msgid], k)]
          /\ owed' = IF pc = "handler" /\ body[msg].msgid = req.msgid
                     THEN owed \ {QueueBlock[req.msgid][k]} ELSE owed
          /\ stale' = (stale \/ ((pc = "handler" /\ body[msg].msgid = req.msgid)
                                   /\ QueueBlock[req.msgid][k] = curHandler))
      BY <1>3, <2>1, Zenon DEF UnsubscribeUnlink
    <2>4. QueueBlock' \in [MsgIds -> Seq(Handler)]
      BY <1>1, <2>2, <2>3 DEF TypeOK
    <2> QED BY <1>1, <2>1, <2>3, <2>4
  <1> QED BY <1>2, <1>3

(* The queue begins empty and idle.                                         *)
LEMMA InitTypeOK == Init => TypeOK /\ RowInv
  <1> SUFFICES ASSUME Init PROVE TypeOK /\ RowInv
    OBVIOUS
  <1>1. ie \in BOOLEAN /\ critical \in BOOLEAN /\ stale \in BOOLEAN
    BY DEF Init
  <1>2. QueueBlock \in [MsgIds -> Seq(Handler)] /\ fifo \in Seq(Block)
    BY DEF Init
  <1>3. TypeOK
    BY <1>1, <1>2, SizeAssumption DEF Init, TypeOK
  <1>4. RowInv
    BY DEF Init, RowInv
  <1> QED BY <1>3, <1>4

(* Application calls.                                                       *)
LEMMA AppTypeOK == ASSUME TypeOK, ListInv, RowInv, ContextInv, Application PROVE TypeOK' /\ RowInv'
  <1>1. CASE EnterCritical \/ LeaveCritical
    <2>1. ie' \in BOOLEAN /\ critical' \in BOOLEAN
      BY <1>1 DEF EnterCritical, LeaveCritical
    <2> QED
      BY <1>1, <2>1
      DEF EnterCritical, LeaveCritical, TypeOK, RowInv, listVars, loopVars, callVars
  <1>2. ASSUME NEW r \in Receiver, DestroyReceiver(r) PROVE TypeOK' /\ RowInv'
    <2>1. alive' \in [Handler -> {"yes", "detached", "no"}]
      BY <1>2 DEF DestroyReceiver, TypeOK, Handler
    <2> QED BY <1>2, <2>1 DEF DestroyReceiver, TypeOK, RowInv, listVars, loopVars, callVars
  <1>3. ASSUME NEW r \in Receiver, UnsubscribeAllIDs(r) PROVE TypeOK' /\ RowInv'
    <2>1. 0 \in MsgIds /\ r \in Handler
      BY SizeAssumption DEF MsgIds, Handler
    <2>2. req' \in Registration
      BY <1>3, <2>1 DEF UnsubscribeAllIDs, Registration
    <2> QED BY <1>3, <2>2 DEF UnsubscribeAllIDs, TypeOK, RowInv, listVars, loopVars
  <1>4. ASSUME NEW m \in Message, Post(m) PROVE TypeOK' /\ RowInv'
    <2>1. ie' \in BOOLEAN
      BY <1>4 DEF Post
    <2> QED BY <1>4, <2>1 DEF Post, Handed, TypeOK, RowInv, listVars, loopVars
  <1>5. ASSUME NEW id \in SubIds, NEW h \in Handler, Subscribe(id, h) \/ Unsubscribe(id, h)
        PROVE  TypeOK' /\ RowInv'
    <2>1. req' = [msgid |-> id, handler |-> h, all |-> FALSE]
      BY <1>5 DEF Subscribe, Unsubscribe
    <2>2. req' \in Registration
      BY <2>1 DEF Registration
    <2> QED BY <1>5, <2>2 DEF Subscribe, Unsubscribe, TypeOK, RowInv, listVars, loopVars
  <1>6. CASE LoopCall
    BY <1>6, SizeAssumption DEF LoopCall, TypeOK, RowInv, listVars, callVars
  <1>7. CASE HandlerReturn
    <2>1. curHandler' \in Handler \cup {NULL}
      <3>1. QueueBlock[body[msg].msgid] \in Seq(Handler)
        BY <1>7 DEF HandlerReturn, TypeOK, ContextInv, ContentInv
      <3>2. After(QueueBlock[body[msg].msgid], curHandler) \subseteq Handler
        BY <3>1 DEF After
      <3> QED BY <1>7, <3>2 DEF HandlerReturn
    <2>2. stale' \in BOOLEAN
      BY <1>7 DEF HandlerReturn
    <2> QED BY <1>7, <2>1, <2>2 DEF HandlerReturn, TypeOK, RowInv, listVars, callVars
  <1> QED BY <1>1, <1>2, <1>3, <1>4, <1>5, <1>6, <1>7 DEF Application

(* The list writes of Post, of interrupts and of the pop.                   *)
LEMMA ListTypeOK ==
    ASSUME TypeOK, ListInv, ListInv', RowInv, ContextInv,
           \/ PostLink \/ PostAttach \/ Interrupt
           \/ PopFirst \/ PopLast \/ DeleteMessage
    PROVE  TypeOK' /\ RowInv'
  <1>1. /\ MsgQueueFirst' \in Block \cup {NULL} /\ MsgQueueLast' \in Block \cup {NULL}
        /\ pNextMsg' \in [Block -> Block \cup {NULL}]
        /\ used' \in SUBSET Block
        /\ newMessage' \in Block \cup {NULL} /\ msg' \in Block \cup {NULL}
        /\ fifo' \in Seq(Block)
    BY DEF ListInv, ListType
  <1>2. CASE PostLink
    <2>1. req \in Message
      BY <1>2 DEF PostLink, ContextInv, ContentInv
    <2>2. body' \in [Block -> Message \cup {NULL}] /\ stage' \in {"first", "last"}
      BY <1>2, <2>1 DEF PostLink, NewMessage, TypeOK
    <2> QED BY <1>1, <1>2, <2>2 DEF PostLink, TypeOK, RowInv, loopVars
  <1>3. CASE PostAttach
    BY <1>1, <1>3 DEF PostAttach, TypeOK, RowInv, loopVars
  <1>4. ASSUME NEW m \in Message, InterruptPost(m) PROVE TypeOK' /\ RowInv'
    <2>1. body' \in [Block -> Message \cup {NULL}]
      BY <1>4 DEF InterruptPost, NewMessage, TypeOK
    <2> QED BY <1>1, <1>4, <2>1 DEF InterruptPost, Handed, TypeOK, RowInv, loopVars, callVars
  <1>5. CASE PopFirst
    BY <1>1, <1>5 DEF PopFirst, TypeOK, RowInv, callVars
  <1>6. CASE PopLast
    BY <1>1, <1>6 DEF PopLast, TypeOK, RowInv, callVars
  <1>7. CASE DeleteMessage
    <2>1. budget' \in 0..MaxMessages
      BY <1>7, SizeAssumption DEF DeleteMessage, TypeOK
    <2> QED BY <1>1, <1>7, <2>1 DEF DeleteMessage, TypeOK, RowInv, callVars
  <1> QED BY <1>2, <1>3, <1>4, <1>5, <1>6, <1>7 DEF Interrupt

(* The other steps inside the kernel.                                       *)
LEMMA KernelTypeOK ==
    ASSUME TypeOK, ListInv, RowInv, ContextInv,
           \/ PostFail \/ PostReturn
           \/ LoopReturn \/ LoopMask \/ LoopUnmask \/ Dispatch \/ Call \/ DeleteContext
    PROVE  TypeOK' /\ RowInv'
  <1>1. CASE PostFail
    BY <1>1 DEF PostFail, TypeOK, RowInv, listVars, loopVars
  <1>2. CASE PostReturn
    <2>1. ie' \in BOOLEAN
      BY <1>2 DEF PostReturn
    <2> QED BY <1>2, <2>1 DEF PostReturn, TypeOK, RowInv, listVars, loopVars
  <1>3. CASE LoopReturn
    BY <1>3 DEF LoopReturn, TypeOK, RowInv, listVars, callVars
  <1>4. CASE LoopMask
    <2>1. ie' \in BOOLEAN
      BY <1>4 DEF LoopMask
    <2> QED BY <1>4, <2>1 DEF LoopMask, TypeOK, RowInv, listVars, callVars
  <1>5. CASE LoopUnmask
    <2>1. ie' \in BOOLEAN
      BY <1>5 DEF LoopUnmask
    <2>2. budget' \in 0..MaxMessages /\ (pc' \notin {"app", "poll"} => budget' > 0)
      BY <1>5, SizeAssumption DEF LoopUnmask, TypeOK
    <2> QED BY <1>5, <2>1, <2>2 DEF LoopUnmask, TypeOK, RowInv, listVars, callVars
  <1>6. CASE Dispatch
    <2>1. QueueBlock[body[msg].msgid] \in Seq(Handler)
      BY <1>6 DEF Dispatch, TypeOK
    <2>2. ToSet(QueueBlock[body[msg].msgid]) \subseteq Handler
      BY <2>1, ToSetFacts
    <2>3. curHandler' \in Handler \cup {NULL}
      BY <1>6, <2>1 DEF Dispatch
    <2> QED BY <1>6, <2>2, <2>3 DEF Dispatch, TypeOK, RowInv, listVars, callVars
  <1>7. CASE Call
    BY <1>7 DEF Call, TypeOK, RowInv, listVars, callVars
  <1>8. CASE DeleteContext
    BY <1>8 DEF DeleteContext, TypeOK, RowInv, listVars, callVars
  <1> QED BY <1>1, <1>2, <1>3, <1>4, <1>5, <1>6, <1>7, <1>8

(* A node is added for an address that the row does not have.               *)
LEMMA SubscribeTypeOK ==
    ASSUME TypeOK, RowInv, ContextInv, SubscribeLink
    PROVE  TypeOK' /\ RowInv'
  <1> DEFINE id == req.msgid
             h == req.handler
             row == QueueBlock[id]
  <1>1. /\ id \in MsgIds /\ h \in Handler /\ QueueBlock' \in [MsgIds -> Seq(Handler)]
        /\ \/ QueueBlock' = QueueBlock
           \/ /\ Matches(id, h) = {}
              /\ QueueBlock' = [QueueBlock EXCEPT ![id] = <<h>> \o row]
    BY SubscribeRow
  <1>2. TypeOK'
    BY <1>1 DEF SubscribeLink, TypeOK, listVars, loopVars
  <1>3. CASE QueueBlock' = QueueBlock
    BY <1>2, <1>3 DEF RowInv
  <1>4. CASE Matches(id, h) = {} /\ QueueBlock' = [QueueBlock EXCEPT ![id] = <<h>> \o row]
    <2>1. row \in Seq(Handler) /\ Len(row) \in Nat /\ DOMAIN row = 1..Len(row)
      BY <1>1 DEF TypeOK
    <2>2. \A k \in 1..Len(row) : Addr[row[k]] # Addr[h]
      BY <1>4, <2>1 DEF Matches
    <2>3. \A j, k \in 1..Len(row) : Addr[row[j]] = Addr[row[k]] => j = k
      BY <1>1, <2>1 DEF RowInv
    <2>4. QueueBlock'[id] = <<h>> \o row /\ \A i \in MsgIds : i # id => QueueBlock'[i] = QueueBlock[i]
      BY <1>1, <1>4 DEF TypeOK
    <2> HIDE DEF row, id, h
    <2> DEFINE new == <<h>> \o row
    <2>5. /\ new \in Seq(Handler) /\ Len(new) = Len(row) + 1 /\ new[1] = h
          /\ \A k \in 1..Len(row) : new[k + 1] = row[k]
          /\ QueueBlock'[id] = new
      BY <1>1, <2>1, <2>4, PrependFacts
    <2> HIDE DEF new
    <2>6. \A j \in 1..Len(new) : j = 1 \/ (j - 1 \in 1..Len(row) /\ new[j] = row[j - 1])
      BY <2>1, <2>5
    <2>7. ASSUME NEW j \in 1..Len(new), NEW k \in 1..Len(new), Addr[new[j]] = Addr[new[k]]
          PROVE  j = k
      <3>1. CASE j = 1
        BY <2>2, <2>5, <2>6, <2>7, <3>1
      <3>2. CASE k = 1
        BY <2>2, <2>5, <2>6, <2>7, <3>2
      <3>3. CASE j # 1 /\ k # 1
        <4>1. j - 1 = k - 1
          BY <2>3, <2>6, <2>7, <3>3
        <4> QED BY <2>1, <2>5, <4>1
      <3> QED BY <3>1, <3>2, <3>3
    <2>8. DOMAIN new = 1..Len(new)
      BY <2>5
    <2>9. ASSUME NEW i \in MsgIds
          PROVE  \A j, k \in DOMAIN QueueBlock'[i] :
                   Addr[QueueBlock'[i][j]] = Addr[QueueBlock'[i][k]] => j = k
      <3>1. CASE i = id
        BY <2>5, <2>7, <2>8, <3>1
      <3>2. CASE i # id
        BY <2>4, <3>2 DEF RowInv
      <3> QED BY <3>1, <3>2
    <2> QED BY <1>2, <2>9 DEF RowInv
  <1> QED BY <1>1, <1>3, <1>4

(* The other nodes of the row keep their order.                             *)
LEMMA UnsubscribeTypeOK ==
    ASSUME TypeOK, RowInv, ContextInv, UnsubscribeUnlink
    PROVE  TypeOK' /\ RowInv'
  <1> DEFINE id == req.msgid
             h == req.handler
             row == QueueBlock[id]
  <1>1. /\ req \in Registration /\ id \in MsgIds /\ h \in Handler
        /\ QueueBlock' \in [MsgIds -> Seq(Handler)]
        /\ QueueBlock' = QueueBlock
           \/ \E k \in 1..Len(row) : QueueBlock' = [QueueBlock EXCEPT ![id] = RemoveAt(row, k)]
    BY UnsubscribeRow
  <1>2. owed' \in SUBSET Handler
    BY UnsubscribeRow DEF TypeOK
  <1>3. stale' \in BOOLEAN
    BY UnsubscribeRow DEF TypeOK
  <1>4. req' \in Registration \cup {NULL} /\ stage' \in {"none", "unsub"}
    BY <1>1 DEF UnsubscribeUnlink, Registration
  <1>5. alive' \in [Handler -> {"yes", "detached", "no"}]
    BY <1>1 DEF UnsubscribeUnlink, TypeOK
  <1>6. UNCHANGED <<listVars, pc, budget, msg, curHandler, newMessage, ie, critical, live>>
    BY DEF UnsubscribeUnlink
  <1>7. TypeOK'
    BY <1>1, <1>2, <1>3, <1>4, <1>5, <1>6 DEF TypeOK, listVars
  <1>8. CASE QueueBlock' = QueueBlock
    BY <1>7, <1>8 DEF RowInv
  <1>9. ASSUME NEW k \in 1..Len(row), QueueBlock' = [QueueBlock EXCEPT ![id] = RemoveAt(row, k)]
        PROVE  RowInv'
    <2>1. row \in Seq(Handler) /\ Len(row) \in Nat /\ DOMAIN row = 1..Len(row)
      BY <1>1 DEF TypeOK
    <2>2. \A i, j \in 1..Len(row) : Addr[row[i]] = Addr[row[j]] => i = j
      BY <1>1, <2>1 DEF RowInv
    <2>3. QueueBlock'[id] = RemoveAt(row, k) /\ \A i \in MsgIds : i # id => QueueBlock'[i] = QueueBlock[i]
      BY <1>1, <1>9 DEF TypeOK
    <2> HIDE DEF row, id, h
    <2> DEFINE new == RemoveAt(row, k)
    <2>4. /\ new \in Seq(Handler) /\ Len(new) = Len(row) - 1
          /\ \A j \in 1..(Len(row) - 1) : new[j] = IF j < k THEN row[j] ELSE row[j + 1]
      BY <2>1, RemoveAtFacts
    <2> HIDE DEF new
    <2>5. ASSUME NEW i \in 1..Len(new), NEW j \in 1..Len(new), Addr[new[i]] = Addr[new[j]]
          PROVE  i = j
      BY <2>1, <2>2, <2>4, <2>5
    <2>6. DOMAIN new = 1..Len(new)
      BY <2>4
    <2> QED BY <2>3, <2>5, <2>6 DEF RowInv, new
  <1> QED BY <1>1, <1>7, <1>8, <1>9

(* Every step keeps the types and the rows.                                 *)
LEMMA NextTypeOK ==
    ASSUME MessageInv, [Next]_vars PROVE TypeOK' /\ RowInv'
  <1> USE DEF MessageInv
  <1>1. ListInv'
    BY NextListInv
  <1>2. CASE UNCHANGED vars
    BY <1>2 DEF TypeOK, RowInv, vars, listVars, loopVars, callVars
  <1> QED
    BY <1>1, <1>2, AppTypeOK, ListTypeOK, KernelTypeOK, SubscribeTypeOK, UnsubscribeTypeOK
    DEF Next, Kernel

-----------------------------------------------------------------------------
(* Contexts *)

(* The blocks whose contexts are the queue's: all but one being deleted.    *)
LEMMA HeldIsUsed == ListInv => Held = IF pc = "free" THEN used \ {msg} ELSE used
  <1> SUFFICES ASSUME ListInv PROVE Held = IF pc = "free" THEN used \ {msg} ELSE used
    OBVIOUS
  <1>1. used = ToSet(fifo) \cup ({msg, newMessage} \ {NULL})
    BY DEF ListInv, OwnInv, BlocksAccounted
  <1>2. pc = "free" => msg \notin ToSet(fifo) /\ newMessage # msg /\ msg # NULL
    BY ToSetFacts DEF ListInv, ListType, ControlInv, OwnInv
  <1> QED BY <1>1, <1>2 DEF Held

(* Only contexts handed over with MQ_OWNER_MQ are the queue's.              *)
LEMMA HandedFacts ==
    ASSUME NEW m \in Message
    PROVE  /\ Handed(m) \subseteq HeapCtx
           /\ m.CallerOwns = "MQ_OWNER_CALLER" => Handed(m) = {}
           /\ m.CallerOwns # "MQ_OWNER_CALLER" => Handed(m) = {m.context} \ {NULL}
           /\ NULL \notin HeapCtx \cup CallerCtx
  BY NullAssumption, CtxAssumption DEF Message, Handed

(* The queue begins with no message and no context of its own.              *)
LEMMA InitContextInv == Init => ContextInv
  <1> SUFFICES ASSUME Init PROVE ContextInv
    OBVIOUS
  <1>1. Held = {}
    BY DEF Init, Held, ToSet
  <1> QED BY <1>1 DEF Init, ContextInv, ContentInv, SharingInv, ContextOwnership

(* Steps that hand nothing over and delete nothing.                         *)
LEMMA QuietContextInv ==
    ASSUME ContextInv, ContentInv', Held' = Held, live' = live,
           \A b \in Held : body'[b] = body[b],
           stage' = "masked" <=> stage = "masked",
           stage = "masked" => req' = req
    PROVE  ContextInv'
  <1>1. SharingInv'
    BY DEF ContextInv, SharingInv
  <1>2. (UNION {Handed(body[b]) : b \in Held})' = UNION {Handed(body[b]) : b \in Held}
    BY DEF Handed
  <1>3. ContextOwnership'
    BY <1>2 DEF ContextInv, ContextOwnership, Handed
  <1> QED BY <1>1, <1>3 DEF ContextInv

(* Steps that write no block: arguments keep their types.                   *)
LEMMA QuietContentInv ==
    ASSUME MessageInv,
           \/ EnterCritical \/ LeaveCritical \/ LoopCall \/ HandlerReturn
           \/ \E r \in Receiver : DestroyReceiver(r) \/ UnsubscribeAllIDs(r)
           \/ \E id \in SubIds, h \in Handler : Subscribe(id, h) \/ Unsubscribe(id, h)
           \/ PostReturn \/ SubscribeLink \/ UnsubscribeUnlink
           \/ LoopReturn \/ LoopMask \/ PopLast \/ LoopUnmask \/ Dispatch \/ Call
           \/ UNCHANGED vars
    PROVE  /\ UNCHANGED <<body, used, msg, live>>
           /\ pc' = "free" <=> pc = "free"
           /\ stage' = "masked" <=> stage = "masked"
           /\ stage = "masked" => req' = req
           /\ ContentInv'
  <1> USE DEF MessageInv, ContextInv, ContentInv, listVars, loopVars, callVars, AppRuns, MayCall
  <1>1. CASE EnterCritical \/ LeaveCritical
    BY <1>1 DEF EnterCritical, LeaveCritical
  <1>2. CASE LoopCall \/ HandlerReturn
    BY <1>2 DEF LoopCall, HandlerReturn
  <1>3. ASSUME NEW r \in Receiver, DestroyReceiver(r)
        PROVE  UNCHANGED <<body, used, msg, live, stage, req, pc>>
    BY <1>3 DEF DestroyReceiver
  <1>4. ASSUME NEW r \in Receiver, UnsubscribeAllIDs(r)
        PROVE  UNCHANGED <<body, used, msg, live, pc>> /\ stage' = "unsub" /\ stage = "none"
               /\ req' \in Registration
    <2>1. 0 \in MsgIds /\ r \in Handler
      BY SizeAssumption DEF MsgIds, Handler
    <2> QED BY <1>4, <2>1 DEF UnsubscribeAllIDs, Registration
  <1>5. ASSUME NEW id \in SubIds, NEW h \in Handler, Subscribe(id, h) \/ Unsubscribe(id, h)
        PROVE  UNCHANGED <<body, used, msg, live, pc>> /\ stage' \in {"sub", "unsub"}
               /\ stage = "none" /\ req' \in Registration
    <2>1. /\ UNCHANGED <<body, used, msg, live, pc>> /\ stage' \in {"sub", "unsub"}
          /\ stage = "none" /\ req' = [msgid |-> id, handler |-> h, all |-> FALSE]
      BY <1>5 DEF Subscribe, Unsubscribe
    <2> QED BY <2>1 DEF Registration
  <1>6. CASE PostReturn
    BY <1>6 DEF PostReturn
  <1>7. CASE SubscribeLink
    BY <1>7 DEF SubscribeLink
  <1>8. CASE UnsubscribeUnlink
    <2>1. req \in Registration
      BY <1>8, UnsubscribeRow
    <2>2. stage' = "unsub" => req' \in Registration
      BY <1>8, <2>1 DEF UnsubscribeUnlink, Registration
    <2> QED BY <1>8, <2>2 DEF UnsubscribeUnlink
  <1>9. CASE LoopReturn \/ LoopMask \/ PopLast \/ LoopUnmask
    BY <1>9 DEF LoopReturn, LoopMask, PopLast, LoopUnmask
  <1>10. CASE Dispatch \/ Call
    BY <1>10 DEF Dispatch, Call
  <1>11. CASE UNCHANGED vars
    BY <1>11 DEF vars
  <1> QED
    BY <1>1, <1>2, <1>3, <1>4, <1>5, <1>6, <1>7, <1>8, <1>9, <1>10, <1>11

(* The contexts that are alive, one by one.                                 *)
LEMMA LiveFacts ==
    ContextOwnership <=>
      \A x : x \in live <=> \/ x \in CallerCtx
                            \/ \E b \in Held : x \in Handed(body[b])
                            \/ stage = "masked" /\ x \in Handed(req)
  <1> DEFINE held == UNION {Handed(body[b]) : b \in Held}
             posted == IF stage = "masked" THEN Handed(req) ELSE {}
  <1>1. \A x : x \in held <=> \E b \in Held : x \in Handed(body[b])
    OBVIOUS
  <1>2. \A x : x \in posted <=> stage = "masked" /\ x \in Handed(req)
    OBVIOUS
  <1>3. ContextOwnership <=> live = CallerCtx \cup held \cup posted
    BY DEF ContextOwnership
  <1> HIDE DEF held, posted
  <1>4. live = CallerCtx \cup held \cup posted
          <=> \A x : x \in live <=> x \in CallerCtx \/ x \in held \/ x \in posted
    OBVIOUS
  <1> QED BY <1>1, <1>2, <1>3, <1>4

(* The same after a step.                                                   *)
LEMMA LiveAgain ==
    ASSUME \A x : x \in live' <=> \/ x \in CallerCtx
                                  \/ \E b \in Held' : x \in Handed(body'[b])
                                  \/ stage' = "masked" /\ x \in Handed(req')
    PROVE  ContextOwnership'
  <1>1. (ContextOwnership <=>
           \A x : x \in live <=> \/ x \in CallerCtx
                                 \/ \E b \in Held : x \in Handed(body[b])
                                 \/ stage = "masked" /\ x \in Handed(req))'
    BY LiveFacts, PTL
  <1> QED BY <1>1 DEF Handed

(* Post begins: the context is the poster's no more, and no other           *)
(* message's.                                                               *)
LEMMA PostContextInv ==
    ASSUME MessageInv, ListInv', NEW m \in Message, Post(m)
    PROVE  ContextInv'
  <1> USE DEF MessageInv
  <1>1. /\ stage = "none" /\ stage' = "masked" /\ req' = m /\ live' = live \cup Handed(m)
        /\ UNCHANGED <<body, used, msg, pc>> /\ Handed(m) \cap live = {}
    BY DEF Post, MayCall, AppRuns, Fresh, listVars, loopVars
  <1>2. (Held = IF pc = "free" THEN used \ {msg} ELSE used)'
    BY HeldIsUsed, PTL
  <1>3. Held' = Held
    BY <1>1, <1>2, HeldIsUsed
  <1>4. ContentInv'
    BY <1>1 DEF ContextInv, ContentInv
  <1>5. \A x : x \in live <=> x \in CallerCtx \/ \E b \in Held : x \in Handed(body[b])
    BY <1>1, LiveFacts DEF ContextInv
  <1>6. SharingInv'
    <2>1. \A b \in Held : Disjoint(body[b], m)
      BY <1>1, <1>5 DEF Disjoint
    <2> QED BY <1>1, <1>3, <2>1 DEF ContextInv, SharingInv
  <1>7. \A x : x \in live' <=> \/ x \in CallerCtx
                               \/ \E b \in Held' : x \in Handed(body'[b])
                               \/ stage' = "masked" /\ x \in Handed(req')
    BY <1>1, <1>3, <1>5
  <1>8. ContextOwnership'
    BY <1>7, LiveAgain
  <1> QED BY <1>4, <1>6, <1>8 DEF ContextInv

(* Post's message gets its block, and with it the context.                  *)
LEMMA PostLinkContextInv ==
    ASSUME MessageInv, ListInv', PostLink
    PROVE  ContextInv'
  <1> USE DEF MessageInv
  <1>1. PICK b \in Block : NewMessage(b, req) /\ stage' \in {"first", "last"}
    BY DEF PostLink
  <1>2. /\ stage = "masked" /\ pc \in {"app", "handler"} /\ UNCHANGED <<req, live, msg, pc>>
        /\ req \in Message
    BY DEF PostLink, ListInv, ControlInv, ContextInv, ContentInv, loopVars
  <1>3. /\ b \notin used /\ used' = used \cup {b} /\ body'[b] = req
        /\ \A c \in used : body'[c] = body[c]
    BY <1>1 DEF NewMessage, TypeOK
  <1>4. (Held = IF pc = "free" THEN used \ {msg} ELSE used)'
    BY HeldIsUsed, PTL
  <1>5. Held = used /\ Held' = Held \cup {b}
    BY <1>2, <1>3, <1>4, HeldIsUsed
  <1>6. ContentInv'
    <2>1. pc = "handler" => msg \in used
      BY InUse DEF ListInv, ControlInv
    <2> QED BY <1>1, <1>2, <1>3, <2>1 DEF ContextInv, ContentInv
  <1>7. SharingInv'
    <2>1. \A c \in Held : Disjoint(body[c], req) /\ Disjoint(req, body[c])
      BY <1>2 DEF ContextInv, SharingInv, Disjoint
    <2> QED BY <1>1, <1>3, <1>5, <2>1 DEF ContextInv, SharingInv
  <1>8. \A x : x \in live' <=> \/ x \in CallerCtx
                               \/ \E c \in Held' : x \in Handed(body'[c])
                               \/ stage' = "masked" /\ x \in Handed(req')
    <2>1. \A x : x \in live <=> \/ x \in CallerCtx
                                \/ \E c \in Held : x \in Handed(body[c])
                                \/ x \in Handed(req)
      BY <1>2, LiveFacts DEF ContextInv
    <2> QED BY <1>1, <1>2, <1>3, <1>5, <2>1
  <1>9. ContextOwnership'
    BY <1>8, LiveAgain
  <1> QED BY <1>6, <1>7, <1>9 DEF ContextInv

(* Post fails, and the poster deletes the context it still has.             *)
LEMMA PostFailContextInv ==
    ASSUME MessageInv, ListInv', PostFail
    PROVE  ContextInv'
  <1> USE DEF MessageInv
  <1>1. /\ stage = "masked" /\ stage' = "unmask" /\ UNCHANGED <<req, body, used, msg, pc>>
        /\ req \in Message /\ live' = live \ Handed(req)
    BY DEF PostFail, ContextInv, ContentInv, loopVars, listVars
  <1>2. (Held = IF pc = "free" THEN used \ {msg} ELSE used)'
    BY HeldIsUsed, PTL
  <1>3. Held' = Held
    BY <1>1, <1>2, HeldIsUsed
  <1>4. ContentInv'
    BY <1>1 DEF ContextInv, ContentInv
  <1>5. SharingInv'
    BY <1>1, <1>3 DEF ContextInv, SharingInv
  <1>6. \A x : x \in live' <=> \/ x \in CallerCtx
                               \/ \E c \in Held' : x \in Handed(body'[c])
                               \/ stage' = "masked" /\ x \in Handed(req')
    <2>1. \A x : x \in live <=> \/ x \in CallerCtx
                                \/ \E c \in Held : x \in Handed(body[c])
                                \/ x \in Handed(req)
      BY <1>1, LiveFacts DEF ContextInv
    <2>2. \A c \in Held : Handed(body[c]) \cap Handed(req) = {}
      BY <1>1 DEF ContextInv, SharingInv, Disjoint
    <2>3. Handed(req) \cap CallerCtx = {}
      BY <1>1, HandedFacts, CtxAssumption
    <2> QED BY <1>1, <1>3, <2>1, <2>2, <2>3
  <1>7. ContextOwnership'
    BY <1>6, LiveAgain
  <1> QED BY <1>4, <1>5, <1>7 DEF ContextInv

(* A message moves from Post to the list, or from the list to Loop.         *)
LEMMA MoveContextInv ==
    ASSUME MessageInv, ListInv', PostAttach \/ PopFirst
    PROVE  ContextInv'
  <1> USE DEF MessageInv
  <1>1. (Held = IF pc = "free" THEN used \ {msg} ELSE used)'
    BY HeldIsUsed, PTL
  <1>2. CASE PostAttach
    <2>1. /\ UNCHANGED <<req, body, used, live, msg, pc>> /\ stage \in {"first", "last"}
          /\ stage' = "unmask"
      BY <1>2 DEF PostAttach, loopVars
    <2>2. Held' = Held
      BY <1>1, <2>1, HeldIsUsed
    <2>3. ContentInv'
      BY <2>1 DEF ContextInv, ContentInv
    <2> QED BY <2>1, <2>2, <2>3, QuietContextInv
  <1>3. CASE PopFirst
    <2>1. UNCHANGED <<req, body, used, live, stage>> /\ pc = "pop" /\ pc' = "fix"
      BY <1>3 DEF PopFirst, callVars
    <2>2. Held' = Held
      BY <1>1, <2>1, HeldIsUsed
    <2>3. ContentInv'
      BY <2>1 DEF ContextInv, ContentInv
    <2> QED BY <2>1, <2>2, <2>3, QuietContextInv
  <1> QED BY <1>2, <1>3

(* An interrupt hands over a context that is in no other message.           *)
LEMMA InterruptContextInv ==
    ASSUME MessageInv, ListInv', NEW m \in Message, InterruptPost(m)
    PROVE  ContextInv'
  <1> USE DEF MessageInv
  <1>1. PICK b \in Block : NewMessage(b, m)
    BY DEF InterruptPost
  <1>2. /\ ie /\ UNCHANGED <<req, stage, msg, pc>> /\ live' = live \cup Handed(m)
        /\ Handed(m) \cap live = {}
    BY DEF InterruptPost, Fresh, loopVars, callVars
  <1>3. stage # "masked"
    BY <1>2 DEF ListInv, ControlInv
  <1>4. /\ b \notin used /\ used' = used \cup {b} /\ body'[b] = m
        /\ \A c \in used : body'[c] = body[c]
    BY <1>1 DEF NewMessage, TypeOK
  <1>5. (Held = IF pc = "free" THEN used \ {msg} ELSE used)'
    BY HeldIsUsed, PTL
  <1>6. b # msg /\ Held \subseteq used /\ Held' = Held \cup {b}
    <2>1. b # msg
      BY <1>4, InUse DEF TypeOK
    <2> QED BY <1>2, <1>4, <1>5, <2>1, HeldIsUsed
  <1>7. ContentInv'
    <2>1. pc \in {"handlers", "handler"} => msg \in used
      BY InUse DEF ListInv, ControlInv
    <2> QED BY <1>2, <1>4, <2>1 DEF ContextInv, ContentInv
  <1>8. \A x : x \in live <=> x \in CallerCtx \/ \E c \in Held : x \in Handed(body[c])
    BY <1>3, LiveFacts DEF ContextInv
  <1>9. SharingInv'
    <2>1. \A c \in Held : Disjoint(body[c], m) /\ Disjoint(m, body[c])
      BY <1>2, <1>8 DEF Disjoint
    <2> QED BY <1>2, <1>3, <1>4, <1>6, <2>1 DEF ContextInv, SharingInv
  <1>10. \A x : x \in live' <=> \/ x \in CallerCtx
                                \/ \E c \in Held' : x \in Handed(body'[c])
                                \/ stage' = "masked" /\ x \in Handed(req')
    BY <1>2, <1>3, <1>4, <1>6, <1>8
  <1>11. ContextOwnership'
    BY <1>10, LiveAgain
  <1> QED BY <1>7, <1>9, <1>11 DEF ContextInv

(* The context of the message taken is deleted if it is the queue's, and no *)
(* other message has it.                                                    *)
LEMMA DeleteContextContextInv ==
    ASSUME MessageInv, ListInv', DeleteContext
    PROVE  ContextInv'
  <1> USE DEF MessageInv
  <1>1. /\ UNCHANGED <<req, stage, body, used, msg>> /\ pc = "handlers" /\ pc' = "free"
        /\ live' = IF body[msg].CallerOwns # "MQ_OWNER_CALLER"
                   THEN live \ {body[msg].context} ELSE live
    BY DEF DeleteContext, listVars, callVars
  <1>2. stage = "none" /\ msg \in used /\ body[msg] \in Message
    BY <1>1, InUse DEF ListInv, ControlInv, ContextInv, ContentInv, TypeOK
  <1>3. (Held = IF pc = "free" THEN used \ {msg} ELSE used)'
    BY HeldIsUsed, PTL
  <1>4. Held = used /\ Held' = Held \ {msg}
    BY <1>1, <1>3, HeldIsUsed
  <1>5. ContentInv'
    BY <1>1 DEF ContextInv, ContentInv
  <1>6. SharingInv'
    BY <1>1, <1>2, <1>4 DEF ContextInv, SharingInv
  <1>7. live' = live \ Handed(body[msg])
    <2>1. NULL \notin live
      BY <1>2, HandedFacts DEF TypeOK
    <2>2. CASE body[msg].CallerOwns = "MQ_OWNER_CALLER"
      BY <1>1, <1>2, <2>2, HandedFacts
    <2>3. CASE body[msg].CallerOwns # "MQ_OWNER_CALLER"
      <3>1. Handed(body[msg]) = {body[msg].context} \ {NULL}
        BY <1>2, <2>3, HandedFacts
      <3> QED BY <1>1, <2>1, <2>3, <3>1
    <2> QED BY <2>2, <2>3
  <1>8. \A x : x \in live' <=> \/ x \in CallerCtx
                               \/ \E c \in Held' : x \in Handed(body'[c])
                               \/ stage' = "masked" /\ x \in Handed(req')
    <2>1. \A x : x \in live <=> x \in CallerCtx \/ \E c \in Held : x \in Handed(body[c])
      BY <1>2, LiveFacts DEF ContextInv
    <2>2. \A c \in Held \ {msg} : Handed(body[c]) \cap Handed(body[msg]) = {}
      BY <1>2, <1>4 DEF ContextInv, SharingInv, Disjoint
    <2>3. Handed(body[msg]) \cap CallerCtx = {}
      BY <1>2, HandedFacts, CtxAssumption
    <2> QED BY <1>1, <1>2, <1>4, <1>7, <2>1, <2>2, <2>3
  <1>9. ContextOwnership'
    BY <1>8, LiveAgain
  <1> QED BY <1>5, <1>6, <1>9 DEF ContextInv

(* The block of the message taken goes back to the heap without a context.  *)
LEMMA DeleteMessageContextInv ==
    ASSUME MessageInv, ListInv', DeleteMessage
    PROVE  ContextInv'
  <1> USE DEF MessageInv
  <1>1. /\ UNCHANGED <<req, stage, live>> /\ pc = "free" /\ pc' = "poll"
        /\ used' = used \ {msg} /\ body' = [body EXCEPT ![msg] = NULL]
    BY DEF DeleteMessage, callVars
  <1>2. (Held = IF pc = "free" THEN used \ {msg} ELSE used)'
    BY HeldIsUsed, PTL
  <1>3. Held' = Held /\ Held = used \ {msg}
    BY <1>1, <1>2, HeldIsUsed
  <1>4. \A c \in Held : body'[c] = body[c]
    BY <1>1, <1>3 DEF TypeOK
  <1>5. ContentInv'
    BY <1>1, <1>3, <1>4 DEF ContextInv, ContentInv
  <1> QED BY <1>1, <1>3, <1>4, <1>5, QuietContextInv

(* Every step keeps the contexts apart and accounted for.                   *)
LEMMA NextContextInv == ASSUME MessageInv, ListInv', [Next]_vars PROVE ContextInv'
  <1>1. CASE \/ EnterCritical \/ LeaveCritical \/ LoopCall \/ HandlerReturn
             \/ \E r \in Receiver : DestroyReceiver(r) \/ UnsubscribeAllIDs(r)
             \/ \E id \in SubIds, h \in Handler : Subscribe(id, h) \/ Unsubscribe(id, h)
             \/ PostReturn \/ SubscribeLink \/ UnsubscribeUnlink
             \/ LoopReturn \/ LoopMask \/ PopLast \/ LoopUnmask \/ Dispatch \/ Call
             \/ UNCHANGED vars
    <2>1. /\ UNCHANGED <<body, used, msg, live>>
          /\ pc' = "free" <=> pc = "free"
          /\ stage' = "masked" <=> stage = "masked"
          /\ stage = "masked" => req' = req
          /\ ContentInv'
      BY <1>1, QuietContentInv
    <2>2. (Held = IF pc = "free" THEN used \ {msg} ELSE used)'
      BY HeldIsUsed, PTL
    <2>3. Held' = Held
      BY <2>1, <2>2, HeldIsUsed DEF MessageInv
    <2> QED BY <2>1, <2>3, QuietContextInv DEF MessageInv
  <1>2. ASSUME NEW m \in Message, Post(m) PROVE ContextInv'
    BY <1>2, PostContextInv
  <1>3. CASE Interrupt
    BY <1>3, InterruptContextInv DEF Interrupt
  <1> QED
    BY <1>1, <1>2, <1>3, PostLinkContextInv, PostFailContextInv, MoveContextInv,
       DeleteContextContextInv, DeleteMessageContextInv
    DEF Next, Application, Kernel

(***************************************************************************)
(* The whole inductive invariant of the message queue, for every           *)
(* application: types, list, rows of handlers and contexts.                *)
(***************************************************************************)
THEOREM QueueInvariant == Spec => []MessageInv
  <1>1. Init => MessageInv
    BY InitListInv, InitTypeOK, InitContextInv DEF MessageInv
  <1>2. MessageInv /\ [Next]_vars => MessageInv'
    BY NextListInv, NextTypeOK, NextContextInv DEF MessageInv
  <1> QED BY <1>1, <1>2, PTL DEF Spec

(***************************************************************************)
(* Contexts are owned: one that was handed over is deleted exactly once,   *)
(* after the last handler has returned, and one of the poster's never.     *)
(***************************************************************************)
THEOREM ContextsAreOwned == Spec => []ContextOwnership
  <1>1. MessageInv => ContextOwnership
    BY DEF MessageInv, ContextInv
  <1> QED BY <1>1, QueueInvariant, PTL

-----------------------------------------------------------------------------
(* The abstract bus *)

Queue == [k \in DOMAIN fifo |-> body[fifo[k]]]
Current == IF msg = NULL THEN NULL ELSE body[msg]

(* The messages on the list are those of its blocks, in order.              *)
LEMMA QueueFacts ==
    ASSUME MessageInv
    PROVE  /\ Queue \in Seq(Message) /\ Len(Queue) = Len(fifo) /\ Len(fifo) \in Nat
           /\ \A k \in 1..Len(fifo) : Queue[k] = body[fifo[k]]
           /\ msg # NULL => body[msg] \in Message /\ body[msg] # NULL
  <1>1. DOMAIN fifo = 1..Len(fifo) /\ Len(fifo) \in Nat
    BY DEF MessageInv, TypeOK
  <1>2. \A k \in 1..Len(fifo) : body[fifo[k]] \in Message
    BY InUse DEF MessageInv, ContextInv, ContentInv
  <1>3. Queue = [k \in 1..Len(fifo) |-> body[fifo[k]]]
    BY <1>1 DEF Queue
  <1>4. Queue \in [1..Len(fifo) -> Message]
    BY <1>2, <1>3
  <1>5. Queue \in Seq(Message) /\ Len(Queue) = Len(fifo)
    BY <1>1, <1>4
  <1>6. msg # NULL => body[msg] \in Message /\ body[msg] # NULL
    BY InUse, NullMessageAssumption DEF MessageInv, ContextInv, ContentInv
  <1> QED BY <1>1, <1>3, <1>5, <1>6

(* The same after a step.                                                   *)
LEMMA QueueAgain ==
    ASSUME MessageInv'
    PROVE  /\ Queue' \in Seq(Message) /\ Len(Queue') = Len(fifo')
           /\ \A k \in 1..Len(fifo') : Queue'[k] = body'[fifo'[k]]
  <1>1. DOMAIN fifo' = 1..Len(fifo') /\ Len(fifo') \in Nat
    BY DEF MessageInv, TypeOK
  <1>2. fifo' \in Seq(Block) /\ used' = ToSet(fifo') \cup ({msg', newMessage'} \ {NULL})
    BY DEF MessageInv, ListInv, ListType, OwnInv, BlocksAccounted
  <1>3. \A k \in 1..Len(fifo') : fifo'[k] \in used'
    BY <1>2, ToSetFacts
  <1>4. \A k \in 1..Len(fifo') : body'[fifo'[k]] \in Message
    BY <1>3 DEF MessageInv, ContextInv, ContentInv
  <1>5. Queue' = [k \in 1..Len(fifo') |-> body'[fifo'[k]]]
    BY <1>1 DEF Queue
  <1>6. Queue' \in [1..Len(fifo') -> Message]
    BY <1>4, <1>5
  <1> QED BY <1>1, <1>5, <1>6

(* A block that is posted puts its message at the end of the queue.         *)
LEMMA PostedFacts ==
    ASSUME MessageInv, MessageInv', NEW b \in Block, fifo' = Append(fifo, b),
           \A c \in used : body'[c] = body[c]
    PROVE  Queue' = Append(Queue, body'[b])
  <1> DEFINE n == Len(fifo)
             m == body'[b]
  <1>1. /\ Queue \in Seq(Message) /\ Len(Queue) = n /\ n \in Nat
        /\ \A k \in 1..n : Queue[k] = body[fifo[k]]
    BY QueueFacts
  <1>2. /\ Len(fifo') = n + 1 /\ fifo'[n + 1] = b /\ \A k \in 1..n : fifo'[k] = fifo[k]
    BY AppendFacts DEF MessageInv, TypeOK
  <1>3. /\ Queue' \in Seq(Message) /\ Len(Queue') = n + 1
        /\ \A k \in 1..(n + 1) : Queue'[k] = body'[fifo'[k]]
    BY <1>2, QueueAgain
  <1>4. \A k \in 1..n : Queue'[k] = Queue[k]
    <2>1. \A k \in 1..n : fifo[k] \in used
      BY InUse DEF MessageInv
    <2>2. \A k \in 1..n : k \in 1..(n + 1)
      BY <1>1
    <2> QED BY <1>1, <1>2, <1>3, <2>1, <2>2
  <1>5. Queue'[n + 1] = m /\ m \in Message
    BY <1>1, <1>2, <1>3
  <1> HIDE DEF n, m
  <1>6. /\ Append(Queue, m) \in Seq(Message) /\ Len(Append(Queue, m)) = n + 1
        /\ \A k \in 1..n : Append(Queue, m)[k] = Queue[k]
        /\ Append(Queue, m)[n + 1] = m
    BY <1>1, <1>5, AppendFacts
  <1>7. \A k \in 1..(n + 1) : Queue'[k] = Append(Queue, m)[k]
    <2>1. \A k \in 1..(n + 1) : k \in 1..n \/ k = n + 1
      BY <1>1
    <2> QED BY <1>4, <1>5, <1>6, <2>1
  <1> QED BY <1>3, <1>6, <1>7, SeqEqual DEF m

(* A block that is taken is the message at the head of the queue.           *)
LEMMA TakenFacts ==
    ASSUME MessageInv, MessageInv', fifo # <<>>, fifo' = Tail(fifo), body' = body
    PROVE  Queue # <<>> /\ Queue' = Tail(Queue) /\ Head(Queue) = body[fifo[1]]
  <1> DEFINE n == Len(fifo)
  <1>1. /\ Queue \in Seq(Message) /\ Len(Queue) = n /\ n \in Nat
        /\ \A k \in 1..n : Queue[k] = body[fifo[k]]
    BY QueueFacts
  <1>2. fifo \in Seq(Block)
    BY DEF MessageInv, TypeOK
  <1>3. n \in Nat \ {0} /\ Len(fifo') = n - 1 /\ \A k \in 1..(n - 1) : fifo'[k] = fifo[k + 1]
    BY <1>2, TailFacts
  <1>4. /\ Queue' \in Seq(Message) /\ Len(Queue') = n - 1
        /\ \A k \in 1..(n - 1) : Queue'[k] = body[fifo'[k]]
    BY <1>3, QueueAgain
  <1> HIDE DEF n
  <1>5. Queue # <<>> /\ Head(Queue) = Queue[1]
    BY <1>1, <1>3
  <1>6. /\ Tail(Queue) \in Seq(Message) /\ Len(Tail(Queue)) = n - 1
        /\ \A k \in 1..(n - 1) : Tail(Queue)[k] = Queue[k + 1]
    BY <1>1, <1>5, TailFacts
  <1>7. \A k \in 1..(n - 1) : Queue'[k] = Tail(Queue)[k]
    <2>1. \A k \in 1..(n - 1) : k + 1 \in 1..n
      BY <1>3
    <2> QED BY <1>1, <1>3, <1>4, <1>6, <2>1
  <1>8. Queue' = Tail(Queue)
    BY <1>4, <1>6, <1>7, SeqEqual
  <1> QED BY <1>1, <1>3, <1>5, <1>8

(* Steps that neither post, take nor delete leave the bus alone.            *)
LEMMA BusStutter ==
    ASSUME MessageInv, fifo' = fifo, msg' = msg, \A c \in used : body'[c] = body[c]
    PROVE  UNCHANGED Bus!vars
  <1>1. DOMAIN fifo = 1..Len(fifo)
    BY DEF MessageInv, TypeOK
  <1>2. Queue' = Queue
    BY <1>1, InUse DEF MessageInv, Queue
  <1>3. Current' = Current
    BY InUse DEF MessageInv, Current
  <1> QED BY <1>2, <1>3 DEF Bus!vars, Queue, Current

(***************************************************************************)
(* The linked list implements the first-in first-out bus: through masked   *)
(* writes, interrupts, failed Posts and the heap, messages are handled one *)
(* at a time in the order in which they were posted.                       *)
(***************************************************************************)
THEOREM BusRefinement == Spec => ImplementsBus
  <1>1. Init => Bus!Init
    BY DEF Init, Bus!Init
  <1>2. ASSUME MessageInv, MessageInv', [Next]_vars PROVE [Bus!Next]_(Bus!vars)
    <2> USE <1>2
    <2>1. CASE \/ EnterCritical \/ LeaveCritical \/ LoopCall \/ HandlerReturn
               \/ \E r \in Receiver : DestroyReceiver(r) \/ UnsubscribeAllIDs(r)
               \/ \E id \in SubIds, h \in Handler : Subscribe(id, h) \/ Unsubscribe(id, h)
               \/ \E m \in Message : Post(m)
      BY <2>1, BusStutter
      DEF EnterCritical, LeaveCritical, LoopCall, HandlerReturn, DestroyReceiver,
          UnsubscribeAllIDs, Subscribe, Unsubscribe, Post, listVars, loopVars
    <2>2. CASE \/ PostFail \/ PostReturn \/ SubscribeLink \/ UnsubscribeUnlink
               \/ LoopReturn \/ LoopMask \/ PopLast \/ LoopUnmask \/ Dispatch \/ Call
               \/ DeleteContext \/ UNCHANGED vars
      <3>1. UNCHANGED <<fifo, msg, body>>
        BY <2>2
        DEF PostFail, PostReturn, SubscribeLink, UnsubscribeUnlink, LoopReturn, LoopMask,
            PopLast, LoopUnmask, Dispatch, Call, DeleteContext, vars, listVars, loopVars
      <3> QED BY <3>1, BusStutter
    <2>3. CASE PostLink
      <3>1. PICK b \in Block : NewMessage(b, req)
        BY <2>3 DEF PostLink
      <3>2. fifo' = fifo /\ msg' = msg /\ \A c \in used : body'[c] = body[c]
        BY <2>3, <3>1 DEF PostLink, NewMessage, loopVars, MessageInv, TypeOK
      <3> QED BY <3>2, BusStutter
    <2>4. CASE PostAttach
      <3>1. PICK b \in Block : b = newMessage /\ b \in used
        BY <2>4, InUse DEF PostAttach, MessageInv, ListInv, ControlInv, ListType
      <3>2. fifo' = Append(fifo, b) /\ msg' = msg /\ body' = body
        BY <2>4, <3>1 DEF PostAttach, loopVars
      <3>3. PICK m \in Message : m = body[b]
        BY <3>1 DEF MessageInv, ContextInv, ContentInv
      <3>4. Queue' = Append(Queue, m)
        BY <3>2, <3>3, PostedFacts
      <3>5. Bus!Post(m)
        BY <3>2, <3>4 DEF Bus!Post, Queue
      <3> QED BY <3>5 DEF Bus!Next
    <2>5. ASSUME NEW m \in Message, InterruptPost(m) PROVE [Bus!Next]_(Bus!vars)
      <3>1. PICK b \in Block : NewMessage(b, m) /\ fifo' = Append(fifo, b)
        BY <2>5 DEF InterruptPost
      <3>2. /\ msg' = msg /\ body'[b] = m
            /\ \A c \in used : body'[c] = body[c]
        BY <2>5, <3>1 DEF InterruptPost, NewMessage, loopVars, MessageInv, TypeOK
      <3>3. Queue' = Append(Queue, m)
        BY <3>1, <3>2, PostedFacts
      <3>4. Current' = Current
        BY <3>2, InUse DEF MessageInv, Current
      <3>5. Bus!Post(m)
        BY <3>3, <3>4 DEF Bus!Post, Queue, Current
      <3> QED BY <3>5 DEF Bus!Next
    <2>6. CASE PopFirst
      <3>1. msg = NULL /\ msg' = MsgQueueFirst /\ body' = body
        BY <2>6 DEF PopFirst, MessageInv, ListInv, ControlInv
      <3>2. CASE MsgQueueFirst = NULL
        <4>1. fifo' = fifo
          BY <2>6, <3>2 DEF PopFirst
        <4> QED BY <3>1, <3>2, <4>1, BusStutter
      <3>3. CASE MsgQueueFirst # NULL
        <4>1. fifo # <<>> /\ fifo' = Tail(fifo) /\ MsgQueueFirst = fifo[1]
          BY <2>6, <3>3, InUse DEF PopFirst, MessageInv, ListInv, ShapeInv
        <4>2. Queue # <<>> /\ Queue' = Tail(Queue) /\ Head(Queue) = body[fifo[1]]
          BY <3>1, <4>1, TakenFacts
        <4>3. Current = NULL /\ Current' = Head(Queue)
          BY <3>1, <3>3, <4>1, <4>2 DEF Current
        <4>4. Bus!Take
          BY <4>2, <4>3 DEF Bus!Take, Queue, Current
        <4> QED BY <4>4 DEF Bus!Next
      <3> QED BY <3>2, <3>3
    <2>7. CASE DeleteMessage
      <3>1. msg # NULL /\ msg' = NULL /\ fifo' = fifo /\ body' = [body EXCEPT ![msg] = NULL]
        BY <2>7 DEF DeleteMessage, MessageInv, ListInv, ControlInv
      <3>2. \A k \in 1..Len(fifo) : body'[fifo[k]] = body[fifo[k]]
        <4>1. \A k \in 1..Len(fifo) : fifo[k] # msg /\ fifo[k] \in Block
          BY InUse DEF MessageInv, ListInv, OwnInv
        <4> QED BY <3>1, <4>1 DEF MessageInv, TypeOK
      <3>3. Queue' = Queue
        <4>1. DOMAIN fifo = 1..Len(fifo)
          BY DEF MessageInv, TypeOK
        <4> QED BY <3>1, <3>2, <4>1 DEF Queue
      <3>4. Current # NULL /\ Current' = NULL
        BY <3>1, QueueFacts DEF Current
      <3>5. Bus!Done
        BY <3>3, <3>4 DEF Bus!Done, Queue, Current
      <3> QED BY <3>5 DEF Bus!Next
    <2> QED
      BY <2>1, <2>2, <2>3, <2>4, <2>5, <2>6, <2>7 DEF Next, Application, Kernel, Interrupt
  <1> QED BY <1>1, <1>2, QueueInvariant, PTL DEF Spec, ImplementsBus, Bus!Spec
=============================================================================
