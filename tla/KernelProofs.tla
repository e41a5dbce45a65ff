---------------------------- MODULE KernelProofs ----------------------------
(***************************************************************************)
(* Proofs for Kernel: lamps change neither early nor late, for any lamps,  *)
(* timeouts, messages and width of the counter. The ring's invariant is    *)
(* taken from TaskRingProofs; the timers' is the running part of OSTimer's. *)
(***************************************************************************)
EXTENDS Kernel, FiniteSetTheorems, TLAPS

RingProofs == INSTANCE TaskRingProofs WITH Task <- Lamp, MaxNodes <- Cardinality(Lamp)

LEMMA LampCount == Cardinality(Lamp) \in Nat
BY LampAssumption, FS_CardinalityType

(* The ring that Kernel runs is the one the proofs are about.              *)
LEMMA SameRing == Ring!RingInv <=> RingProofs!RingInv
BY DEF Ring!RingInv, Ring!TypeOK, Ring!CursorInv, Ring!WaitInv, Ring!Nodes, Ring!Ahead,
       RingProofs!RingInv, RingProofs!TypeOK, RingProofs!CursorInv,
       RingProofs!WaitInv, RingProofs!Nodes, RingProofs!Ahead

(* Each use that the kernel makes of the ring keeps its invariant.         *)
LEMMA RingSteps ==
    ASSUME Ring!RingInv,
           \/ \E l \in Lamp : Ring!RegisterTaskHandler(l)
           \/ Ring!LoopCall \/ Ring!LoopReturn \/ UNCHANGED ring
    PROVE  Ring!RingInv'
<1>1. RingProofs!RingInv
  BY SameRing
<1>2. (Ring!RingInv <=> RingProofs!RingInv)'
  BY SameRing, PTL
<1>3. ASSUME NEW l \in Lamp, Ring!RegisterTaskHandler(l) PROVE RingProofs!RingInv'
  <2>1. RingProofs!RegisterTaskHandler(l)
    BY <1>3 DEF Ring!RegisterTaskHandler, RingProofs!RegisterTaskHandler
  <2> QED
    BY <1>1, <2>1, LampCount, RingProofs!RegisterRingInv
<1>4. CASE Ring!LoopCall
  <2>1. RingProofs!LoopCall
    BY <1>4 DEF Ring!LoopCall, Ring!ResumePoint, Ring!pHead, Ring!Nodes,
                RingProofs!LoopCall, RingProofs!ResumePoint, RingProofs!pHead,
                RingProofs!Nodes
  <2> QED
    BY <1>1, <1>2, <2>1, LampCount, RingProofs!LoopCallRingInv
<1>5. CASE Ring!LoopReturn
  <2>1. RingProofs!LoopReturn
    BY <1>5 DEF Ring!LoopReturn, RingProofs!LoopReturn
  <2> QED
    BY <1>1, <1>2, <2>1, LampCount, RingProofs!LoopReturnRingInv
<1>6. CASE UNCHANGED ring
  BY <1>6 DEF ring, Ring!RingInv, Ring!TypeOK, Ring!CursorInv, Ring!WaitInv,
              Ring!Nodes, Ring!Ahead
<1> QED
  BY <1>2, <1>3, <1>4, <1>5, <1>6

(* What the ring's invariant says of the nodes.                            *)
LEMMA RingFacts ==
    ASSUME Ring!RingInv
    PROVE  /\ reg \in Seq(Lamp) /\ Len(reg) \in 0..Cardinality(Lamp)
           /\ \A k \in 1..Len(reg) : reg[k] \in Lamp
           /\ pCur \in 0..Len(reg) /\ (inCall => pCur \in 1..Len(reg))
           /\ wait \in [1..Len(reg) -> Nat]
           /\ \A k \in 1..Len(reg) : wait[k] \in 0..(Cardinality(Lamp) - 1)
<1>1. /\ reg \in Seq(Lamp) /\ Len(reg) \in 0..Cardinality(Lamp)
      /\ pCur \in 0..Len(reg) /\ (inCall => pCur # 0)
      /\ wait \in [1..Len(reg) -> Nat] /\ inCall \in BOOLEAN
  BY LampCount DEF Ring!RingInv, Ring!TypeOK, Ring!CursorInv, Ring!Nodes
<1>2. ASSUME NEW k \in 1..Len(reg) PROVE wait[k] < Len(reg)
  <2>1. wait[k] <= IF k <= Ring!Ahead THEN (k - 1) + (Len(reg) - Ring!Ahead)
                                      ELSE (k - 1) - Ring!Ahead
    BY DEF Ring!RingInv, Ring!WaitInv, Ring!Nodes
  <2>2. Ring!Ahead \in 0..Len(reg)
    BY <1>1 DEF Ring!Ahead
  <2> QED
    BY <1>1, <2>1, <2>2
<1> QED
  BY <1>1, <1>2, LampCount

-----------------------------------------------------------------------------
(* millis() at the next millisecond.                                       *)
LEMMA NextMillis ==
    ASSUME NEW x \in 0..(Modulus - 1)
    PROVE  (x + 1) % Modulus = IF x + 1 < Modulus THEN x + 1 ELSE 0
BY TimeAssumption

(* The count of a timer that runs all the time, and what its poll answers. *)
LEMMA CountMeaning ==
    ASSUME NEW l \in Lamp, TypeOK
    PROVE  /\ Timer(l)!CountInv <=>
                (since[l] < Modulus =>
                   since[l] = IF millis >= tmr[l] THEN millis - tmr[l]
                              ELSE millis - tmr[l] + Modulus)
           /\ Timer(l)!isExpired <=>
                (IF millis >= tmr[l] THEN millis - tmr[l]
                 ELSE millis - tmr[l] + Modulus) > Timeout[l]
BY DEF Timer!CountInv, Timer!isExpired, Timer!Elapsed, Timer!Sub

(* A poll finds the timer expired exactly when its timeout has passed.     *)
LEMMA PollExact ==
    ASSUME NEW l \in Lamp, TypeOK, Timer(l)!CountInv
    PROVE  /\ Timer(l)!isExpired => since[l] > Timeout[l]
           /\ ~Timer(l)!isExpired /\ since[l] < Modulus => since[l] <= Timeout[l]
<1>1. since[l] \in 0..Modulus /\ Timeout[l] \in 0..(Modulus - 1)
  BY LampAssumption DEF TypeOK
<1>2. since[l] < Modulus =>
        since[l] = IF millis >= tmr[l] THEN millis - tmr[l] ELSE millis - tmr[l] + Modulus
  BY CountMeaning
<1>3. Timer(l)!isExpired <=>
        (IF millis >= tmr[l] THEN millis - tmr[l] ELSE millis - tmr[l] + Modulus)
           > Timeout[l]
  BY CountMeaning
<1>4. CASE since[l] < Modulus
  BY <1>1, <1>2, <1>3, <1>4
<1>5. CASE since[l] = Modulus
  BY <1>1, <1>5, TimeAssumption
<1> QED
  BY <1>1, <1>4, <1>5, TimeAssumption

-----------------------------------------------------------------------------
(* Products of lags.                                                       *)
LEMMA Lags ==
    ASSUME NEW w \in Nat, NEW c \in Nat
    PROVE  /\ w * MaxLag \in Nat
           /\ (w + 1) * MaxLag = w * MaxLag + MaxLag
           /\ w < c => w * MaxLag + MaxLag <= c * MaxLag
<1>1. w * MaxLag \in Nat /\ (w + 1) * MaxLag = w * MaxLag + MaxLag
  BY TimeAssumption
<1>2. ASSUME w < c PROVE w * MaxLag + MaxLag <= c * MaxLag
  <2>1. PICK e \in Nat : c = w + 1 + e
    <3>1. c - (w + 1) \in Nat
      BY <1>2
    <3> QED
      BY <3>1
  <2>2. e * MaxLag \in Nat /\ c * MaxLag = (w + 1) * MaxLag + e * MaxLag
    BY <2>1, TimeAssumption
  <2> QED
    BY <1>1, <2>2, TimeAssumption
<1> QED
  BY <1>1, <1>2

-----------------------------------------------------------------------------
(* The parts of TypeOK but for the ring's.                                 *)
Values ==
    /\ queue \in Seq(Message) /\ Len(queue) <= MaxQueue
    /\ current \in Message \cup {NoMessage}
    /\ millis \in 0..(Modulus - 1)
    /\ tmr \in [Lamp -> 0..(Modulus - 1)] /\ since \in [Lamp -> 0..Modulus]
    /\ left \in 0..2 /\ lag \in 0..MaxLag

Control ==
    /\ pc \in {"init", "mq", "handler", "ring", "task", "restart", "return"}
    /\ pc = "handler" => left > 0
    /\ pc = "ring" => left = 0
    /\ pc = "init" => blinking = {}
    /\ inCall <=> pc \in {"task", "restart", "return"}
    /\ current # NoMessage <=> pc = "handler"

Pins == PORTB \subseteq blinking /\ blinking \subseteq Lamp

LEMMA TypeParts ==
    TypeOK <=> Values /\ Control /\ Pins /\ toggleflag \in [Lamp -> BOOLEAN] /\ Ring!RingInv
<1>1. pc \in {"init", "mq", "handler", "ring"} \cup InTask <=>
        pc \in {"init", "mq", "handler", "ring", "task", "restart", "return"}
  BY DEF InTask
<1>2. pc \in InTask <=> pc \in {"task", "restart", "return"}
  BY DEF InTask
<1> QED
  BY <1>1, <1>2 DEF TypeOK, Values, Control, Pins

(* Each action keeps the types, and the ring and the queue in step with pc. *)
LEMMA ValuesStep == ASSUME TypeOK, [Next]_vars PROVE Values'
<1> USE TimeAssumption
<1>0. Values
  BY TypeParts
<1>1. ASSUME NEW l \in Lamp, Start(l) PROVE Values'
  BY <1>0, <1>1 DEF Start, Values, bus, lamps
<1>2. CASE UserInitReturns
  BY <1>0, <1>2 DEF UserInitReturns, EnterLoop, Values, bus, lamps
<1>3. CASE TakeMessage
  <2>1. queue # <<>> /\ current' = Head(queue) /\ queue' = Tail(queue)
    BY <1>3 DEF TakeMessage, Bus!Take
  <2>2. /\ current' \in Message /\ queue' \in Seq(Message)
        /\ Len(queue') <= MaxQueue
    BY <1>0, <2>1 DEF Values
  <2> QED
    BY <1>0, <1>3, <2>2 DEF TakeMessage, Values, lamps
<1>4. CASE MessageDone
  <2>1. left > 0
    BY <1>4, TypeParts DEF MessageDone, Control
  <2> QED
    BY <1>0, <1>4, <2>1 DEF MessageDone, Bus!Done, Values, lamps
<1>5. CASE NoMessageYet \/ MessageLoopReturns
  BY <1>0, <1>5 DEF NoMessageYet, MessageLoopReturns, Values, bus, lamps
<1>6. CASE Dispatch \/ NoTask \/ TaskReturns
  BY <1>0, <1>6 DEF Dispatch, NoTask, TaskReturns, EnterLoop, Values, bus, lamps
<1>7. ASSUME NEW l \in Lamp, Poll(l) PROVE Values'
  BY <1>0, <1>7 DEF Poll, Values, bus
<1>8. ASSUME NEW l \in Lamp, RestartTimer(l) PROVE Values'
  BY <1>0, <1>8 DEF RestartTimer, Values, bus
<1>9. CASE Tick
  <2>1. millis' \in 0..(Modulus - 1)
    BY <1>0, <1>9, NextMillis DEF Tick, Values
  <2>2. since' \in [Lamp -> 0..Modulus]
    BY <1>0, <1>9 DEF Tick, Values
  <2> QED
    BY <1>0, <1>9, <2>1, <2>2 DEF Tick, Values, bus
<1>10. ASSUME NEW m \in Message, PostMessage(m) PROVE Values'
  <2>1. queue' \in Seq(Message) /\ Len(queue') <= MaxQueue
    BY <1>0, <1>10 DEF PostMessage, Bus!Post, Values
  <2> QED
    BY <1>0, <1>10, <2>1 DEF PostMessage, Bus!Post, Values, lamps
<1>11. CASE UNCHANGED vars
  BY <1>0, <1>11 DEF vars, Values, bus, lamps
<1> QED
  BY <1>1, <1>2, <1>3, <1>4, <1>5, <1>6, <1>7, <1>8, <1>9, <1>10, <1>11
     DEF Next, Processor

LEMMA ControlStep == ASSUME TypeOK, [Next]_vars PROVE Control'
<1>0. Control /\ Values /\ inCall \in BOOLEAN
  BY TypeParts DEF Ring!RingInv, Ring!TypeOK
<1>1. ASSUME NEW l \in Lamp, Start(l) PROVE Control'
  BY <1>0, <1>1 DEF Start, Ring!RegisterTaskHandler, Control, bus, lamps
<1>2. CASE UserInitReturns
  BY <1>0, <1>2 DEF UserInitReturns, EnterLoop, Control, bus, ring, lamps
<1>3. CASE TakeMessage
  <2>1. current' \in Message
    BY <1>0, <1>3 DEF TakeMessage, Bus!Take, Values
  <2> QED
    BY <1>0, <1>3, <2>1, MessageAssumption DEF TakeMessage, Control, ring, lamps
<1>4. CASE MessageDone
  BY <1>0, <1>4 DEF MessageDone, Bus!Done, Control, ring, lamps
<1>5. CASE NoMessageYet \/ MessageLoopReturns
  BY <1>0, <1>5 DEF NoMessageYet, MessageLoopReturns, Control, bus, ring, lamps
<1>6. CASE Dispatch
  BY <1>0, <1>6 DEF Dispatch, Ring!LoopCall, Control, bus, lamps
<1>7. CASE NoTask
  BY <1>0, <1>7 DEF NoTask, EnterLoop, Control, bus, ring, lamps
<1>8. CASE TaskReturns
  BY <1>0, <1>8 DEF TaskReturns, Ring!LoopReturn, EnterLoop, Control, bus, lamps
<1>9. ASSUME NEW l \in Lamp, Poll(l) PROVE Control'
  BY <1>0, <1>9 DEF Poll, Control, bus, ring
<1>10. ASSUME NEW l \in Lamp, RestartTimer(l) PROVE Control'
  BY <1>0, <1>10 DEF RestartTimer, Control, bus, ring
<1>11. CASE Tick
  BY <1>0, <1>11 DEF Tick, Control, bus, ring
<1>12. ASSUME NEW m \in Message, PostMessage(m) PROVE Control'
  BY <1>0, <1>12 DEF PostMessage, Bus!Post, Control, ring, lamps
<1>13. CASE UNCHANGED vars
  BY <1>0, <1>13 DEF vars, Control, bus, ring, lamps
<1> QED
  BY <1>1, <1>2, <1>3, <1>4, <1>5, <1>6, <1>7, <1>8, <1>9, <1>10, <1>11, <1>12, <1>13
     DEF Next, Processor

(* A lamp is only switched on once it has been counted among the blinking. *)
LEMMA PinsStep ==
    ASSUME TypeOK, FirstOff, [Next]_vars
    PROVE  Pins' /\ FirstOff' /\ toggleflag' \in [Lamp -> BOOLEAN]
<1>0. Pins /\ Control /\ toggleflag \in [Lamp -> BOOLEAN] /\ Ring!RingInv
  BY TypeParts
<1>1. CASE UNCHANGED <<toggleflag, PORTB, blinking>> /\ pc # "restart"
  BY <1>0, <1>1 DEF Pins, FirstOff
<1>2. ASSUME NEW l \in Lamp, Poll(l)
      PROVE  Pins' /\ FirstOff' /\ toggleflag' \in [Lamp -> BOOLEAN]
  <2>1. UNCHANGED <<blinking, reg, pCur>> /\ pc = "task" /\ l = reg[pCur]
    BY <1>2 DEF Poll, ring
  <2>2. CASE UNCHANGED <<PORTB, toggleflag>>
    BY <1>0, <2>1, <2>2 DEF Pins, FirstOff
  <2>3. CASE /\ Toggle(l, toggleflag[l])
             /\ toggleflag' = [toggleflag EXCEPT ![l] = ~@]
             /\ pc' = "restart"
    <3>1. PORTB' \subseteq PORTB \cup {l} /\ (toggleflag[l] = FALSE => PORTB' \subseteq PORTB)
      BY <2>3 DEF Toggle
    <3>2. toggleflag[l] = TRUE => l \in blinking
      BY <2>1 DEF FirstOff
    <3>3. toggleflag[l] \in BOOLEAN
      BY <1>0
    <3>4. Pins'
      BY <1>0, <2>1, <3>1, <3>2, <3>3 DEF Pins
    <3>5. toggleflag' \in [Lamp -> BOOLEAN]
      BY <1>0, <2>3
    <3>6. ASSUME NEW j \in Lamp, toggleflag'[j]
          PROVE  j \in blinking' \/ (pc' = "restart" /\ j = reg'[pCur'])
      <4>1. CASE j = l
        BY <2>1, <2>3, <4>1
      <4>2. CASE j # l
        <5>1. toggleflag[j]
          BY <1>0, <2>3, <3>6, <4>2
        <5> QED
          BY <2>1, <5>1 DEF FirstOff
      <4> QED
        BY <4>1, <4>2
    <3>7. FirstOff'
      BY <3>6 DEF FirstOff
    <3> QED
      BY <3>4, <3>5, <3>7
  <2> QED
    BY <1>2, <2>2, <2>3 DEF Poll
<1>3. ASSUME NEW l \in Lamp, RestartTimer(l)
      PROVE  Pins' /\ FirstOff' /\ toggleflag' \in [Lamp -> BOOLEAN]
  <2>1. UNCHANGED <<toggleflag, PORTB, reg, pCur>> /\ l = reg[pCur]
        /\ blinking' = blinking \cup {l}
    BY <1>3 DEF RestartTimer, ring
  <2> QED
    BY <1>0, <2>1 DEF Pins, FirstOff
<1>4. CASE UNCHANGED <<toggleflag, PORTB, blinking, pc, reg, pCur>>
  BY <1>0, <1>4 DEF Pins, FirstOff
<1>5. \/ UNCHANGED <<toggleflag, PORTB, blinking>> /\ pc # "restart"
      \/ UNCHANGED <<toggleflag, PORTB, blinking, pc, reg, pCur>>
      \/ \E l \in Lamp : Poll(l) \/ RestartTimer(l)
  BY DEF Next, Processor, vars, lamps, ring, Start, UserInitReturns, TakeMessage,
         MessageDone, NoMessageYet, MessageLoopReturns, Dispatch, NoTask, TaskReturns,
         Tick, PostMessage
<1> QED
  BY <1>1, <1>2, <1>3, <1>4, <1>5

(* All the kernel does to the ring are the ring's own steps.               *)
LEMMA RingIsStepped ==
    ASSUME [Next]_vars
    PROVE  \/ \E l \in Lamp : Ring!RegisterTaskHandler(l)
           \/ Ring!LoopCall \/ Ring!LoopReturn \/ UNCHANGED ring
BY DEF Next, Processor, vars, ring, Start, UserInitReturns, TakeMessage, MessageDone,
       NoMessageYet, MessageLoopReturns, Dispatch, NoTask, TaskReturns, Poll,
       RestartTimer, Tick, PostMessage

LEMMA TypeStep == ASSUME TypeOK, FirstOff, [Next]_vars PROVE TypeOK'
<1>1. Ring!RingInv'
  BY RingIsStepped, RingSteps, TypeParts
<1>2. (TypeOK <=> Values /\ Control /\ Pins /\ toggleflag \in [Lamp -> BOOLEAN]
                   /\ Ring!RingInv)'
  BY TypeParts, PTL
<1> QED
  BY <1>1, <1>2, ValuesStep, ControlStep, PinsStep

(* Start gives a lamp a node only if it has none, and only lamps that have *)
(* a node are polled.                                                      *)
LEMMA NodesStep == ASSUME TypeOK, OneNodeEach, [Next]_vars PROVE OneNodeEach'
<1>0. /\ reg \in Seq(Lamp) /\ Len(reg) \in Nat
      /\ pCur \in 0..Len(reg) /\ (inCall => pCur \in 1..Len(reg))
  BY RingFacts, TypeParts, LampCount
<1>1. ASSUME NEW l \in Lamp, Start(l) PROVE OneNodeEach'
  <2>1. reg' = Append(reg, l) /\ blinking' = blinking
        /\ \A k \in 1..Len(reg) : reg[k] # l
    BY <1>1 DEF Start, Ring!RegisterTaskHandler, lamps
  <2>2. /\ Len(reg') = Len(reg) + 1 /\ reg'[Len(reg) + 1] = l
        /\ \A k \in 1..Len(reg) : reg'[k] = reg[k]
    BY <1>0, <2>1
  <2>3. \A k \in 1..Len(reg') : k \in 1..Len(reg) \/ k = Len(reg) + 1
    BY <1>0, <2>2
  <2>4. 1..Len(reg) \subseteq 1..Len(reg')
    BY <1>0, <2>2
  <2> QED
    BY <2>1, <2>2, <2>3, <2>4 DEF OneNodeEach
<1>2. ASSUME NEW l \in Lamp, RestartTimer(l) PROVE OneNodeEach'
  <2>1. reg' = reg /\ blinking' = blinking \cup {l} /\ l = reg[pCur] /\ pc = "restart"
    BY <1>2 DEF RestartTimer, ring
  <2>2. pCur \in 1..Len(reg)
    BY <1>0, <2>1, TypeParts DEF Control
  <2> QED
    BY <2>1, <2>2 DEF OneNodeEach
<1>3. CASE UNCHANGED <<reg, blinking>>
  BY <1>3 DEF OneNodeEach
<1>4. \/ \E l \in Lamp : Start(l) \/ RestartTimer(l)
      \/ UNCHANGED <<reg, blinking>>
  BY DEF Next, Processor, vars, ring, lamps, UserInitReturns, TakeMessage, MessageDone,
         NoMessageYet, MessageLoopReturns, Dispatch, Ring!LoopCall, NoTask, TaskReturns,
         Ring!LoopReturn, Poll, Tick, PostMessage
<1> QED
  BY <1>1, <1>2, <1>3, <1>4

(* Every timer counts each millisecond, and Restart starts it from now.    *)
LEMMA CountStep ==
    ASSUME TypeOK, TypeOK', [Next]_vars, NEW l \in Lamp, Timer(l)!CountInv
    PROVE  Timer(l)!CountInv'
<1>0. Values /\ Values'
  <2>1. (TypeOK <=> Values /\ Control /\ Pins /\ toggleflag \in [Lamp -> BOOLEAN]
                     /\ Ring!RingInv)'
    BY TypeParts, PTL
  <2> QED
    BY <2>1, TypeParts
<1>1. since[l] < Modulus =>
        since[l] = IF millis >= tmr[l] THEN millis - tmr[l] ELSE millis - tmr[l] + Modulus
  BY CountMeaning
<1> SUFFICES since'[l] < Modulus =>
               since'[l] = IF millis' >= tmr'[l] THEN millis' - tmr'[l]
                           ELSE millis' - tmr'[l] + Modulus
  BY DEF Timer!CountInv, Timer!Elapsed, Timer!Sub
<1>2. ASSUME NEW j \in Lamp, RestartTimer(j)
      PROVE  since'[l] < Modulus =>
               since'[l] = IF millis' >= tmr'[l] THEN millis' - tmr'[l]
                           ELSE millis' - tmr'[l] + Modulus
  <2>1. millis' = millis /\ tmr' = [tmr EXCEPT ![j] = millis]
        /\ since' = [since EXCEPT ![j] = 0]
    BY <1>2 DEF RestartTimer
  <2>2. CASE j = l
    BY <1>0, <2>1, <2>2, TimeAssumption DEF Values
  <2>3. CASE j # l
    BY <1>0, <1>1, <2>1, <2>3 DEF Values
  <2> QED
    BY <2>2, <2>3
<1>3. CASE Tick
  <2>1. millis' = (IF millis + 1 < Modulus THEN millis + 1 ELSE 0) /\ tmr' = tmr
    BY <1>0, <1>3, NextMillis DEF Tick, Values
  <2>2. since'[l] = IF since[l] = Modulus THEN Modulus ELSE since[l] + 1
    BY <1>3 DEF Tick
  <2>3. /\ millis \in 0..(Modulus - 1) /\ tmr[l] \in 0..(Modulus - 1)
        /\ since[l] \in 0..Modulus
    BY <1>0 DEF Values
  <2> QED
    BY <1>1, <2>1, <2>2, <2>3, TimeAssumption
<1>4. CASE UNCHANGED <<millis, tmr, since>>
  BY <1>1, <1>4
<1>5. \/ \E j \in Lamp : RestartTimer(j)
      \/ Tick
      \/ UNCHANGED <<millis, tmr, since>>
  BY DEF Next, Processor, vars, lamps, Start, UserInitReturns, TakeMessage, MessageDone,
         NoMessageYet, MessageLoopReturns, Dispatch, NoTask, TaskReturns, Poll, PostMessage
<1> QED
  BY <1>2, <1>3, <1>4, <1>5

-----------------------------------------------------------------------------
(* The values of Passed, case by case, and what they are made of.          *)
LEMMA PassedValues ==
    ASSUME TypeOK, NEW k
    PROVE  /\ pc \in {"task", "restart", "return"} /\ pCur # k =>
                Passed(k) = 3 * (wait[k] * MaxLag) + lag
           /\ pc \in {"task", "restart"} /\ pCur = k =>
                Passed(k) = 3 * (Cardinality(Lamp) * MaxLag) + lag
           /\ pc = "return" /\ pCur = k => Passed(k) = lag
           /\ pc = "handler" =>
                Passed(k) = 3 * (wait[k] * MaxLag) + (3 - left) * MaxLag + lag
           /\ pc \in {"init", "mq", "ring"} =>
                Passed(k) = 3 * (wait[k] * MaxLag) + (3 - left) * MaxLag
<1>1. CASE pc \in {"task", "restart", "return"} /\ pCur # k
  BY <1>1 DEF Passed, InTask
<1>2. CASE pc \in {"task", "restart"} /\ pCur = k
  BY <1>2 DEF Passed, InTask
<1>3. CASE pc = "return" /\ pCur = k
  BY <1>3 DEF Passed, InTask
<1>4. CASE pc = "handler"
  BY <1>4 DEF Passed, InTask
<1>5. CASE pc \in {"init", "mq", "ring"}
  BY <1>5 DEF Passed, InTask
<1> QED
  BY <1>1, <1>2, <1>3, <1>4, <1>5, TypeParts DEF Control

LEMMA PassedTerms ==
    ASSUME TypeOK, NEW k \in 1..Len(reg)
    PROVE  /\ wait[k] * MaxLag \in Nat
           /\ Cardinality(Lamp) * MaxLag \in Nat
           /\ wait[k] * MaxLag + MaxLag <= Cardinality(Lamp) * MaxLag
           /\ MaxLag \in Nat /\ lag \in 0..MaxLag
           /\ left = 2 => (3 - left) * MaxLag = MaxLag
           /\ left = 1 => (3 - left) * MaxLag = MaxLag + MaxLag
           /\ left = 0 => (3 - left) * MaxLag = MaxLag + MaxLag + MaxLag
           /\ left = 0 \/ left = 1 \/ left = 2
<1>1. Values /\ wait[k] \in 0..(Cardinality(Lamp) - 1)
  BY TypeParts, RingFacts
<1>2. wait[k] \in Nat /\ wait[k] < Cardinality(Lamp)
  BY <1>1, LampCount
<1>3. /\ wait[k] * MaxLag \in Nat /\ Cardinality(Lamp) * MaxLag \in Nat
      /\ wait[k] * MaxLag + MaxLag <= Cardinality(Lamp) * MaxLag
  BY <1>2, Lags, LampCount
<1>4. MaxLag \in Nat /\ lag \in 0..MaxLag /\ (left = 0 \/ left = 1 \/ left = 2)
  BY <1>1, TimeAssumption DEF Values
<1>5. /\ left = 2 => (3 - left) * MaxLag = MaxLag
      /\ left = 1 => (3 - left) * MaxLag = MaxLag + MaxLag
      /\ left = 0 => (3 - left) * MaxLag = MaxLag + MaxLag + MaxLag
  BY TimeAssumption
<1> QED
  BY <1>3, <1>4, <1>5

(* No more than a round can have passed.                                   *)
LEMMA PassedBound ==
    ASSUME TypeOK, NEW k \in 1..Len(reg)
    PROVE  Passed(k) \in 0..Round
<1> DEFINE a == wait[k] * MaxLag
           c == Cardinality(Lamp) * MaxLag
           f == (3 - left) * MaxLag
<1>1. Control
  BY TypeParts
<1>2. Round = 3 * c + MaxLag
  BY LampCount, TimeAssumption DEF Round
<1>3. /\ a \in Nat /\ c \in Nat /\ a + MaxLag <= c
      /\ MaxLag \in Nat /\ lag \in 0..MaxLag
      /\ f \in Nat /\ f <= MaxLag + MaxLag + MaxLag /\ (left > 0 => f <= MaxLag + MaxLag)
  <2> HIDE DEF a, c, f
  <2>1. /\ left = 2 => f = MaxLag
        /\ left = 1 => f = MaxLag + MaxLag
        /\ left = 0 => f = MaxLag + MaxLag + MaxLag
    BY PassedTerms DEF f
  <2>2. /\ a \in Nat /\ c \in Nat /\ a + MaxLag <= c
        /\ MaxLag \in Nat /\ lag \in 0..MaxLag
        /\ left = 0 \/ left = 1 \/ left = 2
    BY PassedTerms DEF a, c
  <2> QED
    BY <2>1, <2>2
<1>4. /\ pc \in {"task", "restart", "return"} /\ pCur # k => Passed(k) = 3 * a + lag
      /\ pc \in {"task", "restart"} /\ pCur = k => Passed(k) = 3 * c + lag
      /\ pc = "return" /\ pCur = k => Passed(k) = lag
      /\ pc = "handler" => Passed(k) = 3 * a + f + lag
      /\ pc \in {"init", "mq", "ring"} => Passed(k) = 3 * a + f
  BY PassedValues
<1>5. pc = "handler" => left > 0
  BY <1>1 DEF Control
<1> HIDE DEF a, c, f
<1> QED
  BY <1>1, <1>2, <1>3, <1>4, <1>5 DEF Control

(* The terms of Passed, and its values, in a form that can be primed.      *)
Terms(k) ==
    /\ wait[k] * MaxLag \in Nat
    /\ wait[k] * MaxLag + MaxLag <= Cardinality(Lamp) * MaxLag
    /\ left = 2 => (3 - left) * MaxLag = MaxLag
    /\ left = 1 => (3 - left) * MaxLag = MaxLag + MaxLag
    /\ left = 0 => (3 - left) * MaxLag = MaxLag + MaxLag + MaxLag
    /\ left = 0 \/ left = 1 \/ left = 2
    /\ lag \in 0..MaxLag

PassedIs(k) ==
    /\ pc \in {"task", "restart", "return"} /\ pCur # k =>
         Passed(k) = 3 * (wait[k] * MaxLag) + lag
    /\ pc \in {"task", "restart"} /\ pCur = k =>
         Passed(k) = 3 * (Cardinality(Lamp) * MaxLag) + lag
    /\ pc = "return" /\ pCur = k => Passed(k) = lag
    /\ pc = "handler" =>
         Passed(k) = 3 * (wait[k] * MaxLag) + (3 - left) * MaxLag + lag
    /\ pc \in {"init", "mq", "ring"} =>
         Passed(k) = 3 * (wait[k] * MaxLag) + (3 - left) * MaxLag

PassedNodes == \A k \in 1..Len(reg) : Terms(k) /\ PassedIs(k) /\ Passed(k) \in 0..Round

LEMMA PassedFacts == TypeOK => PassedNodes
<1> SUFFICES ASSUME TypeOK, NEW k \in 1..Len(reg)
             PROVE  Terms(k) /\ PassedIs(k) /\ Passed(k) \in 0..Round
  BY DEF PassedNodes
<1>1. Terms(k)
  BY PassedTerms DEF Terms
<1>2. PassedIs(k)
  BY PassedValues DEF PassedIs
<1> QED
  BY <1>1, <1>2, PassedBound

(***************************************************************************)
(* Each step of the loop uses up no more than it is given: what may have   *)
(* passed for node k only falls when k's own timer is found running, or is *)
(* restarted.                                                              *)
(***************************************************************************)
LEMMA PassedStep ==
    ASSUME TypeOK, TypeOK', OneNodeEach, [Next]_vars,
           NEW k \in 1..Len(reg), k \in 1..Len(reg'), pc # "init"
    PROVE  \/ Passed(k)' >= Passed(k) /\ since'[reg[k]] = since[reg[k]]
           \/ Tick /\ Passed(k)' = Passed(k) + 1
           \/ Poll(reg[k]) /\ ~Timer(reg[k])!isExpired
           \/ RestartTimer(reg[k])
<1> DEFINE a  == wait[k] * MaxLag
           aa == wait'[k] * MaxLag
           c  == Cardinality(Lamp) * MaxLag
           f  == (3 - left) * MaxLag
           ff == (3 - left') * MaxLag
           P  == Passed(k)
           PP == Passed(k)'
<1>1. /\ Terms(k) /\ PassedIs(k)
  BY PassedFacts DEF PassedNodes
<1>2. /\ Terms(k)' /\ PassedIs(k)'
  <2>1. (TypeOK => PassedNodes)'
    BY PassedFacts, PTL
  <2> QED
    BY <2>1 DEF PassedNodes
<1>3. /\ a \in Nat /\ a + MaxLag <= c /\ lag \in 0..MaxLag /\ MaxLag \in Nat
      /\ left = 2 => f = MaxLag
      /\ left = 1 => f = MaxLag + MaxLag
      /\ left = 0 => f = MaxLag + MaxLag + MaxLag
      /\ left = 0 \/ left = 1 \/ left = 2
  BY <1>1, TimeAssumption DEF Terms
<1>4. /\ aa \in Nat /\ aa + MaxLag <= c /\ lag' \in 0..MaxLag
      /\ left' = 2 => ff = MaxLag
      /\ left' = 1 => ff = MaxLag + MaxLag
      /\ left' = 0 => ff = MaxLag + MaxLag + MaxLag
  BY <1>2 DEF Terms
<1>5. /\ pc \in {"task", "restart", "return"} /\ pCur # k => P = 3 * a + lag
      /\ pc \in {"task", "restart"} /\ pCur = k => P = 3 * c + lag
      /\ pc = "return" /\ pCur = k => P = lag
      /\ pc = "handler" => P = 3 * a + f + lag
      /\ pc \in {"init", "mq", "ring"} => P = 3 * a + f
  BY <1>1 DEF PassedIs
<1>6. /\ pc' \in {"task", "restart", "return"} /\ pCur' # k => PP = 3 * aa + lag'
      /\ pc' \in {"task", "restart"} /\ pCur' = k => PP = 3 * c + lag'
      /\ pc' = "return" /\ pCur' = k => PP = lag'
      /\ pc' = "handler" => PP = 3 * aa + ff + lag'
      /\ pc' \in {"init", "mq", "ring"} => PP = 3 * aa + ff
  BY <1>2 DEF PassedIs
<1>7. wait'[k] = wait[k] => aa = a
  OBVIOUS
<1>8. wait'[k] = wait[k] + 1 => aa = a + MaxLag
  <2>1. wait[k] \in Nat
    BY RingFacts, TypeParts
  <2> QED
    BY <2>1, Lags
<1>9. Control /\ c \in Int
  BY TypeParts, LampCount, TimeAssumption
<1> DEFINE Kept == PP >= P /\ since'[reg[k]] = since[reg[k]]
<1> HIDE DEF a, aa, c, f, ff, P, PP
<1>10. ASSUME UNCHANGED <<pc, pCur, left, lag, since>>, wait'[k] = wait[k] PROVE Kept
  <2>1. aa = a /\ (left = left' => ff = f)
    BY <1>7, <1>10 DEF f, ff
  <2> QED
    BY <1>3, <1>5, <1>6, <1>9, <1>10, <2>1 DEF Control
<1>11. ASSUME TakeMessage PROVE Kept
  <2>1. pc = "mq" /\ pc' = "handler" /\ lag' = 0 /\ UNCHANGED <<wait, left, since>>
    BY <1>11 DEF TakeMessage, ring, lamps
  <2> QED
    BY <1>3, <1>4, <1>5, <1>6, <1>7, <2>1
<1>12. ASSUME MessageDone PROVE Kept
  <2>1. pc = "handler" /\ pc' = "mq" /\ left' = left - 1 /\ UNCHANGED <<wait, since>>
    BY <1>12 DEF MessageDone, ring, lamps
  <2>2. left > 0
    BY <1>9, <2>1 DEF Control
  <2> QED
    BY <1>3, <1>4, <1>5, <1>6, <1>7, <2>1, <2>2
<1>13. ASSUME NoMessageYet PROVE Kept
  <2>1. pc = "mq" /\ pc' = "mq" /\ left > 0 /\ left' = left - 1 /\ UNCHANGED <<wait, since>>
    BY <1>13 DEF NoMessageYet, ring, lamps
  <2> QED
    BY <1>3, <1>4, <1>5, <1>6, <1>7, <2>1
<1>14. ASSUME MessageLoopReturns PROVE Kept
  <2>1. pc = "mq" /\ pc' = "ring" /\ UNCHANGED <<wait, since, left>>
    BY <1>14 DEF MessageLoopReturns, ring, lamps
  <2> QED
    BY <1>3, <1>4, <1>5, <1>6, <1>7, <2>1
<1>15. ASSUME Dispatch PROVE Kept
  <2>1. pc = "ring" /\ pc' = "task" /\ lag' = 0 /\ UNCHANGED since /\ left = 0
    BY <1>9, <1>15 DEF Dispatch, lamps, Control
  <2>2. wait'[k] = (IF k = pCur' THEN 0 ELSE wait[k] + 1)
    BY <1>15 DEF Dispatch, Ring!LoopCall, Ring!Nodes
  <2> QED
    BY <1>3, <1>4, <1>5, <1>6, <1>8, <1>9, <2>1, <2>2
<1>16. ASSUME TaskReturns PROVE Kept
  <2>1. pc = "return" /\ pc' = "mq" /\ left' = 2 /\ UNCHANGED <<wait, since>>
    BY <1>16 DEF TaskReturns, Ring!LoopReturn, EnterLoop, lamps
  <2> QED
    BY <1>3, <1>4, <1>5, <1>6, <1>7, <2>1
<1>17. ASSUME NEW l \in Lamp, Poll(l)
       PROVE  Kept \/ (Poll(reg[k]) /\ ~Timer(reg[k])!isExpired)
  <2>1. /\ pc = "task" /\ l = reg[pCur] /\ UNCHANGED <<pCur, wait, since, lag>>
        /\ pc' \in {"restart", "return"}
        /\ pc' = "return" => ~Timer(l)!isExpired
    BY <1>17 DEF Poll, ring
  <2>2. CASE pCur = k /\ pc' = "return"
    BY <1>17, <2>1, <2>2
  <2>3. CASE pCur # k \/ pc' = "restart"
    BY <1>3, <1>4, <1>5, <1>6, <1>7, <1>9, <2>1, <2>3
  <2> QED
    BY <2>1, <2>2, <2>3
<1>18. ASSUME NEW l \in Lamp, RestartTimer(l)
       PROVE  Kept \/ RestartTimer(reg[k])
  <2>1. /\ pc = "restart" /\ l = reg[pCur] /\ UNCHANGED <<pCur, wait, lag>>
        /\ pc' = "return" /\ since' = [since EXCEPT ![l] = 0]
    BY <1>18 DEF RestartTimer, ring
  <2>2. CASE pCur = k
    BY <1>18, <2>1, <2>2
  <2>3. CASE pCur # k
    <3>1. pCur \in 1..Len(reg) /\ \A j \in 1..Len(reg) : reg[j] \in Lamp
      BY <2>1, RingFacts, TypeParts DEF Control
    <3>2. reg[k] # l
      BY <2>1, <2>3, <3>1 DEF OneNodeEach
    <3>3. since'[reg[k]] = since[reg[k]]
      BY <2>1, <3>1, <3>2, TypeParts DEF Values
    <3> QED
      BY <1>3, <1>4, <1>5, <1>6, <1>7, <2>1, <2>3, <3>3
  <2> QED
    BY <2>2, <2>3
<1>19. CASE Tick
  <2>1. /\ pc \in {"handler", "task", "restart", "return"} /\ lag' = lag + 1
        /\ UNCHANGED <<pc, pCur, wait, left>>
    BY <1>19 DEF Tick, InTask, ring
  <2>2. aa = a /\ ff = f
    BY <1>7, <2>1 DEF f, ff
  <2>3. PP = P + 1
    BY <1>3, <1>5, <1>6, <1>9, <2>1, <2>2
  <2> QED
    BY <1>19, <2>3 DEF P, PP
<1>20. ASSUME NEW l \in Lamp, Start(l)
       PROVE  UNCHANGED <<pc, pCur, left, lag, since>> /\ wait'[k] = wait[k]
  <2>1. wait \in Seq(Nat) /\ Len(wait) = Len(reg)
    BY RingFacts, TypeParts
  <2>2. wait' = Append(wait, 0) /\ UNCHANGED <<pc, pCur, left, lag, since>>
    BY <1>20 DEF Start, Ring!RegisterTaskHandler, lamps
  <2> QED
    BY <2>1, <2>2
<1>21. (\E m \in Message : PostMessage(m)) \/ UNCHANGED vars =>
         UNCHANGED <<pc, pCur, left, lag, since>> /\ wait'[k] = wait[k]
  BY DEF PostMessage, vars, ring, lamps
<1>22. ~UserInitReturns /\ ~NoTask
  BY DEF UserInitReturns, NoTask
<1>23. Kept => Passed(k)' >= Passed(k) /\ since'[reg[k]] = since[reg[k]]
  BY DEF P, PP
<1> QED
  BY <1>10, <1>11, <1>12, <1>13, <1>14, <1>15, <1>16, <1>17, <1>18, <1>19, <1>20,
     <1>21, <1>22, <1>23 DEF Next, Processor

(* Which steps change a node, or make a lamp one of the blinking.          *)
LEMMA NodeFrame ==
    ASSUME TypeOK, OneNodeEach, [Next]_vars, NEW k \in 1..Len(reg'),
           reg'[k] \in blinking'
    PROVE  /\ k \in 1..Len(reg) /\ reg'[k] = reg[k] /\ reg[k] \in Lamp
           /\ pc # "init"
           /\ reg[k] \in blinking \/ RestartTimer(reg[k])
<1>0. /\ reg \in Seq(Lamp) /\ Len(reg) \in Nat /\ Control
      /\ \A j \in 1..Len(reg) : reg[j] \in Lamp
  BY RingFacts, TypeParts, LampCount
<1>1. \/ UNCHANGED blinking
      \/ \E l \in Lamp : RestartTimer(l) /\ blinking' = blinking \cup {l}
  BY DEF Next, Processor, vars, lamps, Start, UserInitReturns, TakeMessage, MessageDone,
         NoMessageYet, MessageLoopReturns, Dispatch, NoTask, TaskReturns, Poll,
         RestartTimer, Tick, PostMessage
<1>2. ASSUME NEW l \in Lamp, Start(l) PROVE k \in 1..Len(reg) /\ reg'[k] = reg[k]
  <2>1. reg' = Append(reg, l) /\ blinking' = blinking
        /\ \A j \in 1..Len(reg) : reg[j] # l
    BY <1>2 DEF Start, Ring!RegisterTaskHandler, lamps
  <2>2. l \notin blinking
    BY <2>1 DEF OneNodeEach
  <2>3. k # Len(reg) + 1
    BY <1>0, <2>1, <2>2
  <2> QED
    BY <1>0, <2>1, <2>3
<1>3. UNCHANGED reg \/ \E l \in Lamp : Start(l)
  BY DEF Next, Processor, vars, ring, UserInitReturns, TakeMessage, MessageDone,
         NoMessageYet, MessageLoopReturns, Dispatch, Ring!LoopCall, NoTask, TaskReturns,
         Ring!LoopReturn, Poll, RestartTimer, Tick, PostMessage
<1>4. k \in 1..Len(reg) /\ reg'[k] = reg[k]
  BY <1>2, <1>3
<1>5. reg[k] \in blinking \/ RestartTimer(reg[k])
  BY <1>1, <1>4
<1>6. pc # "init"
  BY <1>0, <1>5 DEF Control, RestartTimer
<1> QED
  BY <1>0, <1>4, <1>5, <1>6

(* No step lets a blinking lamp wait for longer than it may.               *)
LEMMA PaceStep == ASSUME KernelInv, TypeOK', [Next]_vars PROVE Pace'
<1> SUFFICES ASSUME NEW k \in 1..Len(reg'), reg'[k] \in blinking',
                    Timeout[reg'[k]] + Round < Modulus
             PROVE  since'[reg'[k]] <= Timeout[reg'[k]] + Passed(k)'
  BY DEF Pace
<1>1. TypeOK /\ OneNodeEach /\ Pace /\ \A l \in Lamp : Timer(l)!CountInv
  BY DEF KernelInv
<1>2. /\ k \in 1..Len(reg) /\ reg'[k] = reg[k] /\ reg[k] \in Lamp
      /\ pc # "init"
      /\ reg[k] \in blinking \/ RestartTimer(reg[k])
  BY <1>1, NodeFrame
<1>3. PICK l \in Lamp : l = reg[k]
  BY <1>2
<1>4. Timeout[l] \in Nat /\ since[l] \in 0..Modulus /\ Values
  BY LampAssumption, <1>1, TypeParts DEF Values
<1>5. Passed(k) \in 0..Round /\ Passed(k)' \in 0..Round
  <2>1. (TypeOK => PassedNodes)'
    BY PassedFacts, PTL
  <2> QED
    BY <1>1, <1>2, <2>1, PassedFacts DEF PassedNodes
<1>6. Round \in Int
  BY LampCount, TimeAssumption DEF Round
<1> SUFFICES since'[l] <= Timeout[l] + Passed(k)'
  BY <1>2, <1>3
<1>7. CASE RestartTimer(l)
  <2>1. since'[l] = 0
    BY <1>4, <1>7 DEF RestartTimer, Values
  <2> QED
    BY <1>4, <1>5, <1>6, <2>1
<1>8. CASE ~RestartTimer(l)
  <2>1. since[l] <= Timeout[l] + Passed(k)
    BY <1>1, <1>2, <1>3, <1>8 DEF Pace
  <2>2. CASE Passed(k)' >= Passed(k) /\ since'[l] = since[l]
    BY <1>4, <1>5, <1>6, <2>1, <2>2
  <2>3. CASE Tick /\ Passed(k)' = Passed(k) + 1
    <3>1. since'[l] <= since[l] + 1
      BY <1>4, <2>3, TimeAssumption DEF Tick
    <3>2. since'[l] \in 0..Modulus
      BY <1>4, <2>3, TimeAssumption DEF Tick
    <3> QED
      BY <1>4, <1>5, <1>6, <2>1, <2>3, <3>1, <3>2, TimeAssumption
  <2>4. CASE Poll(l) /\ ~Timer(l)!isExpired
    <3>1. since[l] < Modulus
      BY <1>2, <1>3, <1>4, <1>5, <1>6, <2>1, TimeAssumption
    <3>2. since[l] <= Timeout[l]
      BY <1>1, <2>4, <3>1, PollExact
    <3>3. since'[l] = since[l]
      BY <2>4 DEF Poll
    <3> QED
      BY <1>4, <1>5, <1>6, <3>2, <3>3
  <2> QED
    BY <1>1, <1>2, <1>3, <1>8, <2>2, <2>3, <2>4, PassedStep
<1> QED
  BY <1>7, <1>8

-----------------------------------------------------------------------------
(* Static construction: nothing runs, nothing waits and nothing blinks.    *)
LEMMA InitKernelInv == Init => KernelInv
<1> SUFFICES ASSUME Init PROVE KernelInv
  OBVIOUS
<1>1. Ring!RingInv
  <2>1. RingProofs!Init
    BY DEF Init, Ring!Init, RingProofs!Init
  <2> QED
    BY <2>1, LampCount, RingProofs!InitRingInv, SameRing
<1>2. Values
  BY TimeAssumption DEF Init, Bus!Init, Values
<1>3. Control
  BY DEF Init, Bus!Init, Ring!Init, Control
<1>4. Pins /\ toggleflag \in [Lamp -> BOOLEAN]
  BY DEF Init, Pins
<1>5. TypeOK
  BY <1>1, <1>2, <1>3, <1>4, TypeParts
<1>6. OneNodeEach /\ FirstOff /\ Pace
  BY DEF Init, Ring!Init, OneNodeEach, FirstOff, Pace
<1>7. ASSUME NEW l \in Lamp PROVE Timer(l)!CountInv
  <2>1. since[l] = 0 /\ tmr[l] = millis /\ millis \in Nat
    BY TimeAssumption DEF Init
  <2> QED
    BY <1>5, <2>1, CountMeaning
<1> QED
  BY <1>5, <1>6, <1>7 DEF KernelInv

LEMMA NextKernelInv == KernelInv /\ [Next]_vars => KernelInv'
<1> SUFFICES ASSUME KernelInv, [Next]_vars PROVE KernelInv'
  OBVIOUS
<1>1. TypeOK /\ OneNodeEach /\ FirstOff /\ \A l \in Lamp : Timer(l)!CountInv
  BY DEF KernelInv
<1>2. TypeOK'
  BY <1>1, TypeStep
<1>3. OneNodeEach' /\ FirstOff' /\ Pace'
  BY <1>1, <1>2, NodesStep, PinsStep, PaceStep
<1>4. ASSUME NEW l \in Lamp PROVE Timer(l)!CountInv'
  BY <1>1, <1>2, CountStep
<1> QED
  BY <1>2, <1>3, <1>4 DEF KernelInv

(***************************************************************************)
(* Queue, ring, timers and pins stay in step with the main loop, and each  *)
(* blinking lamp's count with how far the loop has come since its poll.    *)
(***************************************************************************)
THEOREM InductiveInvariant == Spec => []KernelInv
BY InitKernelInv, NextKernelInv, PTL DEF Spec

(***************************************************************************)
(* The lamps are never late, for any number of lamps and any lag of the    *)
(* handlers: within a round of the ring after its timeout a lamp's timer   *)
(* has been restarted.                                                     *)
(***************************************************************************)
THEOREM LampsNeverLate == Spec => []NeverLate
<1>1. KernelInv => NeverLate
  <2> SUFFICES ASSUME KernelInv, NEW l \in blinking
               PROVE  since[l] <= Timeout[l] + Round
    BY DEF NeverLate
  <2>1. TypeOK /\ OneNodeEach /\ Pace
    BY DEF KernelInv
  <2>2. PICK k \in 1..Len(reg) : reg[k] = l
    BY <2>1 DEF OneNodeEach
  <2>3. l \in Lamp /\ since[l] \in 0..Modulus /\ Timeout[l] \in Nat
    BY <2>1, TypeParts, LampAssumption DEF Pins, Values
  <2>4. Round \in Int /\ Passed(k) \in 0..Round
    BY <2>1, PassedBound, LampCount, TimeAssumption DEF Round
  <2>5. CASE Timeout[l] + Round < Modulus
    <3>1. since[l] <= Timeout[l] + Passed(k)
      BY <2>1, <2>2, <2>5 DEF Pace
    <3> QED
      BY <2>3, <2>4, <3>1
  <2>6. CASE ~(Timeout[l] + Round < Modulus)
    BY <2>3, <2>4, <2>6, TimeAssumption
  <2> QED
    BY <2>5, <2>6
<1> QED
  BY <1>1, InductiveInvariant, PTL

(***************************************************************************)
(* The lamps are never early: a pin only changes in its own lamp's         *)
(* TaskLoop, once the timer has counted more than the timeout.             *)
(***************************************************************************)
THEOREM LampsNeverEarly == Spec => NeverEarly
<1>1. ASSUME KernelInv, [Next]_vars
      PROVE  [\A l \in Lamp : (l \in PORTB) # (l \in PORTB') => since[l] > Timeout[l]]_vars
  <2> SUFFICES ASSUME NEW l \in Lamp, (l \in PORTB) # (l \in PORTB')
               PROVE  since[l] > Timeout[l]
    OBVIOUS
  <2>1. PORTB' # PORTB
    OBVIOUS
  <2>2. PICK j \in Lamp : Poll(j)
    BY <1>1, <2>1 DEF Next, Processor, vars, lamps, Start, UserInitReturns, TakeMessage,
         MessageDone, NoMessageYet, MessageLoopReturns, Dispatch, NoTask, TaskReturns,
         RestartTimer, Tick, PostMessage
  <2>3. Timer(j)!isExpired /\ Toggle(j, toggleflag[j])
    BY <2>1, <2>2 DEF Poll
  <2>4. l = j
    BY <2>3 DEF Toggle
  <2>5. TypeOK /\ Timer(j)!CountInv
    BY <1>1 DEF KernelInv
  <2> QED
    BY <2>3, <2>4, <2>5, PollExact
<1> QED
  BY <1>1, InductiveInvariant, PTL DEF Spec, NeverEarly
=============================================================================
