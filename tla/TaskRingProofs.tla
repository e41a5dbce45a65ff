--------------------------- MODULE TaskRingProofs ---------------------------
(***************************************************************************)
(* TLAPS proofs about the scheduler, for every set of tasks and every      *)
(* bound on the number of nodes.                                           *)
(***************************************************************************)
EXTENDS TaskRing, TLAPS

(* Appending to the history adds one node, on top of the others.            *)
LEMMA AppendNode ==
    ASSUME NEW S, NEW s \in Seq(S), NEW e \in S
    PROVE  /\ Append(s, e) \in Seq(S)
           /\ Len(Append(s, e)) = Len(s) + 1
           /\ \A k \in 1..Len(s) : Append(s, e)[k] = s[k]
           /\ Append(s, e)[Len(s) + 1] = e
  OBVIOUS

(* The initial state, an empty ring, satisfies the inductive invariant.     *)
LEMMA InitRingInv == Init => RingInv
  <1> SUFFICES ASSUME Init PROVE RingInv
    OBVIOUS
  <1>1. reg \in Seq(Task) /\ Len(reg) = 0 /\ Nodes = {}
    BY DEF Init, Nodes
  <1>2. wait \in [Nodes -> Nat]
    BY <1>1 DEF Init
  <1>3. TypeOK
    <2>1. Len(reg) <= MaxNodes /\ pCur \in 0..Len(reg)
      BY <1>1, MaxNodesAssumption DEF Init
    <2>2. inCall \in BOOLEAN /\ alive \in SUBSET Task
      BY DEF Init
    <2> QED BY <1>1, <1>2, <2>1, <2>2 DEF TypeOK
  <1>4. CursorInv
    BY DEF Init, CursorInv
  <1>5. WaitInv
    BY <1>1 DEF WaitInv
  <1> QED BY <1>3, <1>4, <1>5 DEF RingInv

(* RegisterTaskHandler adds a node behind the cursor that has waited for    *)
(* nothing, and only raises the bound of the others.                        *)
LEMMA RegisterRingInv ==
    ASSUME RingInv, NEW t \in Task, RegisterTaskHandler(t)
    PROVE  RingInv'
  <1> USE DEF Nodes
  <1>1. reg' \in Seq(Task) /\ Len(reg') = Len(reg) + 1
    BY AppendNode DEF RingInv, TypeOK, RegisterTaskHandler
  <1>2. wait \in Seq(Nat) /\ Len(wait) = Len(reg)
    BY DEF RingInv, TypeOK
  <1>3. /\ wait' \in Seq(Nat)
        /\ Len(wait') = Len(reg) + 1
        /\ \A k \in 1..Len(reg) : wait'[k] = wait[k]
        /\ wait'[Len(reg) + 1] = 0
    BY <1>2, AppendNode DEF RegisterTaskHandler
  <1>4. TypeOK'
    <2>1. wait' \in [1..Len(reg') -> Nat]
      BY <1>1, <1>3
    <2>2. Len(reg') <= MaxNodes /\ pCur' \in 0..Len(reg')
      BY <1>1, MaxNodesAssumption DEF RingInv, TypeOK, RegisterTaskHandler
    <2>3. inCall' \in BOOLEAN /\ alive' \in SUBSET Task
      BY DEF RingInv, TypeOK, RegisterTaskHandler
    <2> QED BY <1>1, <2>1, <2>2, <2>3 DEF TypeOK
  <1>5. CursorInv'
    BY DEF RingInv, CursorInv, RegisterTaskHandler
  <1>6. Ahead' = Ahead /\ Ahead \in 0..Len(reg)
    BY DEF RingInv, TypeOK, CursorInv, Ahead, RegisterTaskHandler
  <1>7. WaitInv'
    <2>1. ASSUME NEW k \in 1..Len(reg)
          PROVE  wait'[k] <= IF k <= Ahead THEN (k - 1) + (Len(reg') - Ahead)
                                           ELSE (k - 1) - Ahead
      <3>1. wait[k] <= IF k <= Ahead THEN (k - 1) + (Len(reg) - Ahead)
                                     ELSE (k - 1) - Ahead
        BY DEF RingInv, WaitInv
      <3> QED BY <1>1, <1>2, <1>3, <1>6, <3>1
    <2>2. \A k \in 1..Len(reg') : k \in 1..Len(reg) \/ k = Len(reg) + 1
      BY <1>1, <1>2
    <2>3. ASSUME NEW k \in 1..Len(reg'), k = Len(reg) + 1
          PROVE  wait'[k] <= IF k <= Ahead THEN (k - 1) + (Len(reg') - Ahead)
                                           ELSE (k - 1) - Ahead
      BY <1>2, <1>3, <1>6, <2>3
    <2>4. \A k \in 1..Len(reg') :
             wait'[k] <= IF k <= Ahead' THEN (k - 1) + (Len(reg') - Ahead')
                                        ELSE (k - 1) - Ahead'
      BY <1>6, <2>1, <2>2, <2>3
    <2> QED BY <2>4 DEF WaitInv
  <1> QED BY <1>4, <1>5, <1>7 DEF RingInv

(* A destroyed task leaves the ring as it was.                              *)
LEMMA DestroyRingInv ==
    ASSUME RingInv, NEW t \in Task, DestroyTask(t)
    PROVE  RingInv'
  BY DEF RingInv, TypeOK, CursorInv, WaitInv, Nodes, Ahead, DestroyTask,
         DeregisterTaskHandler

(* A dispatch moves the cursor one node down, wrapping to the head first    *)
(* when it was at the end, and every other node waits one dispatch more.    *)
LEMMA LoopCallRingInv ==
    ASSUME RingInv, LoopCall
    PROVE  RingInv'
  <1> USE DEF Nodes
  <1>1. ResumePoint \in 1..Len(reg)
    BY DEF RingInv, TypeOK, LoopCall, ResumePoint, pHead
  <1>2. TypeOK' /\ CursorInv'
    BY <1>1 DEF RingInv, TypeOK, CursorInv, LoopCall
  <1>3. Ahead = pCur /\ Ahead' = ResumePoint - 1
    BY <1>1 DEF RingInv, TypeOK, Ahead, LoopCall
  <1>4. ASSUME NEW k \in 1..Len(reg)
        PROVE  wait'[k] <= IF k <= Ahead' THEN (k - 1) + (Len(reg) - Ahead')
                                          ELSE (k - 1) - Ahead'
    <2>1. wait[k] \in Nat /\ pCur \in 0..Len(reg) /\ Len(reg) \in Nat
      BY DEF RingInv, TypeOK
    <2>2. wait[k] <= IF k <= pCur THEN (k - 1) + (Len(reg) - pCur)
                                  ELSE (k - 1) - pCur
      BY <1>3 DEF RingInv, WaitInv
    <2>3. wait'[k] = IF k = ResumePoint THEN 0 ELSE wait[k] + 1
      BY DEF LoopCall
    <2>4. CASE pCur = 0
      BY <1>3, <2>1, <2>2, <2>3, <2>4 DEF ResumePoint, pHead
    <2>5. CASE pCur # 0
      BY <1>3, <2>1, <2>2, <2>3, <2>5 DEF ResumePoint
    <2> QED BY <2>4, <2>5
  <1>5. WaitInv'
    BY <1>4 DEF WaitInv, LoopCall
  <1> QED BY <1>2, <1>5 DEF RingInv

(* The return from a call moves pCur to where Ahead already was.            *)
LEMMA LoopReturnRingInv ==
    ASSUME RingInv, LoopReturn
    PROVE  RingInv'
  <1>1. Ahead' = Ahead /\ pCur' \in 0..Len(reg)
    BY DEF RingInv, TypeOK, CursorInv, Ahead, LoopReturn
  <1> QED
    BY <1>1 DEF RingInv, TypeOK, CursorInv, WaitInv, Nodes, LoopReturn

(* Every step of the scheduler keeps the inductive invariant.               *)
LEMMA NextRingInv == RingInv /\ [Next]_vars => RingInv'
  <1> SUFFICES ASSUME RingInv, [Next]_vars PROVE RingInv'
    OBVIOUS
  <1>1. CASE UNCHANGED vars
    BY <1>1 DEF vars, RingInv, TypeOK, CursorInv, WaitInv, Nodes, Ahead
  <1>2. CASE Next
    BY <1>2, RegisterRingInv, DestroyRingInv, LoopCallRingInv, LoopReturnRingInv DEF Next
  <1> QED BY <1>1, <1>2

(* The type invariant and the waiting bounds hold in every reachable state. *)
THEOREM InductiveInvariant == Spec => []RingInv
  BY InitRingInv, NextRingInv, PTL DEF Spec

(***************************************************************************)
(* The scheduler is round robin: in a ring of n nodes, a node is passed    *)
(* over fewer than n times between two of its dispatches, and before its   *)
(* first one, whatever tasks are registered in the meantime.               *)
(***************************************************************************)
THEOREM RoundRobin == Spec => []BoundedWait
  <1>1. RingInv => BoundedWait
    BY DEF RingInv, TypeOK, CursorInv, WaitInv, BoundedWait, Nodes, Ahead
  <1> QED BY <1>1, InductiveInvariant, PTL

=============================================================================
