---------------------------- MODULE OSTimerProofs ----------------------------
(***************************************************************************)
(* TLAPS proofs about the timer, for every width of the unsigned long and  *)
(* every set of timeouts.                                                  *)
(***************************************************************************)
EXTENDS OSTimer, TLAPS

(* The wrapping operations stay inside the unsigned longs.                  *)
LEMMA AddSubType ==
    ASSUME NEW a \in ULong, NEW b \in ULong
    PROVE  Add(a, b) \in ULong /\ Sub(a, b) \in ULong
  BY ModulusAssumption DEF Add, Sub, ULong

(* Moving tmr on by the length of a pause takes the pause out of the count. *)
LEMMA PauseCancels ==
    ASSUME NEW m \in ULong, NEW f \in ULong, NEW t \in ULong
    PROVE  Sub(m, Add(t, Sub(m, f))) = Sub(f, t)
  BY ModulusAssumption DEF Add, Sub, ULong

(* One more millisecond is one more in the difference, until it wraps.      *)
LEMMA TickCounts ==
    ASSUME NEW m \in ULong, NEW t \in ULong, Sub(m, t) + 1 < Modulus, 1 \in ULong
    PROVE  Sub(Add(m, 1), t) = Sub(m, t) + 1
  BY ModulusAssumption DEF Add, Sub, ULong

(* A constructed timer has counted nothing.                                 *)
LEMMA InitTimerInv == Init => TimerInv
  <1> SUFFICES ASSUME Init PROVE TimerInv
    OBVIOUS
  <1>1. TypeOK
    <2>1. paused \in BOOLEAN
      BY DEF Init
    <2>2. time \in ULong
      BY TimeoutAssumption DEF Init, ULong
    <2> QED BY <2>1, <2>2, ModulusAssumption DEF Init, TypeOK, ULong
  <1>2. ~paused /\ ran = 0 /\ tmr = millis /\ millis \in ULong
    BY DEF Init
  <1>3. CountInv
    BY <1>2, ModulusAssumption DEF CountInv, Elapsed, Sub, ULong
  <1> QED BY <1>1, <1>3 DEF TimerInv

(* A millisecond is counted by a running timer and not by a frozen one.     *)
LEMMA TickTimerInv == ASSUME TimerInv, Tick PROVE TimerInv'
  <1>1. TypeOK'
    <2>1. paused' \in BOOLEAN /\ frozen' \in {0, 1}
      BY DEF TimerInv, TypeOK, Tick
    <2>2. millis' \in ULong
      BY ModulusAssumption DEF TimerInv, TypeOK, Tick, Add, ULong
    <2>3. ran' \in 0..Modulus
      BY ModulusAssumption DEF TimerInv, TypeOK, Tick
    <2> QED BY <2>1, <2>2, <2>3 DEF TimerInv, TypeOK, Tick
  <1>2. CASE paused
    BY <1>1, <1>2 DEF TimerInv, CountInv, Tick
  <1>3. CASE ~paused
    <2>1. ~paused'
      BY <1>3 DEF Tick
    <2>2. ASSUME ran' < Modulus PROVE Elapsed' = ran'
      <3>1. ran' = ran + 1 /\ ran < Modulus /\ ran \in Nat
        BY <1>3, <2>2, ModulusAssumption DEF TimerInv, TypeOK, Tick
      <3>2. Sub(millis, tmr) = ran
        BY <1>3, <3>1 DEF TimerInv, CountInv, Elapsed
      <3>3. 1 \in ULong
        BY <2>2, <3>1, ModulusAssumption DEF ULong
      <3>4. Sub(Add(millis, 1), tmr) = ran + 1
        BY <2>2, <3>1, <3>2, <3>3, TickCounts DEF TimerInv, TypeOK
      <3> QED BY <3>1, <3>4 DEF Elapsed, Tick
    <2> QED BY <1>1, <2>1, <2>2 DEF TimerInv, CountInv
  <1> QED BY <1>2, <1>3

(* Set and Restart begin a new count at zero, or lose it in a pause.        *)
LEMMA RestartTimerInv ==
    ASSUME TimerInv, Restart \/ \E t \in Timeouts : Set(t)
    PROVE  TimerInv'
  <1>1. /\ paused' = paused /\ tmr' = millis /\ millis' = millis
        /\ freeze' = freeze /\ frozen' = frozen
        /\ ran' = IF paused THEN Modulus ELSE 0
    BY DEF Restart, Set
  <1>2. time' \in ULong
    BY TimeoutAssumption DEF TimerInv, TypeOK, ULong, Restart, Set
  <1>3. TypeOK'
    <2>1. paused' \in BOOLEAN
      BY <1>1 DEF TimerInv, TypeOK
    <2>2. ran' \in 0..Modulus
      BY <1>1, ModulusAssumption
    <2> QED BY <1>1, <1>2, <2>1, <2>2 DEF TimerInv, TypeOK
  <1>4. CASE paused
    <2>1. paused' /\ ~(ran' < Modulus) /\ frozen' = 1
      BY <1>1, <1>4, ModulusAssumption DEF TimerInv, CountInv
    <2> QED BY <1>3, <2>1 DEF TimerInv, CountInv
  <1>5. CASE ~paused
    <2>1. ~paused' /\ Elapsed' = ran'
      BY <1>1, <1>3, <1>5, ModulusAssumption DEF TypeOK, Elapsed, Sub, ULong
    <2> QED BY <1>3, <2>1 DEF TimerInv, CountInv
  <1> QED BY <1>4, <1>5

(* Freeze records in freeze and tmr what has been counted so far.           *)
LEMMA FreezeTimerInv == ASSUME TimerInv, Freeze PROVE TimerInv'
  <1>1. ran' \in 0..Modulus
    BY ModulusAssumption DEF TimerInv, TypeOK, Freeze
  <1>2. TypeOK'
    BY <1>1 DEF TimerInv, TypeOK, Freeze
  <1>3. paused' /\ frozen' = 1 /\ freeze' = millis
    BY DEF Freeze
  <1>4. ran' < Modulus => Sub(freeze', tmr') = ran'
    <2>1. CASE paused
      BY <2>1, ModulusAssumption DEF Freeze
    <2>2. CASE ~paused
      BY <1>3, <2>2 DEF TimerInv, CountInv, Elapsed, Freeze
    <2> QED BY <2>1, <2>2
  <1> QED BY <1>2, <1>3, <1>4 DEF TimerInv, CountInv

(* Thaw moves tmr on by the length of the pause, or loses the count.        *)
LEMMA ThawTimerInv == ASSUME TimerInv, Thaw PROVE TimerInv'
  <1>1. CASE frozen = 0
    <2>1. ~paused /\ ~paused' /\ UNCHANGED <<millis, time, freeze, frozen, ran>>
      BY <1>1 DEF TimerInv, CountInv, Thaw
    <2>2. tmr' = tmr
      BY <1>1, ModulusAssumption DEF TimerInv, TypeOK, ULong, Thaw, Add
    <2>3. paused' \in BOOLEAN
      BY DEF Thaw
    <2>4. TypeOK'
      BY <2>1, <2>2, <2>3 DEF TimerInv, TypeOK
    <2>5. CountInv'
      BY <2>1, <2>2 DEF TimerInv, CountInv, Elapsed
    <2> QED BY <2>4, <2>5 DEF TimerInv
  <1>2. CASE frozen # 0
    <2>1. ~paused' /\ ran' = IF paused THEN ran ELSE Modulus
      BY <1>2 DEF Thaw
    <2>2. tmr' = Add(tmr, Sub(millis, freeze))
      BY <1>2 DEF Thaw
    <2>3. ran' \in 0..Modulus
      BY <2>1, ModulusAssumption DEF TimerInv, TypeOK
    <2>4. TypeOK'
      BY <2>2, <2>3, AddSubType DEF TimerInv, TypeOK, Thaw
    <2>5. Elapsed' = Sub(freeze, tmr)
      BY <2>2, PauseCancels DEF TimerInv, TypeOK, Elapsed, Thaw
    <2>6. ran' < Modulus => Elapsed' = ran'
      BY <2>1, <2>5, ModulusAssumption DEF TimerInv, CountInv
    <2> QED BY <2>1, <2>4, <2>6 DEF TimerInv, CountInv
  <1> QED BY <1>1, <1>2

(* Every operation keeps the invariant.                                     *)
LEMMA NextTimerInv == TimerInv /\ [Next]_vars => TimerInv'
  <1> SUFFICES ASSUME TimerInv, [Next]_vars PROVE TimerInv'
    OBVIOUS
  <1>1. CASE UNCHANGED vars
    BY <1>1 DEF vars, TimerInv, TypeOK, CountInv, Elapsed
  <1>2. CASE Next
    BY <1>2, TickTimerInv, RestartTimerInv, FreezeTimerInv, ThawTimerInv DEF Next
  <1> QED BY <1>1, <1>2

(***************************************************************************)
(* What tmr and freeze record of the time counted is right at every moment *)
(* of every order of calls, paused or running, unless a call lost it.      *)
(***************************************************************************)
THEOREM InductiveInvariant == Spec => []TimerInv
  BY InitTimerInv, NextTimerInv, PTL DEF Spec

(***************************************************************************)
(* isExpired is exact: it tells whether the timer has counted more than    *)
(* its timeout, for less than 2^w ms since its start, through any number   *)
(* of pauses and wrap-arounds of millis(). A count lost by a call out of   *)
(* turn is exact again from the next start of the running timer on.        *)
(***************************************************************************)
THEOREM TimerExact == Spec => []ExpiryExact
  <1>1. TimerInv => ExpiryExact
    BY DEF TimerInv, CountInv, ExpiryExact, isExpired
  <1> QED BY <1>1, InductiveInvariant, PTL
=============================================================================
