------------------------------- MODULE OSTimer -------------------------------
(***************************************************************************)
(* The polled software timer of the kernel (kernel/ostimer.cpp). Times are *)
(* unsigned longs, so millis() and all arithmetic wrap around.             *)
(***************************************************************************)
EXTENDS Integers

CONSTANTS
    Modulus,  \* 2^32 on the AVR: the number of values of an unsigned long
    Timeouts  \* the timeouts the application sets

ASSUME ModulusAssumption == Modulus \in Nat \ {0}
ASSUME TimeoutAssumption == Timeouts \subseteq 0..(Modulus - 1)

VARIABLES
    millis, \* what millis() returns
    tmr, time, freeze, frozen, \* the members of the class
    ran,    \* history: ms this timer should have counted since it was (re)started
    paused  \* history: it has been frozen and not thawed since

vars == <<millis, tmr, time, freeze, frozen, ran, paused>>

ULong == 0..(Modulus - 1)

(* Addition and subtraction of unsigned longs, modulo 2^32.                 *)
Add(a, b) == IF a + b < Modulus THEN a + b ELSE a + b - Modulus
Sub(a, b) == IF a >= b THEN a - b ELSE a - b + Modulus

(* ran stops at Modulus, which stands for that many ms or more, or for a    *)
(* count that was lost by a call that the members cannot keep track of.     *)
TypeOK ==
    /\ millis \in ULong /\ tmr \in ULong /\ freeze \in ULong /\ time \in ULong
    /\ frozen \in {0, 1}
    /\ ran \in 0..Modulus /\ paused \in BOOLEAN

(* The constructor. It may run at any time.                                 *)
Init ==
    /\ millis \in ULong
    /\ tmr = millis
    /\ time \in Timeouts
    /\ freeze = 0 /\ frozen = 0
    /\ ran = 0 /\ paused = FALSE

Elapsed == Sub(millis, tmr)

(* Mutant: the comparison of absolute times, which is wrong at the wrap.    *)
MutIsExpired == millis > tmr + time

isExpired == Elapsed > time

Tick ==
    /\ millis' = Add(millis, 1)
    /\ ran' = IF paused \/ ran = Modulus THEN ran ELSE ran + 1
    /\ UNCHANGED <<tmr, time, freeze, frozen, paused>>

(* A new count. In a pause it is lost: freeze is still the old pause's.     *)
Restart ==
    /\ tmr' = millis
    /\ ran' = IF paused THEN Modulus ELSE 0
    /\ UNCHANGED <<millis, time, freeze, frozen, paused>>

Set(timeout) ==
    /\ time' = timeout /\ tmr' = millis
    /\ ran' = IF paused THEN Modulus ELSE 0
    /\ UNCHANGED <<millis, freeze, frozen, paused>>

(* A second Freeze forgets when the pause began.                            *)
Freeze ==
    /\ freeze' = millis /\ frozen' = 1
    /\ paused' = TRUE
    /\ ran' = IF paused THEN Modulus ELSE ran
    /\ UNCHANGED <<millis, tmr, time>>

(* Mutant: the timer is restarted instead of moved on.                      *)
MutThaw ==
    /\ tmr' = IF frozen # 0 THEN freeze ELSE tmr
    /\ paused' = FALSE
    /\ ran' = IF ~paused /\ frozen # 0 THEN Modulus ELSE ran
    /\ UNCHANGED <<millis, time, freeze, frozen>>

(* frozen stays set, so a later Thaw that ends no pause moves tmr again.    *)
Thaw ==
    /\ tmr' = Add(tmr, IF frozen # 0 THEN Sub(millis, freeze) ELSE 0)
    /\ paused' = FALSE
    /\ ran' = IF ~paused /\ frozen # 0 THEN Modulus ELSE ran
    /\ UNCHANGED <<millis, time, freeze, frozen>>

(* The calls come in any order.                                             *)
Next ==
    \/ Tick
    \/ Restart \/ (\E t \in Timeouts : Set(t)) \/ Freeze \/ Thaw

Spec == Init /\ [][Next]_vars

-----------------------------------------------------------------------------
(***************************************************************************)
(* A running timer that is polled within 2^32 ms of its start has expired  *)
(* exactly when it has counted more than its timeout, not counting the     *)
(* time it was frozen, also across the wrap-around of millis(). The calls  *)
(* that lose the count are a Restart, Set or Freeze in a pause, and a Thaw *)
(* that ends none after the first; the next Restart or Set of the running  *)
(* timer makes it exact again, whatever freeze and frozen still hold.      *)
(***************************************************************************)
ExpiryExact == ~paused /\ ran < Modulus => (isExpired <=> ran > time)

(* ExpiryExact made inductive: what tmr and freeze record.                  *)
CountInv ==
    /\ ~paused /\ ran < Modulus => Elapsed = ran
    /\ paused => frozen = 1 /\ (ran < Modulus => Sub(freeze, tmr) = ran)

TimerInv == TypeOK /\ CountInv
=============================================================================
