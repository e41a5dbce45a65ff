----------------------------- MODULE IICProofs -----------------------------
(***************************************************************************)
(* TLAPS proofs about the IIC driver, for transfers of every length and    *)
(* every mixture of acknowledgements, refusals and bus errors.             *)
(***************************************************************************)
EXTENDS IIC, TLAPS

(* The driver's tests of the status distinguish the codes that occur.       *)
LEMMA StatusFacts ==
    ASSUME TypeOK
    PROVE  Masked(TWSR) = TWSR /\ (TWSR \in {0, 8, 16} => (StartSeen <=> TWSR = 8))
  BY DEF TypeOK, Masked, StartSeen

(* A payload is a sequence of at least one byte.                            *)
LEMMA PayloadFacts ==
    ASSUME NEW p \in Payload
    PROVE  p \in Seq(Byte) /\ Len(p) \in Nat \ {0}
  BY LengthAssumption DEF Payload

(* The bytes of the call in progress, and those that have arrived.          *)
LEMMA SequenceFacts ==
    ASSUME IICInv
    PROVE  /\ dbytes \in Seq(Byte) /\ n \in Nat /\ (phase # "idle" => n > 0)
           /\ arrived \in Seq(Byte) /\ Len(arrived) \in Nat
           /\ idx \in Nat
  BY PayloadFacts DEF IICInv, TypeOK, ArrivedInv, n

(* One more byte arrives, and what has arrived is still a prefix.           *)
LEMMA ArrivedGrows ==
    ASSUME NEW S, NEW s \in Seq(S), NEW d \in Seq(S), Len(s) < Len(d),
           \A k \in 1..Len(s) : s[k] = d[k]
    PROVE  LET t == Append(s, d[Len(s) + 1])
           IN  t \in Seq(S) /\ Len(t) = Len(s) + 1 /\ \A k \in 1..Len(t) : t[k] = d[k]
  OBVIOUS

(* No call is in progress in the initial state.                             *)
LEMMA InitIICInv == Init => IICInv
  BY DEF Init, IICInv, TypeOK, IdleInv, StartInv, AddrInv, SendInv, ReceiveInv, StopInv,
         ArrivedInv, n

(* A call begins with a START and nothing moved.                            *)
LEMMA CallIICInv ==
    ASSUME IICInv, NEW f \in {"write", "read"}, NEW p \in Payload, Call(f, p)
    PROVE  IICInv'
  <1>1. TypeOK'
    BY PayloadFacts DEF IICInv, TypeOK, Call, n
  <1>2. ArrivedInv'
    BY DEF Call, ArrivedInv
  <1> QED BY <1>1, <1>2 DEF Call, IICInv, IdleInv, StartInv, AddrInv, SendInv, ReceiveInv, StopInv

(* The START either leads to the address or is the end of the call.         *)
LEMMA StartedIICInv == ASSUME IICInv, Started PROVE IICInv'
  <1>1. TypeOK' /\ ArrivedInv'
    BY DEF IICInv, TypeOK, ArrivedInv, Started, Ready, Wait, n
  <1> QED
    BY <1>1, StatusFacts
       DEF Started, Ready, Wait, IICInv, IdleInv, StartInv, AddrInv, SendInv, ReceiveInv,
           StopInv

(* An acknowledged address leads to the first byte, any other answer to the *)
(* STOP.                                                                    *)
LEMMA AddressedIICInv == ASSUME IICInv, Addressed PROVE IICInv'
  <1> USE DEF Addressed, Ready, Wait, Continue, Send, Receive, BreakOff
  <1>1. n \in Nat /\ n > 0 /\ n' = n /\ dbytes \in Seq(Byte)
    BY SequenceFacts DEF n
  <1>2. TypeOK' /\ ArrivedInv'
    BY <1>1 DEF IICInv, TypeOK, AddrInv, ArrivedInv, n
  <1>3. IdleInv' /\ StartInv' /\ AddrInv'
    BY DEF IdleInv, StartInv, AddrInv
  <1>4. SendInv' /\ ReceiveInv'
    BY <1>1, StatusFacts DEF IICInv, TypeOK, AddrInv, SendInv, ReceiveInv
  <1>5. StopInv'
    BY <1>1, StatusFacts DEF IICInv, TypeOK, AddrInv, StopInv
  <1> QED BY <1>2, <1>3, <1>4, <1>5 DEF IICInv

(* After a byte that was acknowledged the next one is sent, or the STOP.    *)
LEMMA SentIICInv == ASSUME IICInv, Sent PROVE IICInv'
  <1> USE DEF Sent, Ready, Wait, Continue, Send, Receive, BreakOff
  <1>1. n \in Nat /\ n > 0 /\ n' = n /\ dbytes \in Seq(Byte) /\ idx \in Nat
    BY SequenceFacts DEF n
  <1>2. TypeOK' /\ ArrivedInv'
    BY <1>1 DEF IICInv, TypeOK, SendInv, ArrivedInv, n
  <1>3. IdleInv' /\ StartInv' /\ AddrInv'
    BY DEF IdleInv, StartInv, AddrInv
  <1>4. SendInv' /\ ReceiveInv'
    BY <1>1, StatusFacts DEF IICInv, TypeOK, SendInv, ReceiveInv
  <1>5. StopInv'
    BY <1>1, StatusFacts DEF IICInv, TypeOK, SendInv, StopInv
  <1> QED BY <1>2, <1>3, <1>4, <1>5 DEF IICInv

(* A byte that was received is the device's next one.                       *)
LEMMA ReceivedIICInv == ASSUME IICInv, Received PROVE IICInv'
  <1> USE DEF Received, Ready, Wait, Continue, Send, Receive, BreakOff
  <1>1. n \in Nat /\ n > 0 /\ n' = n /\ dbytes \in Seq(Byte) /\ idx \in Nat
    BY SequenceFacts DEF n
  <1>2. TypeOK' /\ ArrivedInv'
    <2>1. CASE TWSR \in {80, 88}
      <3>1. arrived' = Append(arrived, dbytes[Len(arrived) + 1]) /\ Len(arrived) < Len(dbytes)
        BY <2>1, StatusFacts DEF IICInv, ReceiveInv, n
      <3>2. /\ arrived' \in Seq(Byte) /\ Len(arrived') = Len(arrived) + 1
            /\ \A k \in 1..Len(arrived') : arrived'[k] = dbytes[k]
        BY <1>1, <3>1, SequenceFacts, ArrivedGrows DEF IICInv, ArrivedInv
      <3> QED
        BY <1>1, <2>1, <3>1, <3>2, StatusFacts, SequenceFacts
           DEF IICInv, TypeOK, ReceiveInv, ArrivedInv, n
    <2>2. CASE TWSR \notin {80, 88}
      BY <1>1, <2>2, StatusFacts DEF IICInv, TypeOK, ArrivedInv, n
    <2> QED BY <2>1, <2>2
  <1>3. IdleInv' /\ StartInv' /\ AddrInv'
    BY DEF IdleInv, StartInv, AddrInv
  <1>4. SendInv' /\ ReceiveInv'
    BY <1>1, StatusFacts, SequenceFacts DEF IICInv, TypeOK, SendInv, ReceiveInv
  <1>5. StopInv'
    BY <1>1, StatusFacts, SequenceFacts DEF IICInv, TypeOK, ReceiveInv, StopInv
  <1> QED BY <1>2, <1>3, <1>4, <1>5 DEF IICInv

(* The STOP has freed the bus.                                              *)
LEMMA StoppedIICInv == ASSUME IICInv, Stopped PROVE IICInv'
  <1>1. TypeOK' /\ ArrivedInv'
    BY DEF IICInv, TypeOK, ArrivedInv, Stopped, Ready, Wait, n
  <1> QED
    BY <1>1
       DEF Stopped, Ready, Wait, IICInv, TypeOK, IdleInv, StartInv, AddrInv, SendInv,
           ReceiveInv, StopInv

-----------------------------------------------------------------------------
(* The START is out, or noise has spoilt it.                                *)
LEMMA HwStartIICInv == ASSUME IICInv, HwStart PROVE IICInv'
  <1> USE DEF HwStart, Answer, BusError, driver
  <1>1. phase = "start" /\ phase' = "start"
    BY DEF IICInv, TypeOK, IdleInv, StartInv, AddrInv, SendInv, ReceiveInv, StopInv
  <1>2. TypeOK' /\ ArrivedInv'
    BY DEF IICInv, TypeOK, ArrivedInv, n
  <1>3. StartInv'
    <2>1. TWSR' \in {0, 8, 16} /\ TWCR' = "TWINT"
      BY DEF StartInv
    <2>2. TWSR' = 8 => bus' = "held"
      OBVIOUS
    <2> QED BY <1>1, <2>1, <2>2 DEF IICInv, StartInv
  <1> QED
    BY <1>1, <1>2, <1>3 DEF IICInv, IdleInv, StartInv, AddrInv, SendInv, ReceiveInv, StopInv

(* The device is addressed only when it has acknowledged.                   *)
LEMMA HwAddressIICInv == ASSUME IICInv, HwAddress PROVE IICInv'
  <1> USE DEF HwAddress, Answer, BusError, driver
  <1>1. phase = "addr"
    BY DEF IICInv, TypeOK, IdleInv, StartInv, AddrInv, SendInv, ReceiveInv, StopInv
  <1>2. TypeOK' /\ ArrivedInv'
    BY DEF IICInv, TypeOK, ArrivedInv, n
  <1> QED
    BY <1>1, <1>2
       DEF IICInv, TypeOK, IdleInv, StartInv, AddrInv, SendInv, ReceiveInv, StopInv

(* A byte is with the device exactly when it has been acknowledged.         *)
LEMMA HwSendIICInv == ASSUME IICInv, HwSend PROVE IICInv'
  <1> USE DEF HwSend, Answer, BusError, driver
  <1>1. phase = "data" /\ op = "write"
    BY DEF IICInv, TypeOK, IdleInv, StartInv, AddrInv, SendInv, ReceiveInv, StopInv
  <1>2. /\ n \in Nat /\ n' = n /\ dbytes \in Seq(Byte) /\ idx \in Nat
        /\ arrived \in Seq(Byte) /\ Len(arrived) = idx /\ TWDR = dbytes[idx + 1] /\ idx < n
    BY <1>1, SequenceFacts DEF IICInv, SendInv, n
  <1>3. TypeOK' /\ ArrivedInv'
    <2>1. CASE UNCHANGED arrived
      BY <1>1, <1>2, <2>1 DEF IICInv, TypeOK, ArrivedInv, n
    <2>2. CASE Answer(40) /\ arrived' = Append(arrived, TWDR) /\ UNCHANGED <<driver, TWDR, device>>
      <3>1. arrived' = Append(arrived, dbytes[Len(arrived) + 1]) /\ Len(arrived) < Len(dbytes)
        BY <1>2, <2>2 DEF n
      <3>2. /\ arrived' \in Seq(Byte) /\ Len(arrived') = Len(arrived) + 1
            /\ \A k \in 1..Len(arrived') : arrived'[k] = dbytes[k]
        BY <1>2, <3>1, ArrivedGrows DEF IICInv, ArrivedInv
      <3> QED BY <1>1, <1>2, <2>2, <3>1, <3>2 DEF IICInv, TypeOK, ArrivedInv, n
    <2> QED BY <2>1, <2>2
  <1>4. SendInv'
    BY <1>1, <1>2 DEF IICInv, SendInv
  <1> QED
    BY <1>1, <1>3, <1>4
       DEF IICInv, IdleInv, StartInv, AddrInv, SendInv, ReceiveInv, StopInv

(* The device gives the byte that is next, and lets go after a NACK.        *)
LEMMA HwReceiveIICInv == ASSUME IICInv, HwReceive PROVE IICInv'
  <1> USE DEF HwReceive, Answer, BusError, driver
  <1>1. phase = "data" /\ op = "read"
    BY DEF IICInv, TypeOK, IdleInv, StartInv, AddrInv, SendInv, ReceiveInv, StopInv
  <1>2. TypeOK' /\ ArrivedInv'
    BY <1>1 DEF IICInv, TypeOK, ArrivedInv, n
  <1>3. ReceiveInv'
    BY <1>1, SequenceFacts DEF IICInv, ReceiveInv, n
  <1> QED
    BY <1>1, <1>2, <1>3
       DEF IICInv, IdleInv, StartInv, AddrInv, SendInv, ReceiveInv, StopInv

(* The STOP frees the bus.                                                  *)
LEMMA HwStopIICInv == ASSUME IICInv, HwStop PROVE IICInv'
  <1> USE DEF HwStop, driver
  <1>1. phase = "stop"
    BY DEF IICInv, TypeOK, IdleInv, StartInv, AddrInv, SendInv, ReceiveInv, StopInv
  <1>2. TypeOK' /\ ArrivedInv'
    BY DEF IICInv, TypeOK, ArrivedInv, n
  <1> QED
    BY <1>1, <1>2
       DEF IICInv, IdleInv, StartInv, AddrInv, SendInv, ReceiveInv, StopInv, n

-----------------------------------------------------------------------------
(* Every step of the driver, the interface and the device keeps what is     *)
(* known at each wait.                                                      *)
LEMMA NextIICInv == IICInv /\ [Next]_vars => IICInv'
  <1> SUFFICES ASSUME IICInv, [Next]_vars PROVE IICInv'
    OBVIOUS
  <1>1. ASSUME NEW p \in Payload, IICWrite(p) \/ IICRead(p) PROVE IICInv'
    BY <1>1, CallIICInv DEF IICWrite, IICRead
  <1>2. CASE Driver
    BY <1>2, StartedIICInv, AddressedIICInv, SentIICInv, ReceivedIICInv, StoppedIICInv
       DEF Driver
  <1>3. CASE Hardware
    BY <1>3, HwStartIICInv, HwAddressIICInv, HwSendIICInv, HwReceiveIICInv, HwStopIICInv
       DEF Hardware
  <1>4. CASE UNCHANGED vars
    BY <1>4
       DEF vars, driver, IICInv, TypeOK, IdleInv, StartInv, AddrInv, SendInv, ReceiveInv,
           StopInv, ArrivedInv, n
  <1> QED BY <1>1, <1>2, <1>3, <1>4 DEF Next, BusyWait

(***************************************************************************)
(* What is known of bus, device, status and progress at each of the        *)
(* driver's waits, for transfers of every length.                          *)
(***************************************************************************)
THEOREM InductiveInvariant == Spec => []IICInv
  BY InitIICInv, NextIICInv, PTL DEF Spec

(***************************************************************************)
(* The bus is free and the device released after every call that got as    *)
(* far as its START, whatever failed and wherever.                         *)
(***************************************************************************)
THEOREM BusIsReleased == Spec => []BusReleased
  <1>1. IICInv => BusReleased
    BY DEF IICInv, IdleInv, BusReleased
  <1> QED BY <1>1, InductiveInvariant, PTL

-----------------------------------------------------------------------------
(* The refinement of IICTransfer, step by step *)

(* Two byte sequences are equal when one is a prefix of the same length.    *)
LEMMA WholePrefix ==
    ASSUME NEW S, NEW s \in Seq(S), NEW d \in Seq(S), \A k \in 1..Len(s) : s[k] = d[k]
    PROVE  s = d <=> Len(s) = Len(d)
  OBVIOUS

(* A call begins a transfer.                                                *)
LEMMA CallBegins ==
    ASSUME IICInv, NEW p \in Payload, IICWrite(p) \/ IICRead(p)
    PROVE  Transfer!Begin(p)
  BY DEF IICWrite, IICRead, Call, Transfer!Begin

(* The driver's steps move a byte, end the transfer, or change nothing that *)
(* the caller sees.                                                         *)
LEMMA DriverRefines ==
    ASSUME IICInv, Driver
    PROVE  Transfer!Move \/ Transfer!End \/ UNCHANGED Transfer!vars
  <1> USE DEF Ready, Wait, Continue, Send, Receive, BreakOff
  <1>1. CASE Started
    <2>1. CASE StartSeen
      BY <1>1, <2>1 DEF Started, Transfer!vars
    <2>2. CASE ~StartSeen
      <3>1. /\ phase = "start" /\ phase' = "idle" /\ rc' = -1 /\ arrived = <<>>
            /\ UNCHANGED <<dbytes, arrived>>
        BY <1>1, <2>2 DEF Started, IICInv, StartInv
      <3>2. dbytes # <<>>
        BY <3>1, PayloadFacts DEF IICInv, ArrivedInv
      <3> QED BY <3>1, <3>2 DEF Transfer!End
    <2> QED BY <2>1, <2>2
  <1>2. CASE Addressed
    BY <1>2 DEF Addressed, Transfer!vars
  <1>3. CASE Sent
    BY <1>3 DEF Sent, Transfer!vars
  <1>4. CASE Received
    <2>1. CASE TWSR \in {80, 88}
      <3>1. /\ phase = "data" /\ phase' # "idle" /\ dbytes' = dbytes
            /\ arrived' = Append(arrived, TWDR)
        BY <1>4, <2>1, StatusFacts DEF Received, IICInv
      <3>2. Len(arrived) < Len(dbytes) /\ TWDR = dbytes[Len(arrived) + 1]
        BY <1>4, <2>1, SequenceFacts DEF Received, IICInv, ReceiveInv, n
      <3> QED BY <3>1, <3>2 DEF Transfer!Move
    <2>2. CASE TWSR \notin {80, 88}
      BY <1>4, <2>2, StatusFacts DEF Received, IICInv, Transfer!vars
    <2> QED BY <2>1, <2>2
  <1>5. CASE Stopped
    <2>1. /\ phase = "stop" /\ phase' = "idle" /\ rc' = rc /\ rc \in {0, -2}
          /\ UNCHANGED <<dbytes, arrived>>
          /\ rc = 0 <=> Len(arrived) = Len(dbytes)
      BY <1>5, SequenceFacts DEF Stopped, IICInv, StopInv, n
    <2>2. arrived = dbytes <=> Len(arrived) = Len(dbytes)
      BY SequenceFacts, WholePrefix DEF IICInv, ArrivedInv
    <2> QED BY <2>1, <2>2 DEF Transfer!End
  <1> QED BY <1>1, <1>2, <1>3, <1>4, <1>5 DEF Driver

(* The hardware's steps move a byte, or change nothing that the caller sees. *)
LEMMA HardwareRefines ==
    ASSUME IICInv, Hardware
    PROVE  Transfer!Move \/ UNCHANGED Transfer!vars
  <1>1. CASE UNCHANGED arrived
    BY <1>1 DEF Hardware, HwStart, HwAddress, HwSend, HwReceive, HwStop, BusError, driver,
               Transfer!vars
  <1>2. CASE ~UNCHANGED arrived
    <2>1. /\ TWCR = "SEND" /\ arrived' = Append(arrived, TWDR)
          /\ UNCHANGED <<phase, dbytes, rc>>
      BY <1>2 DEF Hardware, HwStart, HwAddress, HwSend, HwReceive, HwStop, BusError, driver
    <2>2. phase = "data" /\ Len(arrived) < Len(dbytes) /\ TWDR = dbytes[Len(arrived) + 1]
      BY <2>1, SequenceFacts
         DEF IICInv, TypeOK, IdleInv, StartInv, AddrInv, SendInv, ReceiveInv, StopInv, n
    <2> QED BY <2>1, <2>2 DEF Transfer!Move
  <1> QED BY <1>1, <1>2

(***************************************************************************)
(* The driver implements the abstract transfer: for every length and every *)
(* mixture of failures, result 0 means that all bytes have arrived in      *)
(* order, -2 that the transfer broke off before the last, -1 that none has *)
(* moved.                                                                  *)
(***************************************************************************)
THEOREM TransferRefinement == Spec => ImplementsTransfer
  <1>1. Init => Transfer!Init
    BY DEF Init, Transfer!Init
  <1>2. IICInv /\ [Next]_vars => [Transfer!Next]_(Transfer!vars)
    <2> SUFFICES ASSUME IICInv, [Next]_vars
                 PROVE  Transfer!Next \/ UNCHANGED Transfer!vars
      OBVIOUS
    <2>1. ASSUME NEW p \in Payload, IICWrite(p) \/ IICRead(p) PROVE Transfer!Next
      BY <2>1, CallBegins DEF Transfer!Next
    <2>2. CASE Driver
      BY <2>2, DriverRefines DEF Transfer!Next
    <2>3. CASE Hardware
      BY <2>3, HardwareRefines DEF Transfer!Next
    <2>4. CASE UNCHANGED vars
      BY <2>4 DEF vars, driver, Transfer!vars
    <2> QED BY <2>1, <2>2, <2>3, <2>4 DEF Next, BusyWait
  <1> QED BY <1>1, <1>2, InductiveInvariant, PTL DEF Spec, ImplementsTransfer, Transfer!Spec
=============================================================================
