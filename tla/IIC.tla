-------------------------------- MODULE IIC --------------------------------
(***************************************************************************)
(* The polled IIC driver (kernel/iic.cpp) with the ATmega's two-wire       *)
(* interface and the addressed device. The driver writes a command to TWCR *)
(* and busy-waits; the hardware carries it out, sets TWINT and leaves a    *)
(* status in TWSR, to which the driver reacts.                             *)
(*                                                                         *)
(* Status codes of the interface: 0x08 START sent, 0x10 repeated START,    *)
(* 0x18/0x20 and 0x40/0x48 address for writing and for reading acknowledged *)
(* or not, 0x28/0x30 byte sent, acknowledged or not, 0x50/0x58 byte        *)
(* received and acknowledged or not, 0x00 bus error.                       *)
(***************************************************************************)
EXTENDS Integers, Sequences

CONSTANTS
    Byte,   \* values of a byte
    Lengths \* the numbers of bytes the callers transfer: never none

ASSUME LengthAssumption == Lengths \subseteq Nat \ {0}

Payload == UNION {[1..n -> Byte] : n \in Lengths}

VARIABLES
    phase,   \* where the driver waits; "idle": no call is in progress
    op,      \* which function was called
    dbytes,  \* write: the caller's buffer; read: what the device is going to send
    idx, rc, \* the driver's locals; rc keeps the last result
    TWCR,    \* the command being carried out; "TWINT" when there is none
    TWSR, TWDR,
    bus,     \* "held" from a START until the STOP
    device,  \* "idle", addressed and receiving "rx", or transmitting "tx"
    arrived  \* the bytes that have reached the receiving end

driver == <<phase, op, dbytes, idx, rc>>
vars == <<driver, TWCR, TWSR, TWDR, bus, device, arrived>>

n == Len(dbytes)
Masked(status) == (status \div 8) * 8  \* status & 0xf8
StartSeen == (TWSR \div 8) % 2 = 1     \* TWSR & 0x08

TypeOK ==
    /\ phase \in {"idle", "start", "addr", "data", "stop"}
    /\ op \in {"write", "read"}
    /\ dbytes \in Payload \cup {<<>>}
    /\ idx \in 0..n /\ rc \in {0, -1, -2}
    /\ TWCR \in {"TWINT", "START", "ADDR", "SEND", "ACK", "NACK", "STOP"}
    /\ TWSR \in {0, 8, 16, 24, 32, 40, 48, 64, 72, 80, 88, 248}
    /\ TWDR \in Byte
    /\ bus \in {"free", "held"} /\ device \in {"idle", "rx", "tx"}
    /\ arrived \in Seq(Byte) /\ Len(arrived) <= n

Init ==
    /\ phase = "idle" /\ op = "write" /\ dbytes = <<>> /\ idx = 0 /\ rc = 0
    /\ TWCR = "TWINT" /\ TWSR = 248 /\ TWDR \in Byte
    /\ bus = "free" /\ device = "idle" /\ arrived = <<>>

-----------------------------------------------------------------------------
(* The driver. Call(f, p) is IICWrite or IICRead up to the first wait.      *)
Call(f, p) ==
    /\ phase = "idle"
    /\ phase' = "start" /\ op' = f /\ dbytes' = p /\ idx' = 0 /\ rc' = 0
    /\ TWCR' = "START"
    /\ arrived' = <<>>
    /\ UNCHANGED <<TWSR, TWDR, bus, device>>

IICWrite(p) == Call("write", p)
IICRead(p) == Call("read", p)

Wait(ph, command) == phase' = ph /\ TWCR' = command
Ready(ph) == phase = ph /\ TWCR = "TWINT"

(* After the START: the address, or return -1 without a STOP.               *)
Started ==
    /\ Ready("start")
    /\ \/ StartSeen /\ Wait("addr", "ADDR") /\ UNCHANGED rc
       \/ ~StartSeen /\ Wait("idle", "TWINT") /\ rc' = -1
    /\ UNCHANGED <<op, dbytes, idx, TWSR, TWDR, bus, device, arrived>>

(* Mutant: the last byte is acknowledged like the others.                   *)
MutReceive(i) == Wait("data", IF i = n THEN "NACK" ELSE "ACK") /\ UNCHANGED TWDR

(* The next byte of the loop over idx, or the STOP at its end.              *)
Receive(i) == Wait("data", IF i = n - 1 THEN "NACK" ELSE "ACK") /\ UNCHANGED TWDR
Send(i) == Wait("data", "SEND") /\ TWDR' = dbytes[i + 1]

(* Mutant: a read asks for one byte too many.                               *)
MutContinue(i) ==
    \/ i < n /\ op = "write" /\ Send(i)
    \/ i <= n /\ op = "read" /\ Receive(i)
    \/ i = (IF op = "write" THEN n ELSE n + 1) /\ Wait("stop", "STOP") /\ UNCHANGED TWDR

Continue(i) ==
    \/ i < n /\ op = "write" /\ Send(i)
    \/ i < n /\ op = "read" /\ Receive(i)
    \/ i = n /\ Wait("stop", "STOP") /\ UNCHANGED TWDR

BreakOff == Wait("stop", "STOP") /\ rc' = -2 /\ UNCHANGED TWDR

(* Mutant: a device that does not answer is left without a STOP.            *)
MutAddressed ==
    /\ Ready("addr")
    /\ \/ Masked(TWSR) = (IF op = "write" THEN 24 ELSE 64) /\ Continue(0) /\ UNCHANGED rc
       \/ /\ Masked(TWSR) # (IF op = "write" THEN 24 ELSE 64)
          /\ Wait("idle", "TWINT") /\ rc' = -2 /\ UNCHANGED TWDR
    /\ UNCHANGED <<op, dbytes, idx, TWSR, bus, device, arrived>>

Addressed ==
    LET acked == Masked(TWSR) = IF op = "write" THEN 24 ELSE 64
    IN  /\ Ready("addr")
        /\ \/ acked /\ Continue(0) /\ UNCHANGED rc
           \/ ~acked /\ BreakOff
        /\ UNCHANGED <<op, dbytes, idx, TWSR, bus, device, arrived>>

(* Mutant: a byte that is not acknowledged goes unnoticed.                  *)
MutSent ==
    /\ Ready("data") /\ op = "write"
    /\ \/ Masked(TWSR) # 0 /\ Continue(idx + 1) /\ idx' = idx + 1 /\ UNCHANGED rc
       \/ Masked(TWSR) = 0 /\ BreakOff /\ UNCHANGED idx
    /\ UNCHANGED <<op, dbytes, TWSR, bus, device, arrived>>

Sent ==
    /\ Ready("data") /\ op = "write"
    /\ \/ Masked(TWSR) = 40 /\ Continue(idx + 1) /\ idx' = idx + 1 /\ UNCHANGED rc
       \/ Masked(TWSR) # 40 /\ BreakOff /\ UNCHANGED idx
    /\ UNCHANGED <<op, dbytes, TWSR, bus, device, arrived>>

Received ==
    /\ Ready("data") /\ op = "read"
    /\ \/ /\ Masked(TWSR) \in {80, 88}
          /\ arrived' = Append(arrived, TWDR)
          /\ Continue(idx + 1) /\ idx' = idx + 1 /\ UNCHANGED rc
       \/ Masked(TWSR) \notin {80, 88} /\ BreakOff /\ UNCHANGED <<idx, arrived>>
    /\ UNCHANGED <<op, dbytes, TWSR, bus, device>>

(* TWSTO has been cleared: return rc.                                       *)
Stopped ==
    /\ Ready("stop")
    /\ Wait("idle", "TWINT")
    /\ UNCHANGED <<op, dbytes, idx, rc, TWSR, TWDR, bus, device, arrived>>

(* The waits are busy-waits: a driver that waits for ever still runs.       *)
BusyWait == phase # "idle" /\ TWCR # "TWINT" /\ UNCHANGED vars

Driver == Started \/ Addressed \/ Sent \/ Received \/ Stopped

-----------------------------------------------------------------------------
(* The hardware: each command ends with a status, and TWINT.                *)
Answer(status) == TWCR' = "TWINT" /\ TWSR' = status

(* Noise on the wires during a command. The device sees it as a STOP.       *)
BusError ==
    /\ Answer(0) /\ device' = "idle"
    /\ UNCHANGED <<driver, TWDR, arrived>>

(* After a bus error at the START the interface may hold the bus or not.    *)
HwStart ==
    /\ TWCR = "START"
    /\ \/ /\ Answer(IF bus = "free" THEN 8 ELSE 16)
          /\ bus' = "held"
          /\ UNCHANGED <<driver, TWDR, device, arrived>>
       \/ BusError /\ bus' \in {"free", "held"}

HwAddress ==
    /\ TWCR = "ADDR"
    /\ \/ /\ Answer(IF op = "write" THEN 24 ELSE 64)
          /\ device' = (IF op = "write" THEN "rx" ELSE "tx")
          /\ UNCHANGED <<driver, TWDR, arrived>>
       \/ /\ Answer(IF op = "write" THEN 32 ELSE 72)
          /\ UNCHANGED <<driver, TWDR, device, arrived>>
       \/ BusError
    /\ UNCHANGED bus

HwSend ==
    /\ TWCR = "SEND"
    /\ \/ Answer(40) /\ arrived' = Append(arrived, TWDR) /\ UNCHANGED <<driver, TWDR, device>>
       \/ Answer(48) /\ UNCHANGED <<driver, TWDR, device, arrived>>
       \/ BusError
    /\ UNCHANGED bus

(* A byte that is acknowledged makes the device go on transmitting; when it *)
(* does not, the interface reads whatever the line shows.                   *)
HwReceive ==
    /\ TWCR \in {"ACK", "NACK"}
    /\ \/ /\ Answer(IF TWCR = "ACK" THEN 80 ELSE 88)
          /\ TWDR' \in Byte
          /\ device = "tx" => TWDR' = dbytes[Len(arrived) + 1]
          /\ device' = IF TWCR = "ACK" THEN device ELSE "idle"
          /\ UNCHANGED <<driver, arrived>>
       \/ BusError
    /\ UNCHANGED bus

(* No STOP can be made while the device drives the data line.               *)
HwStop ==
    /\ TWCR = "STOP" /\ device # "tx"
    /\ TWCR' = "TWINT" /\ bus' = "free" /\ device' = "idle"
    /\ UNCHANGED <<driver, TWSR, TWDR, arrived>>

Hardware == HwStart \/ HwAddress \/ HwSend \/ HwReceive \/ HwStop

Next == (\E p \in Payload : IICWrite(p) \/ IICRead(p)) \/ Driver \/ BusyWait \/ Hardware

Spec == Init /\ [][Next]_vars

(***************************************************************************)
(* The busy-wait sees TWINT, and the interface ends every command: nothing *)
(* outside it holds the clock line low for ever, against which the driver  *)
(* has no timeout.                                                         *)
(***************************************************************************)
FairSpec == Spec /\ WF_vars(Driver) /\ WF_vars(Hardware)

-----------------------------------------------------------------------------
(***************************************************************************)
(* What is known at each wait of bus, device, status and progress, from    *)
(* which BusReleased and the refinement below follow.                      *)
(***************************************************************************)
IdleInv == phase = "idle" =>
    TWCR = "TWINT" /\ device = "idle" /\ (rc # -1 => bus = "free")

StartInv == phase = "start" =>
    /\ rc = 0 /\ idx = 0 /\ arrived = <<>> /\ device = "idle"
    /\ TWCR \in {"START", "TWINT"}
    /\ TWCR = "TWINT" => TWSR \in {0, 8, 16} /\ (TWSR = 8 => bus = "held")

AddrInv == phase = "addr" =>
    /\ rc = 0 /\ idx = 0 /\ arrived = <<>> /\ bus = "held"
    /\ TWCR \in {"ADDR", "TWINT"}
    /\ TWCR = "ADDR" => device = "idle"
    /\ TWCR = "TWINT" =>
         \/ op = "write" /\ TWSR = 24 /\ device = "rx"
         \/ op = "read" /\ TWSR = 64 /\ device = "tx"
         \/ TWSR \in {0, 32, 72} /\ device = "idle"

SendInv == phase = "data" /\ op = "write" =>
    /\ rc = 0 /\ idx < n /\ bus = "held"
    /\ \/ TWCR = "SEND" /\ TWDR = dbytes[idx + 1] /\ device = "rx" /\ Len(arrived) = idx
       \/ TWCR = "TWINT" /\ TWSR = 40 /\ device = "rx" /\ Len(arrived) = idx + 1
       \/ TWCR = "TWINT" /\ TWSR \in {0, 48} /\ device # "tx" /\ Len(arrived) = idx

ReceiveInv == phase = "data" /\ op = "read" =>
    /\ rc = 0 /\ idx < n /\ bus = "held" /\ Len(arrived) = idx
    /\ \/ TWCR = "ACK" /\ idx < n - 1 /\ device = "tx"
       \/ TWCR = "NACK" /\ idx = n - 1 /\ device = "tx"
       \/ TWCR = "TWINT" /\ TWSR = 80 /\ idx < n - 1 /\ device = "tx" /\ TWDR = dbytes[idx + 1]
       \/ TWCR = "TWINT" /\ TWSR = 88 /\ idx = n - 1 /\ device = "idle" /\ TWDR = dbytes[idx + 1]
       \/ TWCR = "TWINT" /\ TWSR = 0 /\ device = "idle"

StopInv == phase = "stop" =>
    /\ \/ rc = 0 /\ Len(arrived) = n
       \/ rc = -2 /\ Len(arrived) < n
    /\ \/ TWCR = "STOP" /\ device # "tx"
       \/ TWCR = "TWINT" /\ device = "idle" /\ bus = "free"

ArrivedInv ==
    /\ phase # "idle" => dbytes \in Payload
    /\ \A k \in 1..Len(arrived) : arrived[k] = dbytes[k]

(* The inductive invariant of both transfers, at every wait and after every *)
(* refusal or bus error.                                                    *)
IICInv ==
    /\ TypeOK /\ IdleInv /\ StartInv /\ AddrInv /\ SendInv /\ ReceiveInv /\ StopInv
    /\ ArrivedInv

(***************************************************************************)
(* A finished call leaves the bus free and the device released, whatever   *)
(* failed after the START; only the early return -1 does not send a STOP.  *)
(***************************************************************************)
BusReleased == phase = "idle" /\ rc # -1 => bus = "free" /\ device = "idle"

(* The driver implements the abstract transfer: what the result says of the *)
(* bytes is true of the receiving end, in every mixture of failures.        *)
Transfer == INSTANCE IICTransfer WITH
    busy <- phase # "idle",
    payload <- dbytes,
    result <- IF phase = "idle" THEN rc ELSE 0

ImplementsTransfer == Transfer!Spec

(* Every call returns: no sequence of acknowledgements leads to a wait that *)
(* the hardware can never end.                                              *)
TransferReturns == phase = "start" ~> phase = "idle"
=============================================================================
