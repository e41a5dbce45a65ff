------------------------------ MODULE LogTask ------------------------------
(***************************************************************************)
(* The clock logger (ENDG3051_APP/LogTask.cpp) with the clock device that  *)
(* it sets and reads over IIC. The device keeps the time in seven BCD      *)
(* registers, with flags in the bits that are left. A transfer (see IIC)   *)
(* may fail: a write then has reached only the first few registers.        *)
(*                                                                         *)
(* The weekday of a log line is left out: a pointer squeezed into a char,  *)
(* which is printed as a string, has no defined value.                     *)
(***************************************************************************)
EXTENDS Integers, Sequences

CONSTANTS
    Dates, \* the arguments of SetDate that the application passes
    Times  \* the dates and times to which the device counts

Date == [dow : Int, day : Int, month : Int, year : Int, hrs : Int, mins : Int,
         secs : Int, is24hr : BOOLEAN, ampm : BOOLEAN]

ASSUME DatesAssumption == \A d \in Dates \cup Times : d \in Date

VARIABLES
    clock,   \* what the device's time stands for, register by register
    regs,    \* the registers: sec, min, hour, wkday, date, month, year
    ready,   \* the constructor has run
    expired, \* what tm.isExpired() answers (see OSTimer)
    result,  \* what the last SetDate returned
    line     \* the line just logged, as a set: empty if there is none to read

vars == <<clock, regs, ready, expired, result, line>>

Registers == 1..7

bitshift_bcd(v) == (v % 10) + 16 * (v \div 10)
bitshift_dec(b, m) == (b % 16) + 10 * ((b \div 16) % (m + 1)) \* & m, for m = 1, 7
Bit(b, weight) == (b \div weight) % 2 = 1

(* What SetDate is asked to set, in the order of the registers.             *)
Meaning(d) ==
    <<d.secs, d.mins, [hrs |-> d.hrs, is24hr |-> d.is24hr, ampm |-> d.ampm],
      d.dow, d.day, d.month, d.year>>

(* The registers that SetDate fills. 0x80 is the oscillator's start bit.    *)
Encode(c) ==
    <<bitshift_bcd(c[1]) + 128,
      bitshift_bcd(c[2]) + 128,
      bitshift_bcd(c[3].hrs)
        + (IF c[3].is24hr THEN 0 ELSE IF c[3].ampm THEN 64 ELSE 96),
      c[4] + 32,
      bitshift_bcd(c[5]), bitshift_bcd(c[6]), bitshift_bcd(c[7])>>

maxmonthdays == <<31, 29, 31, 30, 31, 30, 31, 31, 30, 31, 30, 31>>

(* Mutant: the days of the month are not checked.                           *)
MutAccepts(d) ==
    /\ d.dow \in 1..7 /\ d.month \in 1..12 /\ d.year \in 0..99
    /\ d.hrs \in (IF d.is24hr THEN 0..23 ELSE 1..12)
    /\ d.mins \in 0..59 /\ d.secs \in 0..59

(* The error check of SetDate.                                              *)
Accepts(d) ==
    /\ d.dow \in 1..7
    /\ d.month \in 1..12
    /\ d.day \in 1..maxmonthdays[d.month]
    /\ d.year \in 0..99
    /\ d.hrs \in (IF d.is24hr THEN 0..23 ELSE 1..12)
    /\ d.mins \in 0..59
    /\ d.secs \in 0..59

(* External: the device counts through the dates and times that there are,  *)
(* and in a leap year it shows a flag in bit 5 of the month, beside the     *)
(* digits, that SetDate's write does not touch.                             *)
LeapYear(y) == y % 4 = 0
Shown(r, c) == [r EXCEPT ![6] = IF LeapYear(c[7]) THEN r[6] + 32 ELSE r[6]]
ASSUME TimesAssumption == \A d \in Times : Accepts(d)

(* A battery keeps the clock running while the processor is off.            *)
Init ==
    /\ clock \in {Meaning(d) : d \in Times}
    /\ regs = Encode(clock)
    /\ ready = FALSE /\ expired = FALSE /\ result = 0 /\ line = {}

-----------------------------------------------------------------------------
(* A write of registers that fails after the first k of them.               *)
Overwrite(old, new, k) == [i \in Registers |-> IF i <= k THEN new[i] ELSE old[i]]

(* Writes the seconds, and so the start bit, as 0; the result is ignored.   *)
Construct ==
    /\ ~ready /\ ready' = TRUE
    /\ \/ clock' = [clock EXCEPT ![1] = 0] /\ regs' = [regs EXCEPT ![1] = 0]
       \/ UNCHANGED <<clock, regs>>
    /\ UNCHANGED <<expired, result, line>>

(* Refused arguments are answered with 0, like a success.                   *)
SetDate(d) ==
    /\ ready
    /\ \/ ~Accepts(d) /\ result' = 0 /\ UNCHANGED <<clock, regs>>
       \/ \E k \in 0..7 :
            /\ Accepts(d)
            /\ clock' = Overwrite(clock, Meaning(d), k)
            /\ regs' = Overwrite(regs, Encode(Meaning(d)), k)
            /\ result' \in (IF k = 7 THEN {0} ELSE IF k = 0 THEN {-1, -2} ELSE {-2})
    /\ line' = {}
    /\ UNCHANGED <<ready, expired>>

(* Mutant: the 12 hour format is not masked out of the tens of the hours.   *)
MutHours(hour) == bitshift_dec(hour, 7)

Hours(hour) == IF Bit(hour, 64) THEN bitshift_dec(hour, 1) ELSE bitshift_dec(hour, 7)

(* LogToSerial's conversion of the registers.                               *)
Decode(r) ==
    [seconds |-> bitshift_dec(r[1], 7), minutes |-> bitshift_dec(r[2], 7),
     hours |-> Hours(r[3]),
     amIndicator |-> IF ~Bit(r[3], 64) THEN "" ELSE IF Bit(r[3], 32) THEN "am" ELSE "pm",
     day |-> bitshift_dec(r[5], 7), month |-> bitshift_dec(r[6], 7),
     year |-> (r[7] % 16) + 10 * (r[7] \div 16)]

(* The registers are used whether or not the transfers succeeded; if not,   *)
(* they are other registers, or uninitialised memory, and the line is noise. *)
LogToSerial == line' \in {{Decode(Shown(regs, clock))}, {}}

TaskLoop ==
    /\ ready
    /\ \/ expired /\ LogToSerial /\ expired' = FALSE
       \/ ~expired /\ line' = {} /\ UNCHANGED expired
    /\ UNCHANGED <<clock, regs, ready, result>>

TimerExpires ==
    /\ ready /\ expired' = TRUE /\ line' = {}
    /\ UNCHANGED <<clock, regs, ready, result>>

(* The device goes on to any later time, if its start bit is set. It keeps  *)
(* the format and the flags.                                                *)
ClockAdvances ==
    /\ Bit(regs[1], 128)
    /\ \E d \in Times :
         /\ d.is24hr = clock[3].is24hr
         /\ clock' = Meaning(d) /\ regs' = Encode(Meaning(d))
    /\ line' = {}
    /\ UNCHANGED <<ready, expired, result>>

Next ==
    \/ Construct
    \/ \E d \in Dates : SetDate(d)
    \/ TaskLoop
    \/ TimerExpires
    \/ ClockAdvances

Spec == Init /\ [][Next]_vars

-----------------------------------------------------------------------------
(***************************************************************************)
(* The time of a log line is the clock's: what SetDate was asked to set in *)
(* each register, or what the clock has counted since, comes back from the *)
(* BCD digits and flags in either hour format, even when a SetDate that    *)
(* broke off has mixed the registers of two dates. The month is right in   *)
(* years that are no leap years only (see LogsTimestamp).                  *)
(***************************************************************************)
LogsClockTime == \A l \in line :
    /\ l.seconds = clock[1] /\ l.minutes = clock[2]
    /\ l.hours = clock[3].hrs
    /\ l.amIndicator = "" <=> clock[3].is24hr
    /\ l.day = clock[5] /\ l.year = clock[7]
    /\ ~LeapYear(clock[7]) => l.month = clock[6]

(* Every register holds a value of its range in BCD, and they fit in bytes: *)
(* nothing that SetDate refuses reaches the device, not even in part.       *)
RegistersValid ==
    /\ \A i \in Registers : regs[i] \in 0..255
    /\ clock[1] \in 0..59 /\ clock[2] \in 0..59
    /\ clock[3].hrs \in (IF clock[3].is24hr THEN 0..23 ELSE 1..12)
    /\ clock[4] \in 1..7 /\ clock[5] \in 1..31 /\ clock[6] \in 1..12
    /\ clock[7] \in 0..99

(* The registers stand for the clock's time, but that the constructor writes *)
(* the seconds without the start bit; a line just logged is read from them. *)
RegistersStand ==
    /\ DOMAIN clock = Registers /\ DOMAIN regs = Registers
    /\ clock[3].is24hr \in BOOLEAN
    /\ regs[1] \in {bitshift_bcd(clock[1]), Encode(clock)[1]}
    /\ \A i \in 2..7 : regs[i] = Encode(clock)[i]
    /\ line \subseteq IF ready THEN {Decode(Shown(regs, clock))} ELSE {}

(***************************************************************************)
(* The inductive invariant of set dates that break off, the constructor    *)
(* and the running clock: every register stands for a value of its range.  *)
(***************************************************************************)
ClockInv == RegistersValid /\ RegistersStand

-----------------------------------------------------------------------------
(* A property that states what the repository says and the code does not do. *)

(* "Create a timestamped log string": the month of a line is the clock's,   *)
(* and it says am or pm as SetDate's "12 format am" and "12 format pm" do.  *)
LogsTimestamp == \A l \in line :
    /\ l.month = clock[6]
    /\ ~clock[3].is24hr => l.amIndicator = IF clock[3].ampm THEN "am" ELSE "pm"
=============================================================================
