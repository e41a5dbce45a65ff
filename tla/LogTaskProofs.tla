--------------------------- MODULE LogTaskProofs ---------------------------
(***************************************************************************)
(* Proofs for LogTask: what LogToSerial reads back from the BCD digits and *)
(* flags of the registers is the clock's time (but for the month in leap   *)
(* years), for every sequence of dates set, broken off after any register, *)
(* and of times counted.                                                   *)
(***************************************************************************)
EXTENDS LogTask, TLAPS

-----------------------------------------------------------------------------
(* The digits of a number of at most two digits.                           *)
LEMMA TwoDigits ==
    ASSUME NEW v \in 0..99
    PROVE  /\ v % 10 \in 0..9 /\ v \div 10 \in 0..9
           /\ v = (v % 10) + 10 * (v \div 10)
BY SMT

(* A low nibble and what is above it can be told apart.                    *)
LEMMA Nibbles ==
    ASSUME NEW u \in 0..15, NEW q \in 0..15
    PROVE  /\ (u + 16 * q) % 16 = u
           /\ (u + 16 * q) \div 16 = q
           /\ (u + 16 * q) \in 0..255
BY SMT

(* The conversions undo one another, whatever flag is in the bits that the *)
(* mask of the tens takes away.                                            *)
LEMMA BcdInverse ==
    ASSUME NEW v \in 0..99, NEW m \in {1, 7}, NEW flag \in {0, 64, 96, 128},
           v \div 10 <= m, m = 1 => flag # 128, m = 7 => flag \in {0, 128}
    PROVE  bitshift_dec(bitshift_bcd(v) + flag, m) = v
<1>0. PICK f \in {0, 4, 6, 8} :
        flag = 16 * f /\ (m = 1 => f # 8) /\ (m = 7 => f \in {0, 8})
  <2>1. flag = 16 * 0 \/ flag = 16 * 4 \/ flag = 16 * 6 \/ flag = 16 * 8
    OBVIOUS
  <2> QED
    BY <2>1
<1> DEFINE u == v % 10
           t == v \div 10
<1>1. u \in 0..9 /\ t \in 0..9 /\ v = u + 10 * t
  BY TwoDigits
<1>2. t + f \in 0..15
  BY <1>0, <1>1, m \in {1, 7}, v \div 10 <= m
<1>3. bitshift_bcd(v) + flag = u + 16 * (t + f)
  BY <1>0, <1>1 DEF bitshift_bcd
<1> HIDE DEF u, t
<1>4. /\ (u + 16 * (t + f)) % 16 = u
      /\ (u + 16 * (t + f)) \div 16 = t + f
      /\ u + 16 * (t + f) \in 0..255
  BY <1>1, <1>2, Nibbles
<1>5. (t + f) % (m + 1) = t
  <2>1. t <= m
    BY DEF t
  <2>2. CASE m = 1
    BY <1>0, <1>1, <2>1, <2>2
  <2>3. CASE m = 7
    BY <1>0, <1>1, <2>1, <2>3
  <2> QED
    BY <2>2, <2>3
<1> QED
  BY <1>1, <1>3, <1>4, <1>5 DEF bitshift_dec

(* The flag of the 12 hour format is seen exactly where it was written.    *)
LEMMA FormatFlag ==
    ASSUME NEW h \in 0..23
    PROVE  /\ ~Bit(bitshift_bcd(h), 64)
           /\ h <= 12 => Bit(bitshift_bcd(h) + 64, 64) /\ Bit(bitshift_bcd(h) + 96, 64)
<1>1. h % 10 \in 0..9 /\ h \div 10 \in 0..2 /\ (h <= 12 => h \div 10 <= 1)
  BY SMT
<1> DEFINE b == bitshift_bcd(h)
<1>2. b \in 0..41 /\ (h <= 12 => b <= 25)
  BY <1>1 DEF bitshift_bcd
<1> HIDE DEF b
<1>3. b \div 64 = 0
  BY <1>2
<1>4. h <= 12 => (b + 64) \div 64 = 1 /\ (b + 96) \div 64 = 1
  BY <1>2
<1>5. ~Bit(b, 64) /\ (h <= 12 => Bit(b + 64, 64) /\ Bit(b + 96, 64))
  BY <1>3, <1>4 DEF Bit
<1> QED
  BY <1>5 DEF b

-----------------------------------------------------------------------------
(* The parts of ClockInv, about any time c and any registers r.            *)
ValidTime(c) ==
    /\ DOMAIN c = Registers
    /\ c[1] \in 0..59 /\ c[2] \in 0..59
    /\ c[3].is24hr \in BOOLEAN
    /\ c[3].hrs \in (IF c[3].is24hr THEN 0..23 ELSE 1..12)
    /\ c[4] \in 1..7 /\ c[5] \in 1..31 /\ c[6] \in 1..12 /\ c[7] \in 0..99

Stands(r, c) ==
    /\ DOMAIN r = Registers
    /\ r[1] \in {bitshift_bcd(c[1]), Encode(c)[1]}
    /\ \A i \in 2..7 : r[i] = Encode(c)[i]

(* What SetDate accepts is a valid time.                                   *)
LEMMA AcceptedIsValid ==
    ASSUME NEW d \in Date, Accepts(d)
    PROVE  ValidTime(Meaning(d))
<1>1. d.day \in 1..31
  <2>1. \A m \in 1..12 : maxmonthdays[m] \in 29..31
    BY DEF maxmonthdays
  <2>2. d.month \in 1..12 /\ d.day \in 1..maxmonthdays[d.month]
    BY DEF Accepts
  <2> QED
    BY <2>1, <2>2
<1>2. d.is24hr \in BOOLEAN
  BY DEF Date
<1> QED
  BY <1>1, <1>2 DEF ValidTime, Meaning, Accepts, Registers

(* The registers of a valid time are bytes.                                *)
LEMMA EncodeBytes ==
    ASSUME NEW c, ValidTime(c)
    PROVE  /\ bitshift_bcd(c[1]) \in 0..255
           /\ \A i \in Registers : Encode(c)[i] \in 0..255
<1>1. \A v \in 0..99 : bitshift_bcd(v) \in 0..153
  BY TwoDigits DEF bitshift_bcd
<1>2. \A v \in 0..59 : bitshift_bcd(v) \in 0..89
  <2> SUFFICES ASSUME NEW v \in 0..59 PROVE bitshift_bcd(v) \in 0..89
    OBVIOUS
  <2>1. v % 10 \in 0..9 /\ v \div 10 \in 0..5
    BY SMT
  <2> QED
    BY <2>1 DEF bitshift_bcd
<1>3. c[3].hrs \in 0..59
  <2>1. CASE c[3].is24hr
    BY <2>1 DEF ValidTime
  <2>2. CASE ~c[3].is24hr
    BY <2>2 DEF ValidTime
  <2> QED
    BY <2>1, <2>2
<1>4. bitshift_bcd(c[1]) \in 0..89 /\ bitshift_bcd(c[2]) \in 0..89
      /\ bitshift_bcd(c[3].hrs) \in 0..89
  BY <1>2, <1>3 DEF ValidTime
<1>5. bitshift_bcd(c[5]) \in 0..153 /\ bitshift_bcd(c[6]) \in 0..153
      /\ bitshift_bcd(c[7]) \in 0..153
  BY <1>1 DEF ValidTime
<1>6. (IF c[3].is24hr THEN 0 ELSE IF c[3].ampm THEN 64 ELSE 96) \in 0..96
  BY SMT
<1>7. c[4] + 32 \in 0..255
  BY DEF ValidTime
<1>8. /\ bitshift_bcd(c[1]) + 128 \in 0..255 /\ bitshift_bcd(c[2]) + 128 \in 0..255
      /\ bitshift_bcd(c[3].hrs)
           + (IF c[3].is24hr THEN 0 ELSE IF c[3].ampm THEN 64 ELSE 96) \in 0..255
  BY <1>4, <1>6
<1>9. /\ Encode(c)[1] \in 0..255 /\ Encode(c)[2] \in 0..255 /\ Encode(c)[3] \in 0..255
      /\ Encode(c)[4] \in 0..255 /\ Encode(c)[5] \in 0..255 /\ Encode(c)[6] \in 0..255
      /\ Encode(c)[7] \in 0..255
  BY <1>5, <1>7, <1>8 DEF Encode
<1>10. \A i \in Registers : i \in {1, 2, 3, 4, 5, 6, 7}
  BY DEF Registers
<1> QED
  BY <1>4, <1>9, <1>10

(***************************************************************************)
(* LogToSerial's conversion of registers that stand for a valid time is    *)
(* that time, but for the month in a leap year.                            *)
(***************************************************************************)
LEMMA DecodeReads ==
    ASSUME NEW regs0, NEW c, ValidTime(c), Stands(regs0, c)
    PROVE  LET l == Decode(Shown(regs0, c))
           IN  /\ l.seconds = c[1] /\ l.minutes = c[2]
               /\ l.hours = c[3].hrs
               /\ l.amIndicator = "" <=> c[3].is24hr
               /\ l.day = c[5] /\ l.year = c[7]
               /\ ~LeapYear(c[7]) => l.month = c[6]
<1> DEFINE r == Shown(regs0, c)
<1>0. /\ \A i \in {1, 2, 3, 5, 7} : r[i] = regs0[i]
      /\ ~LeapYear(c[7]) => r[6] = regs0[6]
  BY DEF Shown, Stands, Registers
<1> HIDE DEF r
<1>1. \A v \in 0..79 : /\ bitshift_dec(bitshift_bcd(v), 7) = v
                       /\ bitshift_dec(bitshift_bcd(v) + 128, 7) = v
  <2> SUFFICES ASSUME NEW v \in 0..79
               PROVE  /\ bitshift_dec(bitshift_bcd(v), 7) = v
                      /\ bitshift_dec(bitshift_bcd(v) + 128, 7) = v
    OBVIOUS
  <2>1. v \in 0..99 /\ v \div 10 <= 7 /\ bitshift_bcd(v) \in Int
    BY DEF bitshift_bcd
  <2>2. bitshift_dec(bitshift_bcd(v) + 0, 7) = v
    BY <2>1, BcdInverse
  <2>3. bitshift_dec(bitshift_bcd(v) + 128, 7) = v
    BY <2>1, BcdInverse
  <2> QED
    BY <2>1, <2>2, <2>3
<1>2. /\ r[1] \in {bitshift_bcd(c[1]), bitshift_bcd(c[1]) + 128}
      /\ r[2] = bitshift_bcd(c[2]) + 128
      /\ r[3] = bitshift_bcd(c[3].hrs)
                  + (IF c[3].is24hr THEN 0 ELSE IF c[3].ampm THEN 64 ELSE 96)
      /\ r[5] = bitshift_bcd(c[5]) /\ (~LeapYear(c[7]) => r[6] = bitshift_bcd(c[6]))
      /\ r[7] = bitshift_bcd(c[7])
  BY <1>0 DEF Stands, Encode
<1>3. /\ bitshift_dec(r[1], 7) = c[1] /\ bitshift_dec(r[2], 7) = c[2]
      /\ bitshift_dec(r[5], 7) = c[5] /\ (~LeapYear(c[7]) => bitshift_dec(r[6], 7) = c[6])
  BY <1>1, <1>2 DEF ValidTime
<1>4. (r[7] % 16) + 10 * (r[7] \div 16) = c[7]
  <2>1. c[7] \in 0..99
    BY DEF ValidTime
  <2>2. c[7] % 10 \in 0..9 /\ c[7] \div 10 \in 0..9
        /\ c[7] = (c[7] % 10) + 10 * (c[7] \div 10)
    BY <2>1, TwoDigits
  <2>3. r[7] % 16 = c[7] % 10 /\ r[7] \div 16 = c[7] \div 10
    BY <1>2, <2>2, Nibbles DEF bitshift_bcd
  <2> QED
    BY <2>2, <2>3
<1>5. /\ Hours(r[3]) = c[3].hrs
      /\ ~Bit(r[3], 64) <=> c[3].is24hr
  <2>1. CASE c[3].is24hr
    <3>1. c[3].hrs \in 0..23 /\ bitshift_bcd(c[3].hrs) \in Int
      BY <2>1 DEF ValidTime, bitshift_bcd
    <3>2. r[3] = bitshift_bcd(c[3].hrs)
      BY <1>2, <2>1, <3>1
    <3> QED
      BY <1>1, <2>1, <3>1, <3>2, FormatFlag DEF Hours
  <2>2. CASE ~c[3].is24hr
    <3>1. c[3].hrs \in 0..12 /\ bitshift_bcd(c[3].hrs) \in Int
      BY <2>2 DEF ValidTime, bitshift_bcd
    <3>2. r[3] = bitshift_bcd(c[3].hrs) + 64 \/ r[3] = bitshift_bcd(c[3].hrs) + 96
      BY <1>2, <2>2, <3>1
    <3>3. c[3].hrs \in 0..99 /\ c[3].hrs \div 10 <= 1
      BY <3>1
    <3>4. bitshift_dec(r[3], 1) = c[3].hrs
      BY <3>2, <3>3, BcdInverse
    <3>5. Bit(r[3], 64)
      BY <3>1, <3>2, FormatFlag
    <3> QED
      BY <2>2, <3>4, <3>5 DEF Hours
  <2> QED
    BY <2>1, <2>2
<1> QED
  BY <1>3, <1>4, <1>5 DEF Decode, r

(* Every register set or written as 0 stands for the time that it is given. *)
LEMMA OverwriteStands ==
    ASSUME NEW c, NEW r, NEW d, NEW k \in 0..7,
           ValidTime(c), Stands(r, c), ValidTime(d)
    PROVE  /\ ValidTime(Overwrite(c, d, k))
           /\ Stands(Overwrite(r, Encode(d), k), Overwrite(c, d, k))
<1> DEFINE cc == Overwrite(c, d, k)
           rr == Overwrite(r, Encode(d), k)
<1>1. DOMAIN cc = Registers /\ DOMAIN rr = Registers
  BY DEF Overwrite
<1>2. \A i \in Registers : /\ cc[i] = (IF i <= k THEN d[i] ELSE c[i])
                           /\ rr[i] = (IF i <= k THEN Encode(d)[i] ELSE r[i])
  BY DEF Overwrite
<1> HIDE DEF cc, rr
<1>3. \A i \in 1..7 : cc[i] = d[i] \/ cc[i] = c[i]
  BY <1>2 DEF Registers
<1>4. ValidTime(cc)
  <2>1. /\ cc[1] \in 0..59 /\ cc[2] \in 0..59
        /\ cc[4] \in 1..7 /\ cc[5] \in 1..31 /\ cc[6] \in 1..12 /\ cc[7] \in 0..99
    BY <1>3 DEF ValidTime
  <2>2. cc[3] = d[3] \/ cc[3] = c[3]
    BY <1>3
  <2>3. /\ cc[3].is24hr \in BOOLEAN
        /\ cc[3].hrs \in (IF cc[3].is24hr THEN 0..23 ELSE 1..12)
    BY <2>2 DEF ValidTime
  <2> QED
    BY <1>1, <2>1, <2>3 DEF ValidTime
<1>5. rr[1] \in {bitshift_bcd(cc[1]), Encode(cc)[1]}
  <2>1. CASE k = 0
    <3>1. cc[1] = c[1] /\ rr[1] = r[1]
      BY <1>2, <2>1 DEF Registers
    <3> QED
      BY <3>1 DEF Stands, Encode
  <2>2. CASE k > 0
    <3>1. cc[1] = d[1] /\ rr[1] = Encode(d)[1]
      BY <1>2, <2>2 DEF Registers
    <3> QED
      BY <3>1 DEF Encode
  <2> QED
    BY <2>1, <2>2
<1>6. ASSUME NEW i \in 2..7 PROVE rr[i] = Encode(cc)[i]
  <2>1. \/ cc[i] = d[i] /\ rr[i] = Encode(d)[i]
        \/ cc[i] = c[i] /\ rr[i] = Encode(c)[i]
    BY <1>2 DEF Registers, Stands
  <2>2. i = 2 \/ i = 3 \/ i = 4 \/ i = 5 \/ i = 6 \/ i = 7
    OBVIOUS
  <2> QED
    BY <2>1, <2>2 DEF Encode
<1>7. Stands(rr, cc)
  BY <1>1, <1>5, <1>6 DEF Stands
<1> QED
  BY <1>4, <1>7 DEF cc, rr

(* The constructor's write of the seconds.                                 *)
LEMMA ZeroStands ==
    ASSUME NEW c, NEW r, ValidTime(c), Stands(r, c)
    PROVE  /\ ValidTime([c EXCEPT ![1] = 0])
           /\ Stands([r EXCEPT ![1] = 0], [c EXCEPT ![1] = 0])
<1> DEFINE cc == [c EXCEPT ![1] = 0]
           rr == [r EXCEPT ![1] = 0]
<1>1. DOMAIN cc = Registers /\ DOMAIN rr = Registers
  BY DEF ValidTime, Stands
<1>2. cc[1] = 0 /\ rr[1] = 0 /\ \A i \in 2..7 : cc[i] = c[i] /\ rr[i] = r[i]
  BY DEF ValidTime, Stands, Registers
<1> HIDE DEF cc, rr
<1>3. ValidTime(cc)
  BY <1>1, <1>2 DEF ValidTime
<1>4. bitshift_bcd(0) = 0
  BY DEF bitshift_bcd
<1>5. \A i \in 2..7 : Encode(cc)[i] = Encode(c)[i]
  <2> SUFFICES ASSUME NEW i \in 2..7 PROVE Encode(cc)[i] = Encode(c)[i]
    OBVIOUS
  <2>1. i = 2 \/ i = 3 \/ i = 4 \/ i = 5 \/ i = 6 \/ i = 7
    OBVIOUS
  <2> QED
    BY <1>2, <2>1 DEF Encode
<1>6. Stands(rr, cc)
  BY <1>1, <1>2, <1>4, <1>5 DEF Stands
<1> QED
  BY <1>3, <1>6 DEF cc, rr

(* The registers that SetDate fills, and those the device counts, stand.   *)
LEMMA EncodeStands ==
    ASSUME NEW c
    PROVE  Stands(Encode(c), c)
<1>1. DOMAIN Encode(c) = Registers
  BY DEF Encode, Registers
<1> QED
  BY <1>1 DEF Stands

(* A line that can be read is the registers'.                              *)
Logged == line \subseteq IF ready THEN {Decode(Shown(regs, clock))} ELSE {}

(* ClockInv in terms of its parts.                                         *)
LEMMA InvParts ==
    ClockInv <=> ValidTime(clock) /\ Stands(regs, clock) /\ Logged
<1>1. ASSUME ClockInv
      PROVE  ValidTime(clock) /\ Stands(regs, clock) /\ Logged
  BY <1>1 DEF ClockInv, RegistersValid, RegistersStand, ValidTime, Stands, Logged
<1>2. ASSUME ValidTime(clock), Stands(regs, clock), Logged
      PROVE  ClockInv
  <2>1. \A i \in Registers : regs[i] \in 0..255
    <3> SUFFICES ASSUME NEW i \in Registers PROVE regs[i] \in 0..255
      OBVIOUS
    <3>1. regs[i] = bitshift_bcd(clock[1]) \/ regs[i] = Encode(clock)[i]
      BY <1>2 DEF Stands, Registers
    <3> QED
      BY <1>2, <3>1, EncodeBytes
  <2>2. RegistersValid
    BY <1>2, <2>1 DEF RegistersValid, ValidTime
  <2>3. RegistersStand
    BY <1>2 DEF RegistersStand, ValidTime, Stands, Logged
  <2> QED
    BY <2>2, <2>3 DEF ClockInv
<1> QED
  BY <1>1, <1>2

-----------------------------------------------------------------------------
(* A battery has kept a valid time.                                        *)
LEMMA InitClock == Init => ClockInv
<1> SUFFICES ASSUME Init PROVE ClockInv
  OBVIOUS
<1>1. PICK d \in Times : clock = Meaning(d)
  BY DEF Init
<1>2. ValidTime(clock)
  BY <1>1, AcceptedIsValid, DatesAssumption, TimesAssumption
<1>3. Stands(regs, clock)
  BY EncodeStands DEF Init
<1>4. Logged
  BY DEF Init, Logged
<1> QED
  BY <1>2, <1>3, <1>4, InvParts

(* Each action leaves registers that stand for a valid time.               *)
LEMMA NextClock == ClockInv /\ [Next]_vars => ClockInv'
<1> SUFFICES ASSUME ClockInv, [Next]_vars PROVE ClockInv'
  OBVIOUS
<1>1. ValidTime(clock) /\ Stands(regs, clock) /\ Logged
  BY InvParts
<1>2. (ClockInv <=> ValidTime(clock) /\ Stands(regs, clock) /\ Logged)'
  BY InvParts, PTL
<1> SUFFICES ValidTime(clock') /\ Stands(regs', clock') /\ Logged'
  BY <1>2
<1>3. CASE Construct
  <2>1. ValidTime(clock') /\ Stands(regs', clock')
    BY <1>1, <1>3, ZeroStands DEF Construct
  <2>2. Logged'
    BY <1>1, <1>3 DEF Construct, Logged
  <2> QED
    BY <2>1, <2>2
<1>4. ASSUME NEW d \in Dates, SetDate(d)
      PROVE  ValidTime(clock') /\ Stands(regs', clock') /\ Logged'
  <2>1. CASE UNCHANGED <<clock, regs>>
    <3>1. ValidTime(clock') /\ Stands(regs', clock')
      BY <1>1, <2>1
    <3>2. Logged'
      BY <1>4 DEF SetDate, Logged
    <3> QED
      BY <3>1, <3>2
  <2>2. CASE \E k \in 0..7 :
               /\ Accepts(d)
               /\ clock' = Overwrite(clock, Meaning(d), k)
               /\ regs' = Overwrite(regs, Encode(Meaning(d)), k)
    <3>1. PICK k \in 0..7 :
               /\ Accepts(d)
               /\ clock' = Overwrite(clock, Meaning(d), k)
               /\ regs' = Overwrite(regs, Encode(Meaning(d)), k)
      BY <2>2
    <3>2. ValidTime(Meaning(d))
      BY <3>1, AcceptedIsValid, DatesAssumption
    <3>3. ValidTime(clock') /\ Stands(regs', clock')
      BY <1>1, <3>1, <3>2, OverwriteStands
    <3>4. Logged'
      BY <1>4 DEF SetDate, Logged
    <3> QED
      BY <3>3, <3>4
  <2> QED
    BY <1>4, <2>1, <2>2 DEF SetDate
<1>5. CASE TaskLoop
  <2>1. UNCHANGED <<clock, regs, ready>> /\ ready
    BY <1>5 DEF TaskLoop
  <2>2. line' \subseteq {Decode(Shown(regs, clock))}
    BY <1>5 DEF TaskLoop, LogToSerial
  <2> QED
    BY <1>1, <2>1, <2>2 DEF Logged
<1>6. CASE TimerExpires
  BY <1>1, <1>6 DEF TimerExpires, Logged
<1>7. CASE ClockAdvances
  <2>1. PICK d \in Times : clock' = Meaning(d) /\ regs' = Encode(Meaning(d))
    BY <1>7 DEF ClockAdvances
  <2>2. ValidTime(clock')
    BY <2>1, AcceptedIsValid, DatesAssumption, TimesAssumption
  <2>3. Stands(regs', clock')
    BY <2>1, EncodeStands
  <2> QED
    BY <1>7, <2>2, <2>3 DEF ClockAdvances, Logged
<1>8. CASE UNCHANGED vars
  BY <1>1, <1>8 DEF vars, Logged
<1> QED
  BY <1>3, <1>4, <1>5, <1>6, <1>7, <1>8 DEF Next

(***************************************************************************)
(* Whatever SetDate is called with, wherever its transfers break off, and  *)
(* however the clock counts, each register holds a value of its range in   *)
(* BCD with its flags, and fits in a byte.                                 *)
(***************************************************************************)
THEOREM InductiveInvariant == Spec => []ClockInv
BY InitClock, NextClock, PTL DEF Spec

(* What the invariant says of a line that was logged.                      *)
LEMMA ClockImpliesLogs == ClockInv => LogsClockTime
<1> SUFFICES ASSUME ClockInv, NEW l \in line
             PROVE  /\ l.seconds = clock[1] /\ l.minutes = clock[2]
                    /\ l.hours = clock[3].hrs
                    /\ l.amIndicator = "" <=> clock[3].is24hr
                    /\ l.day = clock[5] /\ l.year = clock[7]
                    /\ ~LeapYear(clock[7]) => l.month = clock[6]
  BY DEF LogsClockTime
<1>1. ValidTime(clock) /\ Stands(regs, clock) /\ Logged
  BY InvParts
<1>2. l = Decode(Shown(regs, clock))
  BY <1>1 DEF Logged
<1> QED
  BY <1>1, <1>2, DecodeReads

(***************************************************************************)
(* The time of a log line is the clock's, in both hour formats, for every  *)
(* date set and time counted, but that the device's leap-year flag gets    *)
(* into the month.                                                         *)
(***************************************************************************)
THEOREM LinesShowClock == Spec => []LogsClockTime
BY InductiveInvariant, ClockImpliesLogs, PTL
=============================================================================
