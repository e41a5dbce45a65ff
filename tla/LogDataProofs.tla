--------------------------- MODULE LogDataProofs ---------------------------
(***************************************************************************)
(* TLAPS proofs about the EEPROM logger, for every number of pages and of  *)
(* entries, every radix in which the pointer fits, and every sequence of   *)
(* failed transfers and resets.                                            *)
(***************************************************************************)
EXTENDS LogData, SequenceTheorems, TLAPS

(* Division by the radix.                                                   *)
LEMMA DivisionFacts ==
    ASSUME NEW v \in Nat
    PROVE  /\ Quotient(v) \in Nat /\ Quotient(v) = v \div Radix
           /\ Radix * Quotient(v) <= v
           /\ Remainder(v) \in Nat
           /\ v = Radix * Quotient(v) + Remainder(v)
  BY RadixAssumption DEF Quotient, Remainder

(* A number below r * b has a quotient below b.                             *)
LEMMA QuotientBound ==
    ASSUME NEW v \in Nat, NEW q \in Nat, NEW r \in Nat, NEW b \in Nat, r * q <= v, v < r * b
    PROVE  q < b
  <1> SUFFICES ASSUME b <= q PROVE FALSE
    OBVIOUS
  <1>1. r * b <= r * q
    OBVIOUS
  <1> QED BY <1>1

(* get_addr reads back what upd_addr has written.                           *)
LEMMA ValueOfDigits ==
    ASSUME NEW v \in Nat, v < Radix * Radix * Radix * Radix
    PROVE  Value(Digits(v)) = v
  <1> DEFINE q == Quotient(v)
             r == Quotient(q)
             s == Quotient(r)
             t == Quotient(s)
             R == Radix
  <1>1. R \in Nat \ {0, 1}
    BY RadixAssumption
  <1>2. q \in Nat /\ R * q <= v /\ v = R * q + Remainder(v) /\ Remainder(v) \in Nat
    BY DivisionFacts
  <1> HIDE DEF q
  <1>3. r \in Nat /\ R * r <= q /\ q = R * r + Remainder(q) /\ Remainder(q) \in Nat
    BY <1>2, DivisionFacts
  <1> HIDE DEF r
  <1>4. s \in Nat /\ R * s <= r /\ r = R * s + Remainder(r) /\ Remainder(r) \in Nat
    BY <1>3, DivisionFacts
  <1> HIDE DEF s
  <1>5. t \in Nat /\ R * t <= s /\ s = R * t + Remainder(s) /\ Remainder(s) \in Nat
    BY <1>4, DivisionFacts
  <1> HIDE DEF t, R
  <1>6. q < R * R * R
    <2>1. R * R * R \in Nat /\ v < R * (R * R * R)
      BY <1>1 DEF R
    <2> QED BY <1>1, <1>2, <2>1, QuotientBound
  <1>7. r < R * R
    <2>1. R * R \in Nat /\ q < R * (R * R)
      BY <1>1, <1>6
    <2> QED BY <1>1, <1>2, <1>3, <2>1, QuotientBound
  <1>8. s < R
    BY <1>1, <1>3, <1>4, <1>7, QuotientBound
  <1>9. t = 0
    <2>1. s < R * 1
      BY <1>1, <1>8
    <2>2. t < 1
      BY <1>1, <1>4, <1>5, <2>1, QuotientBound
    <2> QED BY <1>5, <2>2
  <1>10. Remainder(s) = s
    BY <1>1, <1>4, <1>5, <1>9
  <1>11. Value(Digits(v))
           = s * (R * R * R) + Remainder(r) * (R * R) + Remainder(q) * R + Remainder(v)
    BY <1>10 DEF Value, Digits, q, r, s, R
  <1>12. v = R * (R * (R * s + Remainder(r)) + Remainder(q)) + Remainder(v)
    BY <1>2, <1>3, <1>4
  <1> QED BY <1>1, <1>2, <1>3, <1>4, <1>11, <1>12

(* Division keeps integers, towards zero, and so do the digits.             *)
LEMMA DigitsType ==
    ASSUME NEW v \in Int
    PROVE  Quotient(v) \in Int /\ Remainder(v) \in Int /\ Digits(v) \in Number
  <1>1. ASSUME NEW x \in Int PROVE Quotient(x) \in Int /\ Remainder(x) \in Int
    BY RadixAssumption DEF Quotient, Remainder
  <1> QED BY <1>1 DEF Digits, Number

(* Every page number is an address in the device, and its own if it is one. *)
LEMMA PageFacts ==
    /\ Pages \in Nat \ {0} /\ Total \in Nat \ {0} /\ Pages < Total /\ Pages \in Device
    /\ \A p \in Int : DevicePage(p) \in Device
    /\ \A p \in Device : p \in Int /\ DevicePage(p) = p
  BY PagesAssumption DEF Total, Device, DevicePage


Content == Text \cup Number

(* What is left of a page by a write that broke off.                        *)
LEMMA BrokenType ==
    ASSUME NEW old \in Content, NEW new \in Content
    PROVE  /\ \A b \in Broken(old, new) : b \in Content
           /\ new \in Text => \A b \in Broken(old, new) : b \in {Noise, new}
  <1>1. CASE old \in Text \/ new \in Text
    BY <1>1 DEF Broken, Content, Text
  <1>2. CASE old \notin Text /\ new \notin Text
    <2>1. old \in Number /\ new \in Number
      BY <1>2 DEF Content
    <2>2. \A k \in 1..4 : [i \in 1..4 |-> IF i <= k THEN new[i] ELSE old[i]] \in Number
      BY <2>1 DEF Number
    <2> QED BY <1>2, <2>2 DEF Broken, Content
  <1> QED BY <1>1, <1>2

(* A page write changes one page of the device, or nothing. Text is whole   *)
(* or torn afterwards.                                                      *)
LEMMA WritePageType ==
    ASSUME TypeOK, NEW p \in Int, NEW c \in Content, NEW rc \in IICResults, WritePage(p, c, rc)
    PROVE  /\ mem' \in [Device -> Content] /\ busy' \in BOOLEAN
           /\ rc = 0 => mem' = [mem EXCEPT ![DevicePage(p)] = c]
           /\ \/ mem' = mem
              \/ \E b \in Content : /\ mem' = [mem EXCEPT ![DevicePage(p)] = b]
                                    /\ c \in Text => b \in {Noise, c}
  <1>1. busy' \in BOOLEAN
    BY DEF WritePage, TypeOK, device
  <1>2. mem \in [Device -> Content] /\ DevicePage(p) \in Device
    BY PageFacts DEF TypeOK, Content
  <1>3. CASE rc # 0 /\ UNCHANGED device
    BY <1>1, <1>2, <1>3 DEF device
  <1>4. ASSUME NEW b \in IF rc = 0 THEN {c} ELSE Broken(mem[DevicePage(p)], c),
               mem' = [mem EXCEPT ![DevicePage(p)] = b]
        PROVE  /\ mem' \in [Device -> Content]
               /\ rc = 0 => mem' = [mem EXCEPT ![DevicePage(p)] = c]
               /\ b \in Content
               /\ c \in Text => b \in {Noise, c}
    <2>1. b \in Content /\ (c \in Text => b \in {Noise, c})
      BY <1>2, BrokenType
    <2> QED BY <1>2, <1>4, <2>1
  <1> QED BY <1>1, <1>3, <1>4 DEF WritePage

(* What a read leaves in its buffer, and what get_addr makes of a page.     *)
LEMMA FetchedType ==
    ASSUME TypeOK, NEW p \in Int, NEW aw, NEW rc
    PROVE  Fetched(p, aw, rc) \in Content
  BY PageFacts DEF Fetched, TypeOK, Content, Text

LEMMA DecodedType ==
    ASSUME NEW c \in Content, NEW a \in Decoded(c)
    PROVE  a \in Int
  <1>1. \A x \in Number : Value(x) \in Int
    BY RadixAssumption DEF Value, Number
  <1> QED BY <1>1, PageFacts, ArgumentAssumption DEF Decoded, Content

(* The device is erased and nothing is in progress.                         *)
LEMMA InitTypeOK == Init => TypeOK
  <1>1. Init => busy \in BOOLEAN /\ intact \in BOOLEAN
    BY DEF Init
  <1> QED BY <1>1 DEF Init, TypeOK, Locks, Text

(* A Write, and a Reset as a Write of the pointer's page.                   *)
LEMMA WriteTypeOK ==
    ASSUME TypeOK, NEW p \in Int, NEW c \in Content, NEW l \in Locks, Write(p, c, l)
    PROVE  TypeOK'
  <1>1. mem' \in [Device -> Content] /\ busy' \in BOOLEAN /\ result' \in {0, 1, -1, -2}
    <2>1. CASE UNCHANGED device /\ result' = 1
      BY <2>1 DEF TypeOK, device, Content
    <2>2. ASSUME NEW rc \in IICResults, WritePage(p, c, rc), result' = rc
          PROVE  mem' \in [Device -> Content] /\ busy' \in BOOLEAN /\ result' \in {0, 1, -1, -2}
      BY <2>2, WritePageType DEF IICResults
    <2> QED BY <2>1, <2>2 DEF Write
  <1>2. intact' \in BOOLEAN
    BY DEF Write, Whole
  <1> QED BY <1>1, <1>2 DEF Write, NoRead, TypeOK, Locks, Content

(* The digits that upd_addr writes.                                         *)
LEMMA MovedType ==
    ASSUME TypeOK
    PROVE  Digits(IF page + 1 >= Pages THEN 0 ELSE page + 1) \in Content
  <1> DEFINE next == IF page + 1 >= Pages THEN 0 ELSE page + 1
  <1>1. next \in Int
    BY PageFacts DEF TypeOK
  <1> HIDE DEF next
  <1>2. Digits(next) \in Content
    BY <1>1, DigitsType DEF Content
  <1> QED BY <1>2 DEF next

(* The three steps of WriteAuto.                                            *)
LEMMA WriteAutoTypeOK ==
    ASSUME TypeOK,
           \/ \E d \in Entry : WriteAuto(d)
           \/ WriteAutoWrite
           \/ upd_addr
    PROVE  TypeOK'
  <1>1. ASSUME NEW d \in Entry, WriteAuto(d) PROVE TypeOK'
    <2>1. PICK aw \in IICResults, rc \in IICResults :
            /\ Reads(aw, rc)
            /\ \E a \in Decoded(Fetched(Pages, aw, rc)) : page' = IF a >= Pages THEN 0 ELSE a
            /\ intact' = (intact /\ aw = 0 /\ rc = 0)
      BY <1>1 DEF WriteAuto
    <2>2. mem' = mem /\ busy' \in BOOLEAN
      BY <2>1 DEF Reads
    <2>3. page' \in Int
      BY <2>1, FetchedType, DecodedType, PageFacts
    <2>4. intact' \in BOOLEAN
      BY <2>1
    <2> QED BY <1>1, <2>2, <2>3, <2>4 DEF WriteAuto, NoRead, TypeOK, Locks
  <1>2. CASE WriteAutoWrite
    <2>1. PICK rc \in IICResults : WritePage(page, entry, rc) /\ result' = rc
      BY <1>2 DEF WriteAutoWrite
    <2>2. entry \in Content /\ page \in Int
      BY DEF TypeOK, Content, Text
    <2>3. mem' \in [Device -> Content] /\ busy' \in BOOLEAN /\ result' \in {0, 1, -1, -2}
      BY <2>1, <2>2, WritePageType DEF IICResults
    <2>4. intact' \in BOOLEAN
      BY <1>2 DEF WriteAutoWrite, Whole
    <2> QED BY <1>2, <2>3, <2>4 DEF WriteAutoWrite, TypeOK, read, Content
  <1>3. CASE upd_addr
    <2> DEFINE next == IF page + 1 >= Pages THEN 0 ELSE page + 1
    <2>1. PICK rc \in IICResults : WritePage(Pages, Digits(next), rc)
      BY <1>3 DEF upd_addr
    <2>2. Pages \in Int
      BY PageFacts
    <2>3. Digits(next) \in Content
      BY MovedType
    <2> HIDE DEF next
    <2>4. mem' \in [Device -> Content] /\ busy' \in BOOLEAN
      BY <2>1, <2>2, <2>3, WritePageType
    <2>5. intact' \in BOOLEAN
      BY <1>3 DEF upd_addr, Whole
    <2> QED BY <1>3, <2>4, <2>5 DEF upd_addr, TypeOK, read, Content
  <1> QED BY <1>1, <1>2, <1>3

(* A step of a Read: a page that is refused, or is fetched and printed.     *)
LEMMA ReadStepForm ==
    ASSUME TypeOK, ReadStep
    PROVE  /\ mem' = mem /\ busy' \in BOOLEAN /\ result' \in {0, 1, -1, -2}
           /\ \/ ok(page, lock) /\ printed' = printed /\ failed' = failed
              \/ \E c \in Content :
                   /\ ~ok(page, lock) /\ printed' = Append(printed, c)
                   /\ \/ c = mem[DevicePage(page)] /\ failed' = failed
                      \/ failed' = failed \cup {page}
  <1>1. CASE ok(page, lock) /\ result' = 1 /\ UNCHANGED <<device, printed, failed>>
    BY <1>1 DEF TypeOK, device
  <1>2. ASSUME NEW aw \in IICResults, NEW rc \in IICResults, ~ok(page, lock),
               Reads(aw, rc), result' = rc,
               printed' = Append(printed, Fetched(page, aw, rc)),
               failed' = IF aw = 0 /\ rc = 0 THEN failed ELSE failed \cup {page}
        PROVE  /\ mem' = mem /\ busy' \in BOOLEAN /\ result' \in {0, 1, -1, -2}
               /\ \E c \in Content :
                    /\ ~ok(page, lock) /\ printed' = Append(printed, c)
                    /\ \/ c = mem[DevicePage(page)] /\ failed' = failed
                       \/ failed' = failed \cup {page}
    <2>1. mem' = mem /\ busy' \in BOOLEAN /\ result' \in {0, 1, -1, -2}
      BY <1>2 DEF Reads, IICResults
    <2>2. Fetched(page, aw, rc) \in Content
      BY FetchedType DEF TypeOK
    <2>3. \/ Fetched(page, aw, rc) = mem[DevicePage(page)] /\ failed' = failed
          \/ failed' = failed \cup {page}
      BY <1>2 DEF Fetched
    <2> QED BY <1>2, <2>1, <2>2, <2>3
  <1> QED BY <1>1, <1>2 DEF ReadStep

(* The steps of a Read.                                                     *)
LEMMA ReadTypeOK ==
    ASSUME TypeOK,
           \/ \E from \in Int, to \in Int, d \in Locks, l \in Locks : StartRead(from, to, d, l)
           \/ \E s, e \in Arguments, l \in Locks : ReadFT(s, e, l)
           \/ ReadStep
    PROVE  TypeOK'
  <1> USE DEF Locks
  <1>1. ASSUME NEW from \in Int, NEW to \in Int, NEW d \in Locks, NEW l \in Locks,
               StartRead(from, to, d, l)
        PROVE  TypeOK'
    <2>1. intact' \in BOOLEAN /\ busy' \in BOOLEAN
      BY <1>1 DEF StartRead, TypeOK, device
    <2> QED BY <1>1, <2>1 DEF StartRead, TypeOK, device
  <1>2. ASSUME NEW s \in Arguments, NEW e \in Arguments, NEW d \in Locks, ReadFT(s, e, d)
        PROVE  TypeOK'
    <2>1. s \in Int /\ e \in Int
      BY ArgumentAssumption
    <2>2. CASE StartRead(s, e, d, 0)
      BY <1>1, <2>1, <2>2
    <2>3. CASE /\ pc = "idle" /\ result' = 1 /\ dl' = d /\ NoRead
               /\ UNCHANGED <<device, pc, page, entry, intact>>
      <3>1. intact' \in BOOLEAN /\ busy' \in BOOLEAN
        BY <2>3 DEF TypeOK, device
      <3> QED BY <2>3, <3>1 DEF NoRead, TypeOK, device
    <2> QED BY <1>2, <2>2, <2>3 DEF ReadFT
  <1>3. CASE ReadStep
    <2>1. printed' \in Seq(Content)
      BY <1>3, ReadStepForm DEF TypeOK, Content
    <2>2. failed' \in SUBSET Int
      BY <1>3, ReadStepForm DEF TypeOK
    <2>3. intact' \in BOOLEAN /\ busy' \in BOOLEAN
      BY <1>3, ReadStepForm DEF TypeOK, ReadStep
    <2> QED BY <1>3, <2>1, <2>2, <2>3, ReadStepForm DEF ReadStep, TypeOK, Content
  <1> QED BY <1>1, <1>2, <1>3

(* Every step keeps the types.                                              *)
LEMMA NextTypeOK == TypeOK /\ [Next]_vars => TypeOK'
  <1> SUFFICES ASSUME TypeOK, [Next]_vars PROVE TypeOK'
    OBVIOUS
  <1>1. ASSUME NEW p \in Arguments, NEW d \in Entry, NEW l \in Locks, Write(p, d, l)
        PROVE  TypeOK'
    BY <1>1, WriteTypeOK, ArgumentAssumption DEF Content, Text
  <1>2. ASSUME NEW l \in Locks, Reset(l) PROVE TypeOK'
    <2>1. Pages \in Int /\ Digits(0) \in Content
      BY PageFacts, DigitsType DEF Content
    <2> QED BY <1>2, <2>1, WriteTypeOK DEF Reset
  <1>3. ASSUME NEW p \in Arguments, NEW l \in Locks, ReadPage(p, l) PROVE TypeOK'
    BY <1>3, ReadTypeOK, ArgumentAssumption DEF ReadPage
  <1>4. CASE ReadAll
    BY <1>4, ReadTypeOK, PageFacts DEF ReadAll, Locks
  <1>5. CASE DeviceReady
    <2>1. intact' \in BOOLEAN /\ busy' \in BOOLEAN
      BY <1>5 DEF DeviceReady, TypeOK
    <2> QED BY <1>5, <2>1 DEF DeviceReady, TypeOK, read
  <1>6. CASE Restart
    <2>1. intact' \in BOOLEAN /\ busy' \in BOOLEAN
      BY <1>6 DEF Restart, TypeOK, device
    <2> QED BY <1>6, <2>1 DEF Restart, NoRead, TypeOK, device, Locks
  <1>7. CASE UNCHANGED vars
    BY <1>7 DEF vars, device, read, TypeOK
  <1> QED
    BY <1>1, <1>2, <1>3, <1>4, <1>5, <1>6, <1>7, WriteAutoTypeOK, ReadTypeOK DEF Next

-----------------------------------------------------------------------------
(* The pointer *)

(* The numbers of the log's pages fit into four digits.                     *)
LEMMA PagesFit == Pages < Radix * Radix * Radix * Radix
  BY RadixAssumption

(* The pointer that is stored as digits is what get_addr makes of them.     *)
LEMMA StoredPointer ==
    ASSUME NEW v \in 0..(Pages - 1)
    PROVE  Value(Digits(v)) = v /\ Digits(v) \notin Text
  <1>1. v \in Nat /\ v < Radix * Radix * Radix * Radix
    <2>1. v \in Nat /\ v < Pages /\ Pages \in Nat
      BY PageFacts
    <2>2. Radix * Radix * Radix * Radix \in Nat
      BY RadixAssumption
    <2> QED BY <2>1, <2>2, PagesFit
  <1> QED BY <1>1, ValueOfDigits, ContentAssumption

(* An intact pointer is the number of a page of the log.                    *)
LEMMA PointerFacts ==
    ASSUME PointerInv, intact
    PROVE  /\ Pointer \in 0..(Pages - 1)
           /\ Decoded(mem[Pages]) = {IF mem[Pages] = Blank THEN Pages ELSE Pointer}
           /\ mem[Pages] = Blank => Pointer = 0
  <1>1. CASE mem[Pages] = Blank
    BY <1>1, PageFacts DEF Pointer, Decoded, Text
  <1>2. CASE mem[Pages] # Blank
    <2>1. PICK v \in 0..(Pages - 1) : mem[Pages] = Digits(v)
      BY <1>2 DEF PointerInv
    <2> QED BY <1>2, <2>1, StoredPointer DEF Pointer, Decoded
  <1> QED BY <1>1, <1>2

(* Nothing makes a damaged pointer intact again.                            *)
LEMMA IntactBefore ==
    ASSUME [Next]_vars, intact'
    PROVE  intact
  BY DEF Next, Write, Reset, Whole, WriteAuto, WriteAutoWrite, upd_addr, ReadPage, ReadAll,
         ReadFT, StartRead, ReadStep, DeviceReady, Restart, vars

(* get_addr reads an intact pointer, and WriteAuto begins at its page, or   *)
(* somewhere below the end of the log.                                      *)
LEMMA WriteAutoPage ==
    ASSUME TypeOK, PointerInv, NEW d \in Entry, WriteAuto(d)
    PROVE  /\ mem' = mem /\ pc = "idle" /\ pc' = "write"
           /\ page' < Pages
           /\ intact' => page' = Pointer
  <1>1. PICK aw \in IICResults, rc \in IICResults :
          /\ Reads(aw, rc)
          /\ \E a \in Decoded(Fetched(Pages, aw, rc)) : page' = IF a >= Pages THEN 0 ELSE a
          /\ intact' = (intact /\ aw = 0 /\ rc = 0)
    BY DEF WriteAuto
  <1>2. page' < Pages
    BY <1>1, FetchedType, DecodedType, PageFacts
  <1>3. ASSUME intact' PROVE page' = Pointer
    <2>1. Fetched(Pages, aw, rc) = mem[Pages] /\ intact
      BY <1>1, <1>3, PageFacts DEF Fetched
    <2>2. \E a \in {IF mem[Pages] = Blank THEN Pages ELSE Pointer} :
            page' = IF a >= Pages THEN 0 ELSE a
      BY <1>1, <2>1, PointerFacts
    <2> QED BY <2>1, <2>2, PointerFacts, PageFacts
  <1> QED BY <1>1, <1>2, <1>3 DEF WriteAuto, Reads

(* The position after an intact pointer's.                                  *)
LEMMA NextPosition ==
    ASSUME NEW v \in 0..(Pages - 1)
    PROVE  /\ (IF v + 1 >= Pages THEN 0 ELSE v + 1) = (v + 1) % Pages
           /\ (v + 1) % Pages \in 0..(Pages - 1)
  <1>1. CASE v + 1 >= Pages
    BY <1>1, PageFacts
  <1>2. CASE v + 1 < Pages
    BY <1>2, PageFacts
  <1> QED BY <1>1, <1>2, PageFacts

(* upd_addr leaves an intact pointer alone or moves it on.                  *)
LEMMA UpdAddrPointer ==
    ASSUME PointerInv, upd_addr, intact, intact'
    PROVE  mem'[Pages] \in {mem[Pages], Digits((Pointer + 1) % Pages)}
  <1>1. page = Pointer /\ Pointer \in 0..(Pages - 1)
    BY PointerFacts DEF PointerInv, upd_addr
  <1>2. (IF page + 1 >= Pages THEN 0 ELSE page + 1) = (Pointer + 1) % Pages
    BY <1>1, NextPosition
  <1> QED BY <1>2 DEF upd_addr, Whole

(* A step that leaves the pointer intact, and WriteAuto alone.              *)
LEMMA SamePointerInv ==
    ASSUME PointerInv, intact' => intact,
           intact' => mem'[Pages] \in {mem[Pages]} \cup {Digits(v) : v \in 0..(Pages - 1)},
           pc' \in {"write", "upd"} =>
             /\ pc \in {"write", "upd"} /\ page' = page
             /\ intact' => mem'[Pages] = mem[Pages]
    PROVE  PointerInv'
  <1>1. ASSUME intact'
        PROVE  mem'[Pages] \in {Blank} \cup {Digits(v) : v \in 0..(Pages - 1)}
    BY <1>1 DEF PointerInv
  <1>2. ASSUME intact', pc' \in {"write", "upd"} PROVE page' = Pointer'
    BY <1>2 DEF PointerInv, Pointer
  <1>3. pc' \in {"write", "upd"} => page' < Pages
    BY DEF PointerInv
  <1> QED BY <1>1, <1>2, <1>3 DEF PointerInv

(* The steps that only read the device, or touch no page of it.             *)
Reading ==
    \/ \E p \in Arguments, l \in Locks : ReadPage(p, l)
    \/ ReadAll
    \/ \E s, e \in Arguments, l \in Locks : ReadFT(s, e, l)
    \/ ReadStep

LEMMA ReadChangesNothing ==
    ASSUME TypeOK, Reading
    PROVE  /\ mem' = mem /\ intact' = intact
           /\ pc \in {"idle", "read"} /\ pc' \in {"idle", "read"}
  <1>1. ASSUME NEW from, NEW to, NEW d, NEW l, StartRead(from, to, d, l)
        PROVE  mem' = mem /\ intact' = intact /\ pc = "idle" /\ pc' = "read"
    BY <1>1 DEF StartRead, device
  <1>2. ASSUME NEW s, NEW e, NEW l, ReadFT(s, e, l)
        PROVE  mem' = mem /\ intact' = intact /\ pc = "idle" /\ pc' \in {"idle", "read"}
    <2>1. CASE StartRead(s, e, l, 0)
      BY <1>1, <2>1
    <2>2. CASE pc = "idle" /\ UNCHANGED <<device, pc, page, entry, intact>>
      BY <2>2 DEF device
    <2> QED BY <1>2, <2>1, <2>2 DEF ReadFT
  <1>3. CASE ReadStep
    <2>1. mem' = mem
      BY <1>3, ReadStepForm
    <2> QED BY <1>3, <2>1 DEF ReadStep
  <1> QED BY <1>1, <1>2, <1>3 DEF Reading, ReadPage, ReadAll

(* Every step keeps the pointer's invariant.                                *)
LEMMA NextPointerInv == TypeOK /\ PointerInv /\ [Next]_vars => PointerInv'
  <1> SUFFICES ASSUME TypeOK, PointerInv, [Next]_vars PROVE PointerInv'
    OBVIOUS
  <1>0. /\ intact' => intact
        /\ 0 \in 0..(Pages - 1)
    BY IntactBefore, PageFacts
  <1>1. ASSUME NEW p, NEW c, NEW l, Write(p, c, l) PROVE PointerInv'
    <2>1. pc' = "idle" /\ (intact' => mem'[Pages] \in {mem[Pages], Digits(0)})
      BY <1>1 DEF Write, Whole
    <2> QED BY <1>0, <2>1, SamePointerInv
  <1>2. ASSUME NEW d \in Entry, WriteAuto(d) PROVE PointerInv'
    <2>1. /\ mem' = mem /\ page' < Pages
          /\ intact' => page' = Pointer
      BY <1>2, WriteAutoPage
    <2>2. Pointer' = Pointer
      BY <2>1 DEF Pointer
    <2> QED BY <1>0, <2>1, <2>2 DEF PointerInv
  <1>3. CASE WriteAutoWrite
    <2>1. /\ pc = "write" /\ page' = page
          /\ intact' => mem'[Pages] = mem[Pages]
      BY <1>3 DEF WriteAutoWrite, Whole
    <2> QED BY <1>0, <2>1, SamePointerInv
  <1>4. CASE upd_addr
    <2>1. intact' => mem'[Pages] \in {mem[Pages], Digits((Pointer + 1) % Pages)}
      BY <1>0, <1>4, UpdAddrPointer
    <2>2. intact' => (Pointer + 1) % Pages \in 0..(Pages - 1)
      BY <1>0, PointerFacts, NextPosition
    <2>3. pc' = "idle"
      BY <1>4 DEF upd_addr
    <2> QED BY <1>0, <2>1, <2>2, <2>3, SamePointerInv
  <1>5. CASE Reading
    BY <1>0, <1>5, ReadChangesNothing, SamePointerInv
  <1>6. CASE DeviceReady \/ Restart
    BY <1>0, <1>6, SamePointerInv DEF DeviceReady, Restart, device
  <1>7. CASE UNCHANGED vars
    BY <1>0, <1>7, SamePointerInv DEF vars, device
  <1> QED BY <1>1, <1>2, <1>3, <1>4, <1>5, <1>6, <1>7 DEF Next, Reset, Reading

-----------------------------------------------------------------------------
(* Reads *)

(* Calls that print nothing.                                                *)
LEMMA NothingPrinted ==
    ASSUME first' = 0, last' = -1, printed' = <<>>, pc' # "read"
    PROVE  ReadInv'
  <1>1. ReadEnd' = -1
    BY PageFacts DEF ReadEnd
  <1>2. Len(printed') = 0 /\ DOMAIN printed' = {}
    OBVIOUS
  <1>3. Printed(ReadEnd)'
    BY <1>1, <1>2 DEF Printed
  <1> QED BY <1>3 DEF ReadInv, ReadComplete

(* Steps that leave the Read and the device's pages alone.                  *)
LEMMA SameReadInv ==
    ASSUME ReadInv, UNCHANGED <<mem, pc, page, read>>
    PROVE  ReadInv'
  BY DEF ReadInv, ReadComplete, ReadEnd, Printed, read

(* A Read begins with nothing printed.                                      *)
LEMMA StartReadInv ==
    ASSUME TypeOK, NEW from \in Int, NEW to \in Int, NEW d, NEW l, from <= to,
           StartRead(from, to, d, l)
    PROVE  ReadInv'
  <1> DEFINE e == IF page - 1 <= ReadEnd THEN page - 1 ELSE ReadEnd
  <1>1. pc' = "read" /\ page' = from /\ first' = from /\ last' = to /\ printed' = <<>>
    BY DEF StartRead
  <1>2. e' \in Int /\ e' < first'
    BY <1>1, PageFacts DEF ReadEnd
  <1> HIDE DEF e
  <1>3. Len(printed') = 0 /\ DOMAIN printed' = {}
    BY <1>1
  <1>4. Printed(e)'
    BY <1>2, <1>3 DEF Printed
  <1>5. page' \in first'..last'
    BY <1>1
  <1> QED BY <1>1, <1>4, <1>5 DEF ReadInv, ReadComplete, e

(* What has been printed grows by the page that is read.                    *)
LEMMA PrintedGrows ==
    ASSUME TypeOK, page >= first, Printed(page - 1),
           NEW c \in Content, printed' = Append(printed, c),
           \/ c = mem[DevicePage(page)] /\ failed' = failed
           \/ failed' = failed \cup {page}
    PROVE  /\ Len(printed') = page - first + 1
           /\ \A k \in DOMAIN printed' :
                first + k - 1 \in failed' \/ printed'[k] = mem[DevicePage(first + k - 1)]
  <1>1. page \in Int /\ first \in Int /\ printed \in Seq(Content)
    BY DEF TypeOK, Content
  <1>2. Len(printed) = page - first
    BY <1>1 DEF Printed
  <1>3. /\ Len(printed') = page - first + 1 /\ DOMAIN printed' = 1..(page - first + 1)
        /\ \A k \in 1..(page - first) : printed'[k] = printed[k]
        /\ printed'[page - first + 1] = c
    BY <1>1, <1>2
  <1>4. ASSUME NEW k \in DOMAIN printed'
        PROVE  first + k - 1 \in failed' \/ printed'[k] = mem[DevicePage(first + k - 1)]
    <2>1. CASE k = page - first + 1
      <3>1. first + k - 1 = page
        BY <1>1, <2>1
      <3> QED BY <1>3, <2>1, <3>1
    <2>2. CASE k # page - first + 1
      <3>1. k \in 1..(page - first) /\ k \in DOMAIN printed
        BY <1>1, <1>2, <1>3, <2>2
      <3>2. first + k - 1 \in failed \/ printed[k] = mem[DevicePage(first + k - 1)]
        BY <3>1 DEF Printed
      <3> QED BY <1>3, <3>1, <3>2
    <2> QED BY <2>1, <2>2
  <1> QED BY <1>3, <1>4

(* One page of a Read: it is printed, or is past the last allowed one.      *)
LEMMA ReadStepInv ==
    ASSUME TypeOK, ReadInv, ReadStep
    PROVE  ReadInv'
  <1> DEFINE before == IF page - 1 <= ReadEnd THEN page - 1 ELSE ReadEnd
             after == IF page <= ReadEnd THEN page ELSE ReadEnd
  <1>1. pc = "read" /\ page \in first..last /\ Printed(before)
    BY DEF ReadInv, ReadStep
  <1>2. page \in Int /\ first \in Int /\ last \in Int /\ Pages \in Nat /\ page >= first
    BY <1>1, PageFacts DEF TypeOK
  <1>3. ReadEnd \in Int /\ ReadEnd <= last
    BY <1>2 DEF ReadEnd
  <1>4. mem' = mem /\ first' = first /\ last' = last /\ lock' = lock
    BY ReadStepForm DEF ReadStep
  <1>5. ReadEnd' = ReadEnd
    BY <1>4 DEF ReadEnd
  <1>6. /\ Len(printed') = IF after < first THEN 0 ELSE after - first + 1
        /\ \A k \in DOMAIN printed' :
             first + k - 1 \in failed' \/ printed'[k] = mem[DevicePage(first + k - 1)]
    <2>1. CASE ok(page, lock)
      <3>1. ReadEnd <= page - 1
        BY <1>1, <1>2, <2>1 DEF ok, ReadEnd
      <3>2. before = ReadEnd /\ after = ReadEnd
        BY <1>2, <1>3, <3>1
      <3>3. printed' = printed /\ failed' = failed
        BY <2>1, ReadStepForm
      <3> HIDE DEF before, after
      <3> QED BY <1>1, <3>2, <3>3 DEF Printed
    <2>2. CASE ~ok(page, lock)
      <3>1. page <= ReadEnd
        BY <1>1, <1>2, <2>2 DEF ok, ReadEnd
      <3>2. before = page - 1 /\ after = page
        BY <1>2, <1>3, <3>1
      <3>3. PICK c \in Content :
              /\ printed' = Append(printed, c)
              /\ \/ c = mem[DevicePage(page)] /\ failed' = failed
                 \/ failed' = failed \cup {page}
        BY <2>2, ReadStepForm
      <3> HIDE DEF before, after
      <3>4. Printed(page - 1)
        BY <1>1, <3>2
      <3>5. /\ Len(printed') = page - first + 1
            /\ \A k \in DOMAIN printed' :
                 first + k - 1 \in failed' \/ printed'[k] = mem[DevicePage(first + k - 1)]
        BY <1>2, <3>3, <3>4, PrintedGrows
      <3>6. ~(after < first)
        BY <1>2, <3>2
      <3> QED BY <3>2, <3>5, <3>6
    <2> QED BY <2>1, <2>2
  <1>7. CASE More
    <2>1. pc' = "read" /\ page' = page + 1
      BY <1>1, <1>7 DEF ReadStep
    <2>2. page' \in first'..last' /\ page' - 1 = page
      BY <1>1, <1>2, <1>4, <1>7, <2>1 DEF More
    <2>3. before' = after
      BY <1>5, <2>2
    <2> HIDE DEF before, after
    <2>4. Printed(before)'
      BY <1>4, <1>6, <2>3 DEF Printed
    <2> QED BY <2>1, <2>2, <2>4 DEF ReadInv, ReadComplete, before
  <1>8. CASE ~More
    <2>1. pc' = "idle"
      BY <1>8 DEF ReadStep
    <2>2. after = ReadEnd
      BY <1>1, <1>2, <1>3, <1>8 DEF More
    <2> HIDE DEF before, after
    <2>3. Printed(ReadEnd)'
      BY <1>4, <1>5, <1>6, <2>2 DEF Printed
    <2> QED BY <2>1, <2>3 DEF ReadInv, ReadComplete
  <1> QED BY <1>7, <1>8

(* Every step keeps what is known of a Read.                                *)
LEMMA NextReadInv == TypeOK /\ ReadInv /\ [Next]_vars => ReadInv'
  <1> SUFFICES ASSUME TypeOK, ReadInv, [Next]_vars PROVE ReadInv'
    OBVIOUS
  <1>1. CASE \/ \E p \in Arguments, d \in Entry, l \in Locks : Write(p, d, l)
             \/ \E l \in Locks : Reset(l)
             \/ \E d \in Entry : WriteAuto(d)
             \/ Restart
    BY <1>1, NothingPrinted DEF Write, Reset, WriteAuto, Restart, NoRead
  <1>2. CASE WriteAutoWrite \/ upd_addr
    BY <1>2, NothingPrinted DEF WriteAutoWrite, upd_addr, read, ReadInv
  <1>3. ASSUME NEW p \in Arguments, NEW l \in Locks, ReadPage(p, l) PROVE ReadInv'
    BY <1>3, StartReadInv, ArgumentAssumption DEF ReadPage
  <1>4. CASE ReadAll
    BY <1>4, StartReadInv, PageFacts DEF ReadAll
  <1>5. ASSUME NEW s \in Arguments, NEW e \in Arguments, NEW l \in Locks, ReadFT(s, e, l)
        PROVE  ReadInv'
    <2>1. s \in Int /\ e \in Int
      BY ArgumentAssumption
    <2>2. CASE ~Refuses(s, e)
      <3>1. s <= e
        BY <2>1, <2>2 DEF Refuses
      <3> QED BY <1>5, <2>1, <2>2, <3>1, StartReadInv DEF ReadFT
    <2>3. CASE Refuses(s, e)
      BY <1>5, <2>3, NothingPrinted DEF ReadFT, NoRead
    <2> QED BY <2>2, <2>3
  <1>6. CASE ReadStep
    BY <1>6, ReadStepInv
  <1>7. CASE DeviceReady
    BY <1>7, SameReadInv DEF DeviceReady
  <1>8. CASE UNCHANGED vars
    BY <1>8, SameReadInv DEF vars, device
  <1> QED BY <1>1, <1>2, <1>3, <1>4, <1>5, <1>6, <1>7, <1>8 DEF Next

-----------------------------------------------------------------------------
(* The inductive invariant: types, the pointer as long as it is intact, and *)
(* the progress of a Read hold in every state, for every page number that   *)
(* is passed, every failure of a transfer and every reset.                  *)
THEOREM InductiveInvariant == Spec => []LogInv
  <1>1. Init => LogInv
    <2>1. Init => PointerInv
      BY PageFacts DEF Init, PointerInv
    <2>2. Init => ReadInv
      BY PageFacts DEF Init, ReadInv, ReadComplete, ReadEnd, Printed
    <2> QED BY <2>1, <2>2, InitTypeOK DEF LogInv
  <1>2. LogInv /\ [Next]_vars => LogInv'
    BY NextTypeOK, NextPointerInv, NextReadInv DEF LogInv
  <1> QED BY <1>1, <1>2, PTL DEF Spec

(* A Read prints each page of its range that it is allowed to read once and *)
(* in order, and what it prints for a page is what the page holds unless a  *)
(* transfer for that very page failed.                                      *)
THEOREM ReadIsComplete == Spec => []ReadComplete
  <1>1. LogInv => ReadComplete
    BY DEF LogInv, ReadInv
  <1> QED BY <1>1, InductiveInvariant, PTL

(* Only a negative page number gets past ok() into the reserved pages, no   *)
(* matter what fails.                                                       *)
THEOREM OnlyNegativeStray == Spec => OnlyNegativePagesStray
  <1> DEFINE Good ==
        \A p \in Pages..(Total - 1) :
          mem'[p] # mem[p] => dl' = DEVLOCK \/ (p = Pages /\ pc = "upd") \/ page' < 0
  <1>1. ASSUME LogInv, [Next]_vars PROVE [Good]_vars
    <2> USE <1>1 DEF LogInv
    <2>1. ASSUME NEW q \in Int, NEW c \in Content, NEW rc \in IICResults, WritePage(q, c, rc),
                 0 <= q, q < Pages,
                 NEW p \in Pages..(Total - 1)
          PROVE  mem'[p] = mem[p]
      <3>1. DevicePage(q) = q /\ p \in Device /\ p # q
        BY <2>1, PageFacts DEF Device
      <3> QED BY <2>1, <3>1, WritePageType DEF TypeOK
    <2>2. ASSUME NEW q \in Int, NEW c \in Content, NEW l \in Locks, Write(q, c, l)
          PROVE  Good
      <3>1. CASE mem' = mem
        BY <3>1
      <3>2. ASSUME ~ok(q, l), NEW rc \in IICResults, WritePage(q, c, rc)
            PROVE  Good
        <4>1. dl' = l /\ page' = q
          BY <2>2 DEF Write
        <4>2. l = DEVLOCK \/ q < Pages
          BY <3>2, PageFacts DEF ok
        <4> QED BY <2>1, <3>2, <4>1, <4>2
      <3> QED BY <2>2, <3>1, <3>2 DEF Write, device
    <2>3. CASE WriteAutoWrite
      <3>1. PICK rc \in IICResults : WritePage(page, entry, rc)
        BY <2>3 DEF WriteAutoWrite
      <3>2. page \in Int /\ entry \in Content
        BY DEF TypeOK, Content, Text
      <3>3. page < Pages /\ page' = page
        BY <2>3 DEF WriteAutoWrite, PointerInv
      <3> QED BY <2>1, <3>1, <3>2, <3>3
    <2>4. CASE upd_addr
      <3> DEFINE new == Digits(IF page + 1 >= Pages THEN 0 ELSE page + 1)
      <3>1. PICK rc \in IICResults : WritePage(Pages, new, rc)
        BY <2>4 DEF upd_addr
      <3>2. new \in Content
        BY MovedType
      <3> HIDE DEF new
      <3>3. \A p \in Pages..(Total - 1) : p \in Device
        BY PageFacts DEF Device
      <3>4. \A p \in Pages..(Total - 1) : p # Pages => mem'[p] = mem[p]
        BY <3>1, <3>2, <3>3, WritePageType, PageFacts DEF TypeOK
      <3> QED BY <2>4, <3>4 DEF upd_addr
    <2>5. ASSUME NEW d \in Entry, WriteAuto(d) PROVE Good
      BY <2>5, WriteAutoPage
    <2>6. CASE Reading
      BY <2>6, ReadChangesNothing
    <2>7. CASE DeviceReady \/ Restart
      BY <2>7 DEF DeviceReady, Restart, device
    <2>8. ASSUME NEW p \in Arguments, NEW d \in Entry, NEW l \in Locks, Write(p, d, l)
          PROVE  Good
      BY <2>2, <2>8, ArgumentAssumption DEF Content, Text
    <2>9. ASSUME NEW l \in Locks, Reset(l) PROVE Good
      <3>1. Pages \in Int /\ Digits(0) \in Content
        BY PageFacts, DigitsType DEF Content
      <3> QED BY <2>2, <2>9, <3>1 DEF Reset
    <2> QED BY <2>3, <2>4, <2>5, <2>6, <2>7, <2>8, <2>9 DEF Next, Reading
  <1> QED BY <1>1, InductiveInvariant, PTL DEF Spec, OnlyNegativePagesStray

-----------------------------------------------------------------------------
(* The ring of entries *)

Entries == [p \in 0..(Pages - 1) |-> mem[p]]

(* The pages of the log are pages of the device, and not the pointer's.     *)
LEMMA LogPages ==
    /\ 0..(Pages - 1) \subseteq Device /\ Pages \notin 0..(Pages - 1) /\ Pages \in Device
    /\ \A p \in 0..(Pages - 1) : DevicePage(p) = p
    /\ DevicePage(Pages) = Pages
  BY PageFacts DEF Device

(* What the ring sees of a write to a page of the log, and of one outside.  *)
LEMMA RingWrite ==
    ASSUME TypeOK, NEW p \in 0..(Pages - 1), NEW c, mem' = [mem EXCEPT ![p] = c]
    PROVE  Entries' = [Entries EXCEPT ![p] = c] /\ Pointer' = Pointer
  <1>1. mem'[Pages] = mem[Pages]
    BY LogPages DEF TypeOK
  <1> QED BY <1>1, LogPages DEF Entries, Pointer, TypeOK

LEMMA RingAside ==
    ASSUME TypeOK, NEW p \in Device \ (0..(Pages - 1)), NEW c, mem' = [mem EXCEPT ![p] = c]
    PROVE  Entries' = Entries
  BY LogPages DEF Entries, TypeOK

(* The pointer becomes a number, or stays.                                  *)
LEMMA RingMove ==
    ASSUME NEW v \in 0..(Pages - 1), mem'[Pages] \in {mem[Pages], Digits(v)}
    PROVE  Pointer' = Pointer \/ Pointer' = v
  BY StoredPointer DEF Pointer

(* A step that leaves the pages and WriteAuto alone does nothing to the     *)
(* ring.                                                                    *)
LEMMA RingStutter ==
    ASSUME mem' = mem, intact' = intact,
           \/ pc \in {"idle", "read"} /\ pc' \in {"idle", "read"}
           \/ pc' = pc /\ entry' = entry
    PROVE  UNCHANGED Ring!vars
  BY DEF Ring!vars, Pointer

(* Calls of Write and Reset between two WriteAutos.                         *)
LEMMA RingCall ==
    ASSUME pc = "idle", pc' = "idle", intact, intact', Entries' = Entries,
           Pointer' = Pointer \/ Pointer' = 0
    PROVE  [Ring!Next]_(Ring!vars)
  <1>1. CASE Pointer' = Pointer
    BY <1>1 DEF Ring!vars, Entries
  <1>2. CASE Pointer' = 0
    <2>1. Ring!Rewind
      BY <1>2 DEF Ring!Rewind, Entries
    <2> QED BY <2>1 DEF Ring!Next, Ring!Keeps
  <1> QED BY <1>1, <1>2

(* A Write with an intact pointer puts an entry, whole or torn, where the   *)
(* caller wants it, or does nothing to the ring.                            *)
LEMMA RingPut ==
    ASSUME TypeOK, intact, intact', NEW p \in Int, NEW d \in Entry, NEW l \in Locks,
           Write(p, d, l)
    PROVE  [Ring!Next]_(Ring!vars)
  <1> DEFINE q == DevicePage(p)
  <1>1. pc = "idle" /\ pc' = "idle" /\ mem'[Pages] \in {mem[Pages], Digits(0)}
    BY DEF Write, Whole
  <1>2. Pointer' = Pointer \/ Pointer' = 0
    BY <1>1, RingMove, PageFacts
  <1>3. CASE mem' = mem
    BY <1>1, <1>2, <1>3, RingCall DEF Entries
  <1>4. CASE mem' # mem
    <2>1. PICK rc \in IICResults : WritePage(p, d, rc)
      BY <1>4 DEF Write, device
    <2>2. d \in Content /\ d \in Text
      BY DEF Content, Text
    <2>3. PICK b \in {Noise, d} : mem' = [mem EXCEPT ![q] = b]
      BY <1>4, <2>1, <2>2, WritePageType
    <2>4. q \in Device
      BY PageFacts
    <2> HIDE DEF q
    <2>5. CASE q \in 0..(Pages - 1)
      <3>1. Entries' = [Entries EXCEPT ![q] = b] /\ Pointer' = Pointer
        BY <2>3, <2>5, RingWrite
      <3>2. Ring!Put(q, b)
        BY <1>1, <3>1 DEF Ring!Put, Entries
      <3>3. b \in Entry \cup {Noise}
        OBVIOUS
      <3>4. Ring!Keeps
        BY <2>5, <3>2, <3>3 DEF Ring!Keeps
      <3> QED BY <3>4 DEF Ring!Next
    <2>6. CASE q \notin 0..(Pages - 1)
      BY <1>1, <1>2, <2>3, <2>4, <2>6, RingAside, RingCall
    <2> QED BY <2>5, <2>6
  <1> QED BY <1>3, <1>4

(* Reset with an intact pointer goes back to the first page, or fails.      *)
LEMMA RingReset ==
    ASSUME TypeOK, intact, intact', NEW l \in Locks, Reset(l)
    PROVE  [Ring!Next]_(Ring!vars)
  <1>1. pc = "idle" /\ pc' = "idle" /\ mem'[Pages] \in {mem[Pages], Digits(0)}
    BY DEF Reset, Write, Whole
  <1>2. Pointer' = Pointer \/ Pointer' = 0
    BY <1>1, RingMove, PageFacts
  <1>3. Entries' = Entries
    <2>1. CASE mem' = mem
      BY <2>1 DEF Entries
    <2>2. CASE mem' # mem
      <3>1. PICK rc \in IICResults : WritePage(Pages, Digits(0), rc)
        BY <2>2 DEF Reset, Write, device
      <3>2. Digits(0) \in Content /\ Pages \in Int
        BY DigitsType, PageFacts DEF Content
      <3> QED BY <2>2, <3>1, <3>2, WritePageType, LogPages, RingAside
    <2> QED BY <2>1, <2>2
  <1> QED BY <1>1, <1>2, <1>3, RingCall

(* WriteAuto stores its entry at the position, or misses and tears at most  *)
(* that page.                                                               *)
LEMMA RingStore ==
    ASSUME TypeOK, PointerInv, intact, intact', WriteAutoWrite
    PROVE  Ring!Store \/ Ring!Miss
  <1>1. PICK rc \in IICResults : WritePage(page, entry, rc) /\ result' = rc
    BY DEF WriteAutoWrite
  <1>2. pc = "write" /\ page = Pointer /\ Pointer \in 0..(Pages - 1) /\ entry \in Entry
    BY PointerFacts DEF WriteAutoWrite, PointerInv, TypeOK
  <1>3. entry \in Content /\ entry \in Text /\ page \in Int /\ DevicePage(page) = Pointer
    BY <1>2, LogPages DEF Content, Text, TypeOK
  <1>4. CASE rc = 0
    <2>1. Entries' = [Entries EXCEPT ![Pointer] = entry] /\ Pointer' = Pointer
      BY <1>1, <1>2, <1>3, <1>4, WritePageType, RingWrite
    <2>2. pc' = "upd"
      BY <1>1, <1>4 DEF WriteAutoWrite
    <2> QED BY <1>2, <2>1, <2>2 DEF Ring!Store, Entries
  <1>5. CASE rc # 0
    <2>1. pc' = "idle"
      BY <1>1, <1>5 DEF WriteAutoWrite
    <2>2. PICK b \in {Entries[Pointer], entry, Noise} :
            Entries' = [Entries EXCEPT ![Pointer] = b] /\ Pointer' = Pointer
      <3>1. CASE mem' = mem
        BY <1>2, <3>1 DEF Entries, Pointer
      <3>2. CASE mem' # mem
        <4>1. PICK b \in {Noise, entry} : mem' = [mem EXCEPT ![Pointer] = b]
          BY <1>1, <1>3, <3>2, WritePageType
        <4> QED BY <1>2, <4>1, RingWrite
      <3> QED BY <3>1, <3>2
    <2> QED BY <1>2, <2>1, <2>2 DEF Ring!Miss, Entries
  <1> QED BY <1>4, <1>5

(* upd_addr moves the position on by one, or loses the move.                *)
LEMMA RingAdvance ==
    ASSUME TypeOK, PointerInv, intact, intact', upd_addr
    PROVE  Ring!Advance \/ Ring!Lose
  <1> DEFINE new == Digits(IF page + 1 >= Pages THEN 0 ELSE page + 1)
             n == (Pointer + 1) % Pages
  <1>1. pc = "upd" /\ pc' = "idle"
    BY DEF upd_addr
  <1>2. PICK rc \in IICResults : WritePage(Pages, new, rc)
    BY DEF upd_addr
  <1>3. new \in Content /\ Pages \in Int
    BY MovedType, PageFacts
  <1> HIDE DEF new
  <1>4. Entries' = Entries
    <2>1. CASE mem' = mem
      BY <2>1 DEF Entries
    <2>2. CASE mem' # mem
      BY <1>2, <1>3, <2>2, WritePageType, LogPages, RingAside
    <2> QED BY <2>1, <2>2
  <1>5. mem'[Pages] \in {mem[Pages], Digits(n)} /\ n \in 0..(Pages - 1)
    BY UpdAddrPointer, PointerFacts, NextPosition
  <1> HIDE DEF n
  <1>6. Pointer' = Pointer \/ Pointer' = n
    BY <1>5, RingMove
  <1> QED BY <1>1, <1>4, <1>6 DEF Ring!Advance, Ring!Lose, Entries, n

(* A reset of the processor misses the store or loses the move.             *)
LEMMA RingRestart ==
    ASSUME TypeOK, PointerInv, intact, intact', Restart
    PROVE  [Ring!Next]_(Ring!vars)
  <1>1. mem' = mem /\ pc' = "idle" /\ intact' = intact
    BY DEF Restart, device
  <1>2. Entries' = Entries /\ Pointer' = Pointer
    BY <1>1 DEF Entries, Pointer
  <1>3. CASE pc = "write"
    <2>1. Pointer \in 0..(Pages - 1)
      BY PointerFacts
    <2>2. Entries' = [Entries EXCEPT ![Pointer] = Entries[Pointer]]
      BY <1>2, <2>1 DEF Entries
    <2>3. Ring!Miss
      BY <1>1, <1>2, <1>3, <2>2 DEF Ring!Miss, Entries
    <2> QED BY <2>3 DEF Ring!Next, Ring!Keeps
  <1>4. CASE pc = "upd"
    <2>1. Ring!Lose
      BY <1>1, <1>2, <1>4 DEF Ring!Lose, Entries
    <2> QED BY <2>1 DEF Ring!Next, Ring!Keeps
  <1>5. CASE pc \in {"idle", "read"}
    BY <1>1, <1>5, RingStutter
  <1> QED BY <1>3, <1>4, <1>5 DEF TypeOK

(* WriteAuto, Write and Reset implement the ring of entries, through the    *)
(* pointer's digits, entries torn by bus errors, lost updates and resets of *)
(* the processor; what ends the promise is damage to the pointer itself.    *)
THEOREM RingRefinement == Spec => ImplementsRingLog
  <1>1. Init => Ring!Init
    <2> SUFFICES ASSUME Init PROVE Ring!Init
      OBVIOUS
    <2>1. [p \in 0..(Pages - 1) |-> mem[p]] = [p \in 0..(Pages - 1) |-> Blank]
      BY LogPages DEF Init
    <2>2. Pointer = 0
      BY LogPages DEF Init, Pointer, Text
    <2>3. pc = "idle" /\ intact = TRUE
      BY DEF Init
    <2> QED BY <2>1, <2>2, <2>3 DEF Ring!Init
  <1>2. ASSUME LogInv, [Next]_vars PROVE [Ring!Next]_(Ring!vars)
    <2>1. CASE ~intact'
      BY <2>1 DEF Ring!Next
    <2>2. CASE intact'
      <3> USE <1>2, <2>2 DEF LogInv
      <3>1. intact
        BY IntactBefore
      <3>2. ASSUME NEW p \in Arguments, NEW d \in Entry, NEW l \in Locks, Write(p, d, l)
            PROVE  [Ring!Next]_(Ring!vars)
        BY <3>1, <3>2, RingPut, ArgumentAssumption
      <3>3. ASSUME NEW l \in Locks, Reset(l) PROVE [Ring!Next]_(Ring!vars)
        BY <3>1, <3>3, RingReset
      <3>4. ASSUME NEW d \in Entry, WriteAuto(d) PROVE [Ring!Next]_(Ring!vars)
        <4>1. mem' = mem /\ pc = "idle" /\ pc' = "write" /\ entry' = d
          BY <3>4, WriteAutoPage DEF WriteAuto
        <4>2. Ring!Begin(d)
          BY <4>1 DEF Ring!Begin, Pointer
        <4> QED BY <3>1, <4>2 DEF Ring!Next, Ring!Keeps
      <3>5. CASE WriteAutoWrite
        BY <3>1, <3>5, RingStore DEF Ring!Next, Ring!Keeps
      <3>6. CASE upd_addr
        BY <3>1, <3>6, RingAdvance DEF Ring!Next, Ring!Keeps
      <3>7. CASE Reading
        BY <3>7, ReadChangesNothing, RingStutter
      <3>8. CASE Restart
        BY <3>1, <3>8, RingRestart
      <3>9. CASE DeviceReady
        BY <3>9, RingStutter DEF DeviceReady
      <3>10. CASE UNCHANGED vars
        BY <3>10, RingStutter DEF vars, device
      <3> QED
        BY <3>2, <3>3, <3>4, <3>5, <3>6, <3>7, <3>8, <3>9, <3>10 DEF Next, Reading
    <2> QED BY <2>1, <2>2
  <1> QED BY <1>1, <1>2, InductiveInvariant, PTL DEF Spec, ImplementsRingLog, Ring!Spec
=============================================================================
